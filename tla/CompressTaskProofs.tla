------------------------- MODULE CompressTaskProofs -------------------------
(***************************************************************************)
(* Proofs about the tasks of one file: types, and what tasks lose, for     *)
(* every kind of file; what the published copies are worth, if no version  *)
(* is streamed (any number of workers) or one worker handles the file (any *)
(* sizes), by one inductive invariant, SInv.                               *)
(***************************************************************************)
EXTENDS CompressTask, WellFoundedInduction, NaturalsInduction, SequenceTheorems, FiniteSetTheorems, TLAPS

HasTodo == {"write", "fill", "rename", "meta", "unlink", "create", "flush", "publish",
            "smeta", "remove"}
HasSnap == {"read", "unlink", "create", "chunk1", "chunk2"}
HasOk == {"chunk1", "chunk2"}

LocalTypes == /\ pc \in [Workers -> PCs]
              /\ snap \in [Workers -> 0..MaxVersions]
              /\ content \in [Workers -> SUBSET (1..MaxVersions)]
              /\ todo \in [Workers -> Seq(Formats)]
              /\ ok \in [Workers -> SUBSET Formats]

\* What a worker has at hand, by where it is.
AtHand(w) == /\ pc[w] \in HasTodo => todo[w] # <<>>
             /\ pc[w] \in HasSnap => snap[w] # 0
             /\ pc[w] \in HasOk => ok[w] # {}
             /\ snap[w] <= Len(hist)

Version == [ino : 1..MaxVersions, mtime : 0..MaxVersions, uid : Users]
HistTypes == /\ hist \in Seq(Version)
             /\ Len(hist) \in 1..MaxVersions
             /\ src \in 0..Len(hist)
FileTypes == out \in [Formats -> File \cup {None}] /\ tmp \in [Formats -> File \cup {None}]
FlagTypes == /\ up \in BOOLEAN
             /\ pending \subseteq {"compress", "delete"}
             /\ lost \subseteq {"buffer", "fd"}
             /\ late \in BOOLEAN /\ cut \in BOOLEAN /\ kept \in BOOLEAN
             /\ errors \in 0..MaxErrors /\ crashes \in 0..MaxCrashes

TInv == HistTypes /\ FileTypes /\ FlagTypes /\ LocalTypes /\ \A w \in Workers : AtHand(w)
-----------------------------------------------------------------------------
(* Data *)

LEMMA Orders ==
  ASSUME NEW S \in SUBSET Formats
  PROVE  /\ BrFirst(S) \in Seq(Formats) /\ GzFirst(S) \in Seq(Formats)
         /\ S # {} => BrFirst(S) # <<>> /\ GzFirst(S) # <<>>
<1>1. /\ Only("br", S) \in Seq(Formats) /\ Only("gz", S) \in Seq(Formats)
      /\ Len(Only("br", S)) = IF "br" \in S THEN 1 ELSE 0
      /\ Len(Only("gz", S)) = IF "gz" \in S THEN 1 ELSE 0
  <2>1. ASSUME NEW f \in Formats
        PROVE  Only(f, S) \in Seq(Formats) /\ Len(Only(f, S)) = IF f \in S THEN 1 ELSE 0
    <3>1. /\ <<f>> \in Seq(Formats) /\ Len(<<f>>) = 1
          /\ <<>> \in Seq(Formats) /\ Len(<<>>) = 0
      OBVIOUS
    <3> QED
      BY <3>1 DEF Only
  <2>2. "br" \in Formats /\ "gz" \in Formats
    BY DEF Formats
  <2> QED
    BY <2>1, <2>2
<1>2. /\ BrFirst(S) \in Seq(Formats) /\ GzFirst(S) \in Seq(Formats)
      /\ Len(BrFirst(S)) = Len(Only("br", S)) + Len(Only("gz", S))
      /\ Len(GzFirst(S)) = Len(Only("gz", S)) + Len(Only("br", S))
  BY <1>1, ConcatProperties DEF BrFirst, GzFirst
<1>3. S # {} => "br" \in S \/ "gz" \in S
  BY DEF Formats
<1>4. S # {} => Len(BrFirst(S)) # 0 /\ Len(GzFirst(S)) # 0
  <2>1. \/ Len(Only("br", S)) = 1 /\ Len(Only("gz", S)) \in {0, 1}
        \/ Len(Only("br", S)) \in {0, 1} /\ Len(Only("gz", S)) = 1
        \/ S = {}
    BY <1>1, <1>3
  <2>2. ASSUME NEW a \in {0, 1}, NEW b \in {0, 1}, a = 1 \/ b = 1
        PROVE  a + b # 0 /\ b + a # 0
    BY <2>2
  <2> QED
    BY <1>2, <2>1, <2>2
<1>5. Len(<<>>) = 0
  OBVIOUS
<1> QED
  BY <1>2, <1>4, <1>5

LEMMA SomeOrders ==
  /\ BrFirst(Enabled) \in Seq(Formats) /\ BrFirst(Enabled) # <<>>
  /\ GzFirst(Formats) \in Seq(Formats) /\ GzFirst(Formats) # <<>>
<1>1. Formats # {}
  BY DEF Formats
<1> QED
  BY <1>1, Orders, CompressAssumption

LEMMA HeadTail ==
  ASSUME NEW s \in Seq(Formats), s # <<>>
  PROVE  /\ Head(s) \in Formats /\ Tail(s) \in Seq(Formats)
         /\ Len(s) > 1 => Tail(s) # <<>>
<1>1. Head(s) \in Formats /\ Tail(s) \in Seq(Formats) /\ Len(Tail(s)) = Len(s) - 1
  BY HeadTailProperties
<1>2. Len(s) \in Nat /\ Len(<<>>) = 0
  OBVIOUS
<1>3. ASSUME Len(s) > 1, Tail(s) = <<>> PROVE FALSE
  BY <1>1, <1>2, <1>3
<1> QED
  BY <1>1, <1>3

LEMMA Element ==
  ASSUME NEW S, NEW h \in Seq(S), NEW i \in 1..Len(h)
  PROVE  h[i] \in S
OBVIOUS

LEMMA VersionType ==
  ASSUME HistTypes, NEW v \in 1..Len(hist)
  PROVE  /\ Ino(v) \in 1..MaxVersions /\ Mtime(v) \in 0..MaxVersions
         /\ Uid(v) \in Users /\ Uid(v) \in Uids
<1>1. hist[v] \in Version
  BY Element DEF HistTypes
<1> QED
  BY <1>1 DEF Version, Ino, Mtime, Uid, Uids

\* An open descriptor reads the last version of its inode, which is not older
\* than the one it was opened for.
LEMMA ContentsType ==
  ASSUME HistTypes, NEW v \in 1..Len(hist)
  PROVE  /\ Contents(v) \in 1..Len(hist) /\ Contents(v) \in 1..MaxVersions
         /\ v <= Contents(v) /\ Ino(Contents(v)) = Ino(v)
<1> DEFINE T == {n \in 1..Len(hist) : Ino(n) = Ino(v)}
           D == {Len(hist) - n : n \in T}
<1>1. Len(hist) \in Nat /\ MaxVersions \in Nat /\ Len(hist) <= MaxVersions
  BY CompressAssumption DEF HistTypes
<1>2. D \subseteq Nat /\ D # {}
  BY <1>1
<1>3. PICK d \in D : \A e \in D : ~(<<e, d>> \in OpToRel(<, Nat))
  BY <1>2, NatLessThanWellFounded, WFMin
<1>4. PICK n \in T : d = Len(hist) - n
  BY <1>3
<1>5. \A m \in T : m <= n
  <2> SUFFICES ASSUME NEW m \in T, n < m PROVE FALSE
    BY <1>1
  <2>1. Len(hist) - m \in D /\ Len(hist) - m < d /\ Len(hist) - m \in Nat /\ d \in Nat
    BY <1>1, <1>2, <1>4
  <2> QED
    BY <2>1, <1>3 DEF OpToRel
<1>6. \E k \in 1..Now : Ino(k) = Ino(v) /\ \A m \in 1..Now : Ino(m) = Ino(v) => m <= k
  BY <1>4, <1>5 DEF Now
<1>7. /\ Contents(v) \in 1..Now /\ Ino(Contents(v)) = Ino(v)
      /\ \A m \in 1..Now : Ino(m) = Ino(v) => m <= Contents(v)
  BY <1>6 DEF Contents
<1> HIDE DEF Ino, Contents
<1>8. v <= Contents(v)
  BY <1>7 DEF Now
<1> QED
  BY <1>1, <1>7, <1>8 DEF Now
-----------------------------------------------------------------------------
(* The steps a worker's actions are made of *)

LEMMA GotoTypes ==
  ASSUME TInv, UNCHANGED <<hist, snap, content, todo, ok>>,
         NEW w \in Workers, NEW where \in PCs, Goto(w, where),
         where \in HasTodo => todo[w] # <<>>,
         where \in HasSnap => snap[w] # 0,
         where \in HasOk => ok[w] # {}
  PROVE  LocalTypes' /\ \A v \in Workers : AtHand(v)'
<1>1. LocalTypes'
  BY DEF TInv, LocalTypes, Goto
<1>2. ASSUME NEW v \in Workers PROVE AtHand(v)'
  BY DEF TInv, LocalTypes, AtHand, Goto
<1> QED
  BY <1>1, <1>2

LEMMA PhaseTypes ==
  ASSUME TInv, hist' = hist,
         NEW w \in Workers, NEW where \in PCs, NEW order \in Seq(Formats),
         Phase(w, where, order),
         where \in HasTodo => order # <<>>,
         where \in HasSnap => snap[w] # 0,
         where \in HasOk => ok[w] # {}
  PROVE  LocalTypes' /\ \A v \in Workers : AtHand(v)'
<1>1. LocalTypes'
  BY DEF TInv, LocalTypes, Phase, Goto
<1>2. ASSUME NEW v \in Workers PROVE AtHand(v)'
  BY DEF TInv, LocalTypes, AtHand, Phase, Goto
<1> QED
  BY <1>1, <1>2

LEMMA ReturnTypes ==
  ASSUME TInv, hist' = hist, NEW w \in Workers, Return(w)
  PROVE  LocalTypes' /\ \A v \in Workers : AtHand(v)'
<1>1. "idle" \in PCs \ (HasTodo \cup HasSnap \cup HasOk) /\ 0 \in 0..MaxVersions
  BY CompressAssumption DEF PCs, HasTodo, HasSnap, HasOk
<1>2. <<>> \in Seq(Formats) /\ {} \in SUBSET (1..MaxVersions) /\ {} \in SUBSET Formats
  OBVIOUS
<1>3. LocalTypes'
  BY <1>1, <1>2 DEF TInv, LocalTypes, Return, Goto
<1>4. ASSUME NEW v \in Workers PROVE AtHand(v)'
  BY <1>1 DEF TInv, LocalTypes, HistTypes, AtHand, Return, Goto
<1> QED
  BY <1>3, <1>4

LEMMA RemoveCopiesTypes ==
  ASSUME TInv, hist' = hist, NEW w \in Workers, RemoveCopies(w)
  PROVE  LocalTypes' /\ \A v \in Workers : AtHand(v)'
<1>1. "remove" \in PCs \ (HasSnap \cup HasOk)
  BY DEF PCs, HasSnap, HasOk
<1> QED
  BY <1>1, SomeOrders, PhaseTypes DEF RemoveCopies

LEMMA NextFormatTypes ==
  ASSUME TInv, hist' = hist, NEW w \in Workers, pc[w] \in HasTodo, NextFormat(w)
  PROVE  LocalTypes' /\ \A v \in Workers : AtHand(v)'
<1>1. todo[w] \in Seq(Formats) /\ todo[w] # <<>>
  BY DEF TInv, LocalTypes, AtHand
<1>2. CASE Len(todo[w]) > 1
  <2>1. "write" \in PCs \ (HasSnap \cup HasOk)
    BY DEF PCs, HasSnap, HasOk
  <2>2. Phase(w, "write", Tail(todo[w]))
    BY <1>2 DEF NextFormat
  <2> QED
    BY <1>1, <1>2, <2>1, <2>2, HeadTail, PhaseTypes
<1>3. CASE ~(Len(todo[w]) > 1)
  BY <1>3, ReturnTypes DEF NextFormat
<1> QED
  BY <1>2, <1>3

\* Files as the actions write them.
LEMMA FileRecords ==
  ASSUME TInv, NEW w \in Workers
  PROVE  /\ NewTmp(w) \in File /\ NewTmp(w) # None
         /\ FullFile(w) \in File /\ FullFile(w) # None
<1>1. Now \in 0..MaxVersions
  BY CompressAssumption DEF TInv, HistTypes, Now
<1>2. content[w] \in SUBSET (1..MaxVersions)
  BY DEF TInv, LocalTypes
<1>3. NewTmp(w) \in File
  BY <1>1 DEF NewTmp, File, Uids
<1>4. FullFile(w) \in File
  BY <1>1, <1>2 DEF FullFile, File, Uids
<1> QED
  BY <1>3, <1>4, NoneAssumption

LEMMA FileSteps ==
  ASSUME TInv, NEW dir \in [Formats -> File \cup {None}], NEW w \in Workers, NEW f \in Formats
  PROVE  /\ WriteOwned(w, dir, f, FullFile(w)) \in [Formats -> File \cup {None}]
         /\ [dir EXCEPT ![f] = None] \in [Formats -> File \cup {None}]
         /\ [dir EXCEPT ![f] = NewTmp(w)] \in [Formats -> File \cup {None}]
         /\ Disown(dir) \in [Formats -> File \cup {None}]
<1>1. FullFile(w) \in File /\ NewTmp(w) \in File
  BY FileRecords
<1>2. WriteOwned(w, dir, f, FullFile(w)) \in [Formats -> File \cup {None}]
  <2>1. CASE dir[f] # None
    <3>1. dir[f] \in File
      BY <2>1
    <3>2. [FullFile(w) EXCEPT !.uid = dir[f].uid] \in File
      BY <1>1, <3>1 DEF File
    <3> QED
      BY <3>2 DEF WriteOwned
  <2>2. CASE dir[f] = None
    BY <2>2 DEF WriteOwned
  <2> QED
    BY <2>1, <2>2
<1>3. Disown(dir) \in [Formats -> File \cup {None}]
  BY DEF Disown, File
<1> QED
  BY <1>1, <1>2, <1>3

LEMMA MtimeStep ==
  ASSUME TInv, NEW f \in Formats, CopyMtime(f)
  PROVE  out' \in [Formats -> File \cup {None}]
<1>1. CASE out[f] # None /\ src # 0
  <2> DEFINE u == IF Daemon = Root THEN Uid(src) ELSE out[f].uid
  <2>1. out[f] \in File /\ out \in [Formats -> File \cup {None}]
    BY <1>1 DEF TInv, FileTypes
  <2>2. Mtime(src) \in 0..MaxVersions /\ Uid(src) \in Uids
    BY <1>1, VersionType DEF TInv, HistTypes
  <2>3. u \in Uids
    BY <2>1, <2>2 DEF File
  <2>4. out' = [out EXCEPT ![f] = [[out[f] EXCEPT !.mtime = Mtime(src)] EXCEPT !.uid = u]]
    BY <1>1, <2>1 DEF CopyMtime
  <2> HIDE DEF u
  <2>5. [[out[f] EXCEPT !.mtime = Mtime(src)] EXCEPT !.uid = u] \in File
    BY <2>1, <2>2, <2>3 DEF File
  <2> QED
    BY <2>1, <2>4, <2>5
<1>2. CASE ~(out[f] # None /\ src # 0)
  BY <1>2 DEF CopyMtime, TInv, FileTypes
<1> QED
  BY <1>1, <1>2

LEMMA OutMove ==
  ASSUME TInv, NEW f \in Formats, Move(f)
  PROVE  FileTypes'
BY DEF Move, TInv, FileTypes
-----------------------------------------------------------------------------
(* The actions *)

LEMMA InitTypes == Init => TInv
<1> SUFFICES ASSUME Init PROVE TInv
  OBVIOUS
<1> USE DEF Init
<1>1. HistTypes
  <2>1. 1 \in 1..MaxVersions /\ 1 \in 0..MaxVersions
    BY CompressAssumption
  <2>2. \A u \in Users : [ino |-> 1, mtime |-> 1, uid |-> u] \in Version
    BY <2>1 DEF Version
  <2>3. /\ hist \in Seq(Version)
        /\ Len(hist) = 1
    BY <2>2
  <2> QED
    BY <2>1, <2>3 DEF HistTypes
<1>2. FileTypes
  BY DEF FileTypes
<1>3. FlagTypes
  <2>1. errors \in 0..MaxErrors /\ crashes \in 0..MaxCrashes
    BY CompressAssumption
  <2> QED
    BY <2>1 DEF FlagTypes
<1>4. LocalTypes
  <2>1. "idle" \in PCs /\ 0 \in 0..MaxVersions /\ <<>> \in Seq(Formats)
    BY CompressAssumption DEF PCs
  <2> QED
    BY <2>1 DEF LocalTypes
<1>5. ASSUME NEW w \in Workers PROVE AtHand(w)
  BY <1>1 DEF AtHand, HistTypes, HasTodo, HasSnap, HasOk
<1> QED
  BY <1>1, <1>2, <1>3, <1>4, <1>5 DEF TInv

\* What users do to the file.
LEMMA UserTypes ==
  ASSUME TInv, Modify \/ Replace \/ ReplaceByOlder \/ Delete
  PROVE  TInv'
<1>1. ASSUME NEW i \in 1..MaxVersions, NEW m \in 0..MaxVersions, NEW u \in Users,
             NewVersion(i, m, u)
      PROVE  TInv'
  <2>1. [ino |-> i, mtime |-> m, uid |-> u] \in Version
    BY DEF Version
  <2>2. /\ hist' = Append(hist, [ino |-> i, mtime |-> m, uid |-> u]) /\ src' = Len(hist) + 1
        /\ Len(hist) < MaxVersions
        /\ UNCHANGED <<out, tmp, up, local, lost, bounds>>
    BY <1>1 DEF NewVersion, Now
  <2>3. /\ hist' \in Seq(Version)
        /\ Len(hist') = Len(hist) + 1 /\ Len(hist) \in 1..MaxVersions
    BY <2>1, <2>2, AppendProperties DEF TInv, HistTypes
  <2>4. HistTypes'
    BY <2>2, <2>3, CompressAssumption DEF HistTypes
  <2>5. FileTypes' /\ LocalTypes'
    BY <2>2 DEF TInv, FileTypes, LocalTypes, local
  <2>6. FlagTypes'
    BY <1>1, <2>2 DEF TInv, FlagTypes, NewVersion, Notice, Disturb, bounds
  <2>7. ASSUME NEW w \in Workers PROVE AtHand(w)'
    BY <2>2, <2>3 DEF TInv, LocalTypes, AtHand, local
  <2> QED
    BY <2>4, <2>5, <2>6, <2>7 DEF TInv
<1>2. CASE Modify
  <2>1. /\ Ino(src) \in 1..MaxVersions /\ Now + 1 \in 0..MaxVersions
        /\ Uid(src) \in Users
    <3>1. src \in 1..Len(hist) /\ Len(hist) < MaxVersions
      BY <1>2 DEF Modify, NewVersion, Now, TInv, HistTypes
    <3> QED
      BY <3>1, VersionType, CompressAssumption DEF TInv, Now
  <2> QED
    BY <1>1, <1>2, <2>1 DEF Modify
<1>3. CASE Replace \/ ReplaceByOlder
  <2>1. /\ Now + 1 \in 1..MaxVersions /\ Now + 1 \in 0..MaxVersions
        /\ 0 \in 0..MaxVersions
    <3>1. Len(hist) < MaxVersions
      BY <1>3 DEF Replace, ReplaceByOlder, NewVersion, Now
    <3>2. Len(hist) \in 1..MaxVersions /\ MaxVersions \in Nat
      BY CompressAssumption DEF TInv, HistTypes
    <3> QED
      BY <3>1, <3>2 DEF Now
  <2>2. \E u \in Users : NewVersion(Now + 1, Now + 1, u) \/ NewVersion(Now + 1, 0, u)
    BY <1>3 DEF Replace, ReplaceByOlder
  <2> QED
    BY <1>1, <2>1, <2>2
<1>4. CASE Delete
  <2>1. HistTypes'
    BY <1>4 DEF Delete, TInv, HistTypes
  <2>2. FileTypes' /\ LocalTypes' /\ FlagTypes'
    BY <1>4 DEF Delete, Notice, Disturb, TInv, FileTypes, LocalTypes, FlagTypes, local, bounds
  <2>3. ASSUME NEW w \in Workers PROVE AtHand(w)'
    BY <1>4 DEF Delete, TInv, AtHand, local
  <2> QED
    BY <2>1, <2>2, <2>3 DEF TInv
<1> QED
  BY <1>2, <1>3, <1>4

\* Worker steps up to the choice of the branch.
LEMMA EarlyTypes ==
  ASSUME TInv, NEW w \in Workers,
         BeginCompress(w) \/ BeginDelete(w) \/ Decide(w) \/ Open(w)
  PROVE  TInv'
<1> USE DEF files, bounds, trail
<1>1. HistTypes' /\ FileTypes' /\ FlagTypes' /\ hist' = hist
  BY DEF TInv, HistTypes, FileTypes, FlagTypes, BeginCompress, BeginDelete, Decide, Open
<1>2. CASE BeginCompress(w)
  <2>1. "decide" \in PCs \ (HasTodo \cup HasSnap \cup HasOk)
    BY DEF PCs, HasTodo, HasSnap, HasOk
  <2> QED
    BY <1>1, <1>2, <2>1, GotoTypes DEF TInv, BeginCompress
<1>3. CASE BeginDelete(w)
  BY <1>1, <1>3, RemoveCopiesTypes DEF TInv, BeginDelete
<1>4. CASE Decide(w)
  <2>1. "open" \in PCs \ (HasTodo \cup HasSnap \cup HasOk) /\ <<>> \in Seq(Formats)
    BY DEF PCs, HasTodo, HasSnap, HasOk
  <2>2. CASE Return(w)
    BY <1>1, <2>2, ReturnTypes DEF TInv
  <2>3. CASE RemoveCopies(w)
    BY <1>1, <2>3, RemoveCopiesTypes DEF TInv
  <2>4. CASE Phase(w, "open", <<>>)
    BY <1>1, <2>1, <2>4, PhaseTypes DEF TInv
  <2> QED
    BY <1>4, <2>2, <2>3, <2>4 DEF Decide
<1>5. CASE Open(w)
  <2>1. CASE src = 0 /\ Return(w)
    BY <1>1, <2>1, ReturnTypes DEF TInv
  <2>2. CASE src # 0
    <3>1. /\ snap' = [snap EXCEPT ![w] = src]
          /\ \/ pc' = [pc EXCEPT ![w] = "unlink"]
                /\ todo' = [todo EXCEPT ![w] = BrFirst(Enabled)]
             \/ pc' = [pc EXCEPT ![w] = "read"] /\ UNCHANGED todo
          /\ UNCHANGED <<content, ok>>
          /\ src \in 1..Len(hist) /\ src \in 0..MaxVersions /\ hist' = hist
      <4>1. src \in 1..Len(hist) /\ src \in 0..MaxVersions
        BY <2>2, CompressAssumption DEF TInv, HistTypes
      <4>2. ~Return(w) \/ src # 0
        BY <2>2
      <4> QED
        BY <1>1, <1>5, <2>2, <4>1 DEF Open, Goto
    <3>2. "unlink" \in PCs \ HasOk /\ "read" \in PCs \ (HasTodo \cup HasOk)
      BY DEF PCs, HasTodo, HasOk
    <3>3. LocalTypes'
      BY <3>1, <3>2, SomeOrders DEF TInv, LocalTypes
    <3>4. ASSUME NEW v \in Workers PROVE AtHand(v)'
      BY <3>1, <3>2, SomeOrders DEF TInv, LocalTypes, AtHand
    <3> QED
      BY <1>1, <3>3, <3>4 DEF TInv
  <2> QED
    BY <1>5, <2>1, <2>2 DEF Open
<1> QED
  BY <1>2, <1>3, <1>4, <1>5

\* Reading, in one piece or in two.
LEMMA ReadingTypes ==
  ASSUME TInv, NEW w \in Workers, Read(w) \/ Check(w) \/ Chunk1(w) \/ Chunk2(w)
  PROVE  TInv'
<1> USE DEF files, bounds, trail
<1>1. HistTypes' /\ FileTypes' /\ hist' = hist
  BY DEF TInv, HistTypes, FileTypes, Read, Check, Chunk1, Chunk2
<1>2. FlagTypes'
  <2>1. UNCHANGED <<up, pending, late, cut, kept, crashes>>
    BY DEF Read, Check, Chunk1, Chunk2
  <2>2. /\ errors' = errors \/ (errors < MaxErrors /\ errors' = errors + 1)
        /\ lost' = lost \/ lost' = lost \cup {"fd"} \/ lost' = lost \cup {"buffer"}
    <3>1. CASE Read(w)
      BY <3>1 DEF Read, PartialRead, CallFails
    <3>2. CASE Check(w)
      BY <3>2 DEF Check
    <3>3. CASE Chunk1(w)
      BY <3>3 DEF Chunk1, StreamError, CallFails
    <3>4. CASE Chunk2(w)
      BY <3>4 DEF Chunk2, StreamError, CallFails
    <3> QED
      BY <3>1, <3>2, <3>3, <3>4
  <2>3. errors' \in 0..MaxErrors
    BY <2>2, CompressAssumption DEF TInv, FlagTypes
  <2> QED
    BY <2>1, <2>2, <2>3 DEF TInv, FlagTypes
<1>3. /\ pc[w] \in HasSnap => Contents(snap[w]) \in 1..MaxVersions
      /\ content[w] \in SUBSET (1..MaxVersions)
  <2>1. content[w] \in SUBSET (1..MaxVersions)
    BY DEF TInv, LocalTypes
  <2>2. pc[w] \in HasSnap => snap[w] \in 1..Len(hist)
    BY DEF TInv, LocalTypes, AtHand, HistTypes
  <2> QED
    BY <2>1, <2>2, ContentsType DEF TInv
<1>4. CASE Read(w)
  <2>1. "read" \in HasSnap /\ "check" \in PCs \ (HasTodo \cup HasOk)
    BY DEF PCs, HasTodo, HasSnap, HasOk
  <2>2. CASE RemoveCopies(w)
    BY <1>1, <1>2, <2>2, RemoveCopiesTypes DEF TInv
  <2>3. CASE ~RemoveCopies(w)
    <3>1. /\ pc' = [pc EXCEPT ![w] = "check"]
          /\ content' = [content EXCEPT ![w] = {Contents(snap[w])}]
          /\ UNCHANGED <<snap, todo, ok>>
          /\ pc[w] = "read"
      BY <1>4, <2>3 DEF Read, PartialRead, Goto, At
    <3>2. {Contents(snap[w])} \in SUBSET (1..MaxVersions)
      BY <1>3, <2>1, <3>1
    <3>3. LocalTypes'
      BY <2>1, <3>1, <3>2 DEF TInv, LocalTypes
    <3>4. ASSUME NEW v \in Workers PROVE AtHand(v)'
      BY <1>1, <2>1, <3>1 DEF TInv, LocalTypes, AtHand, HasSnap
    <3> QED
      BY <1>1, <1>2, <3>3, <3>4 DEF TInv
  <2> QED
    BY <2>2, <2>3
<1>5. CASE Check(w)
  <2>1. "write" \in PCs \ (HasSnap \cup HasOk)
    BY DEF PCs, HasSnap, HasOk
  <2>2. CASE Return(w)
    BY <1>1, <1>2, <2>2, ReturnTypes DEF TInv
  <2>3. CASE RemoveCopies(w)
    BY <1>1, <1>2, <2>3, RemoveCopiesTypes DEF TInv
  <2>4. CASE Phase(w, "write", BrFirst(Enabled))
    BY <1>1, <1>2, <2>1, <2>4, PhaseTypes, SomeOrders DEF TInv
  <2> QED
    BY <1>5, <2>2, <2>3, <2>4 DEF Check
<1>6. CASE Chunk1(w)
  <2>1. "chunk1" \in HasSnap \cap HasOk /\ "chunk2" \in PCs \ HasTodo
    BY DEF PCs, HasTodo, HasSnap, HasOk
  <2>2. CASE RemoveCopies(w)
    BY <1>1, <1>2, <2>2, RemoveCopiesTypes DEF TInv
  <2>3. CASE ~RemoveCopies(w)
    <3>1. /\ pc' = [pc EXCEPT ![w] = "chunk2"]
          /\ content' = [content EXCEPT ![w] = {Contents(snap[w])}]
          /\ UNCHANGED <<snap, todo, ok>>
          /\ pc[w] = "chunk1"
      BY <1>6, <2>3 DEF Chunk1, StreamError, Goto, At
    <3>2. {Contents(snap[w])} \in SUBSET (1..MaxVersions)
      BY <1>3, <2>1, <3>1
    <3>3. LocalTypes'
      BY <2>1, <3>1, <3>2 DEF TInv, LocalTypes
    <3>4. ASSUME NEW v \in Workers PROVE AtHand(v)'
      BY <1>1, <2>1, <3>1 DEF TInv, LocalTypes, AtHand
    <3> QED
      BY <1>1, <1>2, <3>3, <3>4 DEF TInv
  <2> QED
    BY <2>2, <2>3
<1>7. CASE Chunk2(w)
  <2>1. "chunk2" \in HasSnap \cap HasOk /\ "flush" \in PCs \ (HasSnap \cup HasOk)
    BY DEF PCs, HasSnap, HasOk
  <2>2. CASE RemoveCopies(w)
    BY <1>1, <1>2, <2>2, RemoveCopiesTypes DEF TInv
  <2>3. CASE ~RemoveCopies(w)
    <3>1. /\ pc' = [pc EXCEPT ![w] = "flush"]
          /\ content' = [content EXCEPT ![w] = content[w] \cup {Contents(snap[w])}]
          /\ todo' = [todo EXCEPT ![w] = BrFirst(ok[w])]
          /\ UNCHANGED <<snap, ok>>
          /\ pc[w] = "chunk2"
      BY <1>7, <2>3 DEF Chunk2, StreamError, Goto, At
    <3>2. /\ content[w] \cup {Contents(snap[w])} \in SUBSET (1..MaxVersions)
          /\ BrFirst(ok[w]) \in Seq(Formats) /\ BrFirst(ok[w]) # <<>>
      <4>1. ok[w] \in SUBSET Formats /\ ok[w] # {}
        BY <2>1, <3>1 DEF TInv, LocalTypes, AtHand
      <4> QED
        BY <1>3, <2>1, <3>1, <4>1, Orders
    <3>3. LocalTypes'
      BY <2>1, <3>1, <3>2 DEF TInv, LocalTypes
    <3>4. ASSUME NEW v \in Workers PROVE AtHand(v)'
      BY <1>1, <2>1, <3>1, <3>2 DEF TInv, LocalTypes, AtHand
    <3> QED
      BY <1>1, <1>2, <3>3, <3>4 DEF TInv
  <2> QED
    BY <2>2, <2>3
<1> QED
  BY <1>4, <1>5, <1>6, <1>7

\* What a worker with formats to handle handles next.
LEMMA NextTodo ==
  ASSUME TInv, NEW w \in Workers, pc[w] \in HasTodo
  PROVE  /\ todo[w] \in Seq(Formats) /\ todo[w] # <<>>
         /\ Head(todo[w]) \in Formats /\ Tail(todo[w]) \in Seq(Formats)
         /\ Len(todo[w]) > 1 => Tail(todo[w]) # <<>>
<1>1. todo[w] \in Seq(Formats) /\ todo[w] # <<>>
  BY DEF TInv, LocalTypes, AtHand
<1> QED
  BY <1>1, HeadTail

\* The one-shot formats.
LEMMA WritingTypes ==
  ASSUME TInv, NEW w \in Workers, OpenTmp(w) \/ Fill(w) \/ Rename(w) \/ Meta(w)
  PROVE  TInv'
<1> DEFINE f == Head(todo[w])
<1> USE DEF files, bounds, trail
<1>1. HistTypes' /\ hist' = hist
  BY DEF TInv, HistTypes, OpenTmp, Fill, Rename, Meta
<1>2. FlagTypes'
  <2>1. UNCHANGED <<up, pending, lost, late, cut, kept, crashes>>
    BY DEF OpenTmp, Fill, Rename, Meta
  <2>2. errors' = errors \/ (errors < MaxErrors /\ errors' = errors + 1)
    BY DEF OpenTmp, Fill, Rename, Meta, CallFails
  <2>3. errors' \in 0..MaxErrors
    BY <2>2, CompressAssumption DEF TInv, FlagTypes
  <2> QED
    BY <2>1, <2>3 DEF TInv, FlagTypes
<1>3. /\ pc[w] \in HasTodo /\ f \in Formats
      /\ out \in [Formats -> File \cup {None}] /\ tmp \in [Formats -> File \cup {None}]
  <2>1. pc[w] \in {"write", "fill", "rename", "meta"}
    BY DEF OpenTmp, Fill, Rename, Meta, At
  <2>2. pc[w] \in HasTodo
    BY <2>1 DEF HasTodo
  <2> QED
    BY <2>2, NextTodo DEF TInv, FileTypes
<1>4. FileTypes'
  <2>1. CASE OpenTmp(w)
    BY <1>3, <2>1, FileSteps DEF OpenTmp, FileTypes
  <2>2. CASE Fill(w)
    <3>1. \/ tmp' = [tmp EXCEPT ![f] = None] /\ UNCHANGED out
          \/ /\ tmp' = WriteOwned(w, tmp, f, FullFile(w))
             /\ out' = WriteOwned(w, out, f, FullFile(w))
      BY <2>2 DEF Fill
    <3>2. /\ WriteOwned(w, tmp, f, FullFile(w)) \in [Formats -> File \cup {None}]
          /\ WriteOwned(w, out, f, FullFile(w)) \in [Formats -> File \cup {None}]
      BY <1>3, FileSteps
    <3> QED
      BY <1>3, <3>1, <3>2 DEF FileTypes
  <2>3. CASE Rename(w)
    BY <1>3, <2>3, OutMove DEF Rename, FileTypes
  <2>4. CASE Meta(w)
    BY <1>3, <2>4, MtimeStep DEF Meta, FileTypes
  <2> QED
    BY <2>1, <2>2, <2>3, <2>4
<1>5. LocalTypes' /\ \A v \in Workers : AtHand(v)'
  <2>1. {"fill", "rename", "meta"} \subseteq PCs \ (HasSnap \cup HasOk)
    BY DEF PCs, HasSnap, HasOk
  <2>2. CASE NextFormat(w)
    BY <1>1, <1>3, <2>2, NextFormatTypes
  <2>3. CASE Phase(w, "meta", todo[w])
    BY <1>1, <1>3, <2>1, <2>3, PhaseTypes, NextTodo
  <2>4. CASE Goto(w, "fill") /\ UNCHANGED <<snap, content, todo, ok>>
    BY <1>1, <1>3, <2>1, <2>4, GotoTypes, NextTodo
  <2>5. CASE Goto(w, "rename") /\ UNCHANGED <<snap, content, todo, ok>>
    BY <1>1, <1>3, <2>1, <2>5, GotoTypes, NextTodo
  <2> QED
    BY <2>2, <2>3, <2>4, <2>5 DEF OpenTmp, Fill, Rename, Meta
<1> QED
  BY <1>1, <1>2, <1>4, <1>5 DEF TInv

\* The streamed formats: creating them, and publishing them.
LEMMA StreamTypes ==
  ASSUME TInv, NEW w \in Workers, Unlink(w) \/ Create(w) \/ Flush(w) \/ Publish(w)
  PROVE  TInv'
<1> DEFINE f == Head(todo[w])
<1> USE DEF files, bounds, trail
<1>1. HistTypes' /\ hist' = hist
  BY DEF TInv, HistTypes, Unlink, Create, Flush, Publish
<1>2. FlagTypes'
  <2>1. UNCHANGED <<up, pending, late, cut, kept, crashes>>
    BY DEF Unlink, Create, Flush, Publish
  <2>2. /\ errors' = errors \/ (errors < MaxErrors /\ errors' = errors + 1)
        /\ lost' = lost \/ lost' = lost \cup {"fd"}
    BY DEF Unlink, Create, Flush, Publish, CallFails
  <2>3. errors' \in 0..MaxErrors
    BY <2>2, CompressAssumption DEF TInv, FlagTypes
  <2> QED
    BY <2>1, <2>2, <2>3 DEF TInv, FlagTypes
<1>3. /\ pc[w] \in HasTodo /\ f \in Formats
      /\ todo[w] \in Seq(Formats) /\ todo[w] # <<>>
      /\ Tail(todo[w]) \in Seq(Formats)
      /\ Len(todo[w]) > 1 => Tail(todo[w]) # <<>>
      /\ out \in [Formats -> File \cup {None}] /\ tmp \in [Formats -> File \cup {None}]
      /\ ok[w] \in SUBSET Formats
  <2>1. pc[w] \in {"unlink", "create", "flush", "publish"}
    BY DEF Unlink, Create, Flush, Publish, At
  <2>2. pc[w] \in HasTodo
    BY <2>1 DEF HasTodo
  <2> QED
    BY <2>2, NextTodo DEF TInv, FileTypes, LocalTypes
<1>4. FileTypes'
  <2>1. CASE Unlink(w)
    BY <1>3, <2>1, FileSteps DEF Unlink, FileTypes
  <2>2. CASE Create(w)
    <3>1. tmp' = tmp \/ tmp' = [tmp EXCEPT ![f] = NewTmp(w)]
      BY <2>2 DEF Create
    <3>2. [tmp EXCEPT ![f] = NewTmp(w)] \in [Formats -> File \cup {None}]
      BY <1>3, FileSteps
    <3>3. out' = out
      BY <2>2 DEF Create
    <3> QED
      BY <1>3, <3>1, <3>2, <3>3 DEF FileTypes
  <2>3. CASE Flush(w)
    <3>1. \/ UNCHANGED <<out, tmp>>
          \/ /\ tmp' = WriteOwned(w, tmp, f, FullFile(w))
             /\ out' = WriteOwned(w, out, f, FullFile(w))
      BY <2>3 DEF Flush
    <3>2. /\ WriteOwned(w, tmp, f, FullFile(w)) \in [Formats -> File \cup {None}]
          /\ WriteOwned(w, out, f, FullFile(w)) \in [Formats -> File \cup {None}]
      BY <1>3, FileSteps
    <3> QED
      BY <1>3, <3>1, <3>2 DEF FileTypes
  <2>4. CASE Publish(w)
    BY <1>3, <2>4, OutMove DEF Publish, FileTypes
  <2> QED
    BY <2>1, <2>2, <2>3, <2>4
<1>5. LocalTypes' /\ \A v \in Workers : AtHand(v)'
  <2>1. CASE Unlink(w)
    <3>1. "create" \in PCs \ HasOk /\ "unlink" \in HasSnap /\ pc[w] = "unlink"
      BY <2>1 DEF PCs, HasOk, HasSnap, Unlink, At
    <3>2. snap[w] # 0
      BY <3>1 DEF TInv, AtHand
    <3> QED
      BY <1>1, <1>3, <2>1, <3>1, <3>2, GotoTypes DEF Unlink
  <2>2. ASSUME NEW S \in SUBSET Formats, Create(w), Started(w, S)
        PROVE  LocalTypes' /\ \A v \in Workers : AtHand(v)'
    <3>1. "create" \in HasSnap /\ pc[w] = "create"
      BY <2>2 DEF HasSnap, Create, At
    <3>2. snap[w] # 0 /\ snap[w] \in 0..MaxVersions
      BY <3>1 DEF TInv, LocalTypes, AtHand
    <3>3. CASE Len(todo[w]) > 1
      <4>1. "unlink" \in PCs \ HasOk
        BY DEF PCs, HasOk
      <4>2. /\ ok' = [ok EXCEPT ![w] = S]
            /\ pc' = [pc EXCEPT ![w] = "unlink"]
            /\ todo' = [todo EXCEPT ![w] = Tail(todo[w])]
            /\ UNCHANGED <<snap, content>>
        BY <2>2, <3>3 DEF Started, Goto
      <4>3. LocalTypes'
        BY <1>3, <2>2, <4>1, <4>2 DEF TInv, LocalTypes
      <4>4. ASSUME NEW v \in Workers PROVE AtHand(v)'
        BY <1>1, <1>3, <3>2, <3>3, <4>1, <4>2 DEF TInv, LocalTypes, AtHand
      <4> QED
        BY <4>3, <4>4
    <3>4. CASE ~(Len(todo[w]) > 1)
      <4>1. /\ "idle" \in PCs \ (HasTodo \cup HasSnap \cup HasOk)
            /\ "chunk1" \in PCs \ HasTodo
            /\ <<>> \in Seq(Formats) /\ 0 \in 0..MaxVersions
        BY CompressAssumption DEF PCs, HasTodo, HasSnap, HasOk
      <4>2. /\ ok' = [ok EXCEPT ![w] = S]
            /\ pc' = [pc EXCEPT ![w] = IF S = {} THEN "idle" ELSE "chunk1"]
            /\ todo' = [todo EXCEPT ![w] = <<>>]
            /\ snap' = [snap EXCEPT ![w] = IF S = {} THEN 0 ELSE snap[w]]
            /\ UNCHANGED content
        BY <2>2, <3>4 DEF Started, Goto
      <4>3. LocalTypes'
        BY <2>2, <3>2, <4>1, <4>2 DEF TInv, LocalTypes
      <4>4. ASSUME NEW v \in Workers PROVE AtHand(v)'
        <5>1. CASE v # w
          BY <1>1, <4>2, <5>1 DEF TInv, LocalTypes, AtHand
        <5>2. CASE v = w /\ S = {}
          BY <1>1, <4>1, <4>2, <5>2 DEF TInv, LocalTypes, HistTypes, AtHand
        <5>3. CASE v = w /\ S # {}
          BY <1>1, <2>2, <3>2, <4>1, <4>2, <5>3 DEF TInv, LocalTypes, AtHand
        <5> QED
          BY <5>1, <5>2, <5>3
      <4> QED
        BY <4>3, <4>4
    <3> QED
      BY <3>3, <3>4
  <2>3. ASSUME NEW S \in SUBSET Formats, NextFlush(w, S)
        PROVE  LocalTypes' /\ \A v \in Workers : AtHand(v)'
    <3>1. /\ "flush" \in PCs \ (HasSnap \cup HasOk)
          /\ "scheck" \in PCs \ (HasTodo \cup HasSnap \cup HasOk)
      BY DEF PCs, HasTodo, HasSnap, HasOk
    <3>2. /\ ok' = [ok EXCEPT ![w] = S]
          /\ pc' = [pc EXCEPT ![w] = IF Len(todo[w]) > 1 THEN "flush" ELSE "scheck"]
          /\ todo' = [todo EXCEPT ![w] = Tail(todo[w])]
          /\ UNCHANGED <<snap, content>>
      BY <2>3 DEF NextFlush, Goto
    <3>3. LocalTypes'
      BY <1>3, <2>3, <3>1, <3>2 DEF TInv, LocalTypes
    <3>4. ASSUME NEW v \in Workers PROVE AtHand(v)'
      BY <1>1, <1>3, <3>1, <3>2 DEF TInv, LocalTypes, AtHand
    <3> QED
      BY <3>3, <3>4
  <2>4. CASE Create(w)
    BY <1>3, <2>2, <2>4 DEF Create
  <2>5. CASE Flush(w)
    <3>1. CASE Goto(w, "publish") /\ UNCHANGED <<snap, content, todo, ok>>
      <4>1. "publish" \in PCs \ (HasSnap \cup HasOk)
        BY DEF PCs, HasSnap, HasOk
      <4> QED
        BY <1>1, <1>3, <3>1, <4>1, GotoTypes
    <3>2. CASE NextFlush(w, ok[w] \ {f})
      BY <1>3, <2>3, <3>2
    <3> QED
      BY <2>5, <3>1, <3>2 DEF Flush
  <2>6. CASE Publish(w)
    BY <1>3, <2>3, <2>6 DEF Publish
  <2> QED
    BY <2>1, <2>4, <2>5, <2>6
<1> QED
  BY <1>1, <1>2, <1>4, <1>5 DEF TInv

\* The end of a stream, and the removal of the copies.
LEMMA EndingTypes ==
  ASSUME TInv, NEW w \in Workers, StreamCheck(w) \/ StreamMeta(w) \/ Remove(w)
  PROVE  TInv'
<1> DEFINE f == Head(todo[w])
<1> USE DEF files, bounds, trail
<1>1. HistTypes' /\ hist' = hist
  BY DEF TInv, HistTypes, StreamCheck, StreamMeta, Remove
<1>2. FlagTypes'
  <2>1. /\ UNCHANGED <<up, late, cut, crashes, lost>>
        /\ kept' = kept \/ kept' = TRUE
        /\ pending' = pending \/ pending' = pending \cup {"compress"}
        /\ errors' = errors \/ (errors < MaxErrors /\ errors' = errors + 1)
    BY DEF StreamCheck, StreamMeta, Remove, CallFails
  <2>2. errors' \in 0..MaxErrors
    BY <2>1, CompressAssumption DEF TInv, FlagTypes
  <2> QED
    BY <2>1, <2>2 DEF TInv, FlagTypes
<1>3. CASE StreamCheck(w)
  <2>1. FileTypes'
    BY <1>3 DEF StreamCheck, TInv, FileTypes
  <2>2. LocalTypes' /\ \A v \in Workers : AtHand(v)'
    <3>1. "smeta" \in PCs \ (HasSnap \cup HasOk) /\ ok[w] \in SUBSET Formats
      BY DEF PCs, HasSnap, HasOk, TInv, LocalTypes
    <3>2. CASE Return(w)
      BY <1>1, <3>2, ReturnTypes
    <3>3. CASE RemoveCopies(w)
      BY <1>1, <3>3, RemoveCopiesTypes
    <3>4. CASE ok[w] # {} /\ Phase(w, "smeta", GzFirst(ok[w]))
      BY <1>1, <3>1, <3>4, PhaseTypes, Orders
    <3> QED
      BY <1>3, <3>2, <3>3, <3>4 DEF StreamCheck
  <2> QED
    BY <1>1, <1>2, <2>1, <2>2 DEF TInv
<1>4. CASE StreamMeta(w) \/ Remove(w)
  <2>1. pc[w] \in HasTodo
    BY <1>4 DEF StreamMeta, Remove, At, HasTodo
  <2>2. f \in Formats /\ out \in [Formats -> File \cup {None}]
        /\ tmp \in [Formats -> File \cup {None}]
    BY <2>1, NextTodo DEF TInv, FileTypes
  <2>3. FileTypes'
    <3>1. CASE StreamMeta(w)
      BY <2>2, <3>1, MtimeStep DEF StreamMeta, FileTypes
    <3>2. CASE Remove(w)
      BY <2>2, <3>2 DEF Remove, FileTypes
    <3> QED
      BY <1>4, <3>1, <3>2
  <2>4. {"smeta", "remove"} \subseteq PCs \ (HasSnap \cup HasOk)
    BY DEF PCs, HasSnap, HasOk
  <2>5. CASE Return(w)
    BY <1>1, <1>2, <2>3, <2>5, ReturnTypes DEF TInv
  <2>6. CASE Len(todo[w]) > 1 /\ Phase(w, "smeta", Tail(todo[w]))
    <3>1. Tail(todo[w]) \in Seq(Formats) /\ Tail(todo[w]) # <<>>
      BY <2>1, <2>6, NextTodo
    <3> QED
      BY <1>1, <1>2, <2>3, <2>4, <2>6, <3>1, PhaseTypes DEF TInv
  <2>7. CASE /\ Len(todo[w]) > 1 /\ Goto(w, "remove")
             /\ todo' = [todo EXCEPT ![w] = Tail(@)]
             /\ snap' = [snap EXCEPT ![w] = Seen(w)] /\ UNCHANGED <<content, ok>>
    <3>1. Tail(todo[w]) \in Seq(Formats) /\ Tail(todo[w]) # <<>>
      BY <2>1, <2>7, NextTodo
    <3>2. Seen(w) \in 0..MaxVersions /\ Seen(w) <= Len(hist)
      BY CompressAssumption DEF Seen, TInv, HistTypes, LocalTypes, AtHand
    <3>3. LocalTypes'
      BY <2>4, <2>7, <3>1, <3>2 DEF TInv, LocalTypes, Goto
    <3>4. ASSUME NEW v \in Workers PROVE AtHand(v)'
      BY <1>1, <2>4, <2>7, <3>1, <3>2 DEF TInv, LocalTypes, AtHand, Goto
    <3> QED
      BY <1>1, <1>2, <2>3, <3>3, <3>4 DEF TInv
  <2> QED
    BY <1>4, <2>5, <2>6, <2>7 DEF StreamMeta, Remove, NextRemoval
<1> QED
  BY <1>3, <1>4

LEMMA CrashTypes ==
  ASSUME TInv, Crash \/ Restart
  PROVE  TInv'
<1>1. CASE Crash
  <2>1. HistTypes' /\ hist' = hist
    BY <1>1 DEF TInv, HistTypes, Crash
  <2>2. FileTypes'
    <3>1. ASSUME NEW dir \in [Formats -> File \cup {None}]
          PROVE  Disown(dir) \in [Formats -> File \cup {None}]
      BY DEF Disown, File
    <3> QED
      BY <1>1, <3>1 DEF TInv, FileTypes, Crash
  <2>3. FlagTypes'
    <3>1. crashes' \in 0..MaxCrashes
      BY <1>1, CompressAssumption DEF TInv, FlagTypes, Crash
    <3> QED
      BY <1>1, <3>1 DEF TInv, FlagTypes, Crash
  <2>4. "idle" \in PCs \ (HasTodo \cup HasSnap \cup HasOk) /\ 0 \in 0..MaxVersions
        /\ <<>> \in Seq(Formats)
    BY CompressAssumption DEF PCs, HasTodo, HasSnap, HasOk
  <2>5. LocalTypes'
    BY <1>1, <2>4 DEF LocalTypes, Crash
  <2>6. ASSUME NEW v \in Workers PROVE AtHand(v)'
    BY <1>1, <2>1, <2>4 DEF TInv, HistTypes, AtHand, Crash
  <2> QED
    BY <2>1, <2>2, <2>3, <2>5, <2>6 DEF TInv
<1>2. CASE Restart
  <2>1. HistTypes' /\ FileTypes' /\ LocalTypes' /\ hist' = hist
    BY <1>2 DEF TInv, HistTypes, FileTypes, LocalTypes, Restart, local
  <2>2. FlagTypes'
    <3>1. /\ UNCHANGED <<lost, late, cut, crashes>> /\ up' = TRUE
          /\ kept' = kept \/ kept' = TRUE
          /\ errors' = errors \/ (errors < MaxErrors /\ errors' = errors + 1)
      BY <1>2 DEF Restart, CallFails
    <3>2. pending' \subseteq {"compress", "delete"}
      BY <1>2 DEF Restart
    <3>3. errors' \in 0..MaxErrors
      BY <3>1, CompressAssumption DEF TInv, FlagTypes
    <3> QED
      BY <3>1, <3>2, <3>3 DEF TInv, FlagTypes
  <2>3. ASSUME NEW v \in Workers PROVE AtHand(v)'
    BY <1>2 DEF TInv, AtHand, Restart, local
  <2> QED
    BY <2>1, <2>2, <2>3 DEF TInv
<1> QED
  BY <1>1, <1>2

LEMMA NextTypes == TInv /\ [Next]_vars => TInv'
<1> SUFFICES ASSUME TInv, [Next]_vars PROVE TInv'
  OBVIOUS
<1>1. CASE UNCHANGED vars
  <2>1. HistTypes' /\ FileTypes' /\ FlagTypes' /\ LocalTypes'
    BY <1>1 DEF vars, TInv, HistTypes, FileTypes, FlagTypes, LocalTypes
  <2>2. ASSUME NEW v \in Workers PROVE AtHand(v)'
    BY <1>1 DEF vars, TInv, AtHand
  <2> QED
    BY <2>1, <2>2 DEF TInv
<1>2. ASSUME NEW w \in Workers, Step(w) PROVE TInv'
  BY <1>2, EarlyTypes, ReadingTypes, WritingTypes, StreamTypes, EndingTypes DEF Step
<1>3. CASE Next
  BY <1>2, <1>3, UserTypes, CrashTypes DEF Next
<1> QED
  BY <1>1, <1>3

LEMMA SpecTypes == Spec => []TInv
BY InitTypes, NextTypes, PTL DEF Spec

\* The variables of the tasks keep their types, whatever is edited, streamed,
\* fails or crashes (compress_task, delete_task).
THEOREM TaskTypeCorrect == Spec => []TypeOK
<1>1. TInv => TypeOK
  BY DEF TInv, HistTypes, FileTypes, FlagTypes, LocalTypes, TypeOK, Version
<1> QED BY SpecTypes, <1>1, PTL
-----------------------------------------------------------------------------
(* The sequences of formats a phase goes through *)

Elements(s) == {s[i] : i \in 1..Len(s)}
OrderSet == {<<>>, <<"gz">>, <<"br">>, <<"br", "gz">>, <<"gz", "br">>}

LEMMA OrderFacts ==
  ASSUME NEW s \in OrderSet
  PROVE  /\ s \in Seq(Formats) /\ Elements(s) \subseteq Formats
         /\ s = <<>> => Elements(s) = {}
         /\ s # <<>> => /\ Head(s) \in Elements(s)
                        /\ Elements(Tail(s)) = Elements(s) \ {Head(s)}
                        /\ Tail(s) \in OrderSet
                        /\ ~(Len(s) > 1) => Elements(Tail(s)) = {} /\ Tail(s) = <<>>
                        /\ Len(s) > 1 => Tail(s) # <<>>
<1>1. CASE s = <<>>
  BY <1>1 DEF Elements
<1>2. ASSUME NEW f \in Formats, s = <<f>>
      PROVE  /\ Elements(s) = {f} /\ Head(s) = f /\ Tail(s) = <<>> /\ Len(s) = 1
             /\ s \in Seq(Formats)
  BY <1>2 DEF Elements
<1>3. ASSUME NEW f \in Formats, NEW g \in Formats, f # g, s = <<f, g>>
      PROVE  /\ Elements(s) = {f, g} /\ Head(s) = f /\ Tail(s) = <<g>> /\ Len(s) = 2
             /\ s \in Seq(Formats) /\ Elements(Tail(s)) = {g}
  <2>1. /\ Head(s) = f /\ Tail(s) = <<g>> /\ Len(s) = 2 /\ s[1] = f /\ s[2] = g
        /\ s \in Seq(Formats) /\ Len(<<g>>) = 1 /\ <<g>>[1] = g
    BY <1>3
  <2>2. 1..2 = {1, 2} /\ 1..1 = {1}
    OBVIOUS
  <2> QED
    BY <2>1, <2>2 DEF Elements
<1>4. /\ "gz" \in Formats /\ "br" \in Formats /\ "gz" # "br" /\ Elements(<<>>) = {}
      /\ \A f \in Formats : <<f>> # <<>>
  BY DEF Formats, Elements
<1>5. CASE s \in {<<"gz">>, <<"br">>}
  <2>1. PICK f \in Formats : s = <<f>>
    BY <1>4, <1>5
  <2>2. <<>> \in OrderSet
    BY DEF OrderSet
  <2> QED
    BY <1>2, <1>4, <2>1, <2>2
<1>6. CASE s \in {<<"br", "gz">>, <<"gz", "br">>}
  <2>1. PICK f \in Formats, g \in Formats : s = <<f, g>> /\ f # g /\ <<g>> \in OrderSet
    BY <1>4, <1>6 DEF OrderSet
  <2>2. s # <<>> /\ <<g>> # <<>>
    BY <2>1
  <2> QED
    BY <1>3, <2>1, <2>2
<1> QED
  BY <1>1, <1>5, <1>6 DEF OrderSet

LEMMA OrderOf ==
  ASSUME NEW S \in SUBSET Formats
  PROVE  /\ BrFirst(S) \in OrderSet /\ Elements(BrFirst(S)) = S
         /\ GzFirst(S) \in OrderSet /\ Elements(GzFirst(S)) = S
<1>1. \/ S = {} \/ S = {"gz"} \/ S = {"br"} \/ S = {"gz", "br"}
  BY DEF Formats
<1>2. 1..2 = {1, 2} /\ 1..1 = {1}
  OBVIOUS
<1>3. ASSUME NEW f, NEW g
      PROVE  /\ <<f>> \o <<>> = <<f>> /\ <<>> \o <<f>> = <<f>> /\ <<>> \o <<>> = <<>>
             /\ <<f>> \o <<g>> = <<f, g>>
             /\ Elements(<<>>) = {} /\ Elements(<<f>>) = {f} /\ Elements(<<f, g>>) = {f, g}
  <2>0. <<f>> \in Seq({f, g}) /\ <<g>> \in Seq({f, g}) /\ <<f, g>> \in Seq({f, g})
    OBVIOUS
  <2>1. <<f>> \o <<>> = <<f>> /\ <<>> \o <<f>> = <<f>> /\ <<>> \o <<>> = <<>>
    BY <2>0, ConcatEmptySeq
  <2>3. <<f>> \o <<g>> = <<f, g>>
    <3>1. /\ <<f>> \o <<g>> \in Seq({f, g}) /\ Len(<<f>> \o <<g>>) = 2
          /\ \A i \in 1..2 : (<<f>> \o <<g>>)[i] = <<f, g>>[i]
      BY <1>2, <2>0, ConcatProperties
    <3> QED
      BY <2>0, <3>1, SeqEqual
  <2>2. Len(<<>>) = 0 /\ Len(<<f>>) = 1 /\ Len(<<f, g>>) = 2 /\ <<f>>[1] = f
        /\ <<f, g>>[1] = f /\ <<f, g>>[2] = g
    OBVIOUS
  <2> QED
    BY <1>2, <2>1, <2>2, <2>3 DEF Elements
<1>4. "gz" # "br"
  OBVIOUS
<1>5. CASE S = {}
  BY <1>3, <1>5 DEF BrFirst, GzFirst, Only, OrderSet
<1>6. CASE S = {"gz"}
  BY <1>3, <1>4, <1>6 DEF BrFirst, GzFirst, Only, OrderSet
<1>7. CASE S = {"br"}
  BY <1>3, <1>4, <1>7 DEF BrFirst, GzFirst, Only, OrderSet
<1>8. CASE S = {"gz", "br"}
  <2>1. /\ Only("gz", S) = <<"gz">> /\ Only("br", S) = <<"br">>
        /\ {"br", "gz"} = {"gz", "br"}
    BY <1>8 DEF Only
  <2>2. BrFirst(S) = <<"br", "gz">> /\ GzFirst(S) = <<"gz", "br">>
    BY <1>3, <2>1 DEF BrFirst, GzFirst
  <2>3. Elements(<<"br", "gz">>) = {"br", "gz"} /\ Elements(<<"gz", "br">>) = {"gz", "br"}
    BY <1>3
  <2>4. <<"br", "gz">> \in OrderSet /\ <<"gz", "br">> \in OrderSet
    BY DEF OrderSet
  <2> QED
    BY <1>8, <2>1, <2>2, <2>3, <2>4
<1> QED
  BY <1>1, <1>5, <1>6, <1>7, <1>8
-----------------------------------------------------------------------------
(* The invariant.  Several tasks may handle the file if no version of it is *)
(* streamed; a streamed file is handled by a single worker.                 *)

OneShotOnly == \A v \in 1..MaxVersions : ~Streamed(v)
Sole == \A v, w \in Workers : v = w

Starting == {"unlink", "create", "chunk1", "chunk2"}
Publishing == {"flush", "publish", "scheck"}
Streaming == Starting \cup Publishing
CommittedPCs == {"write", "fill", "rename", "meta", "smeta"}
FormatOf(w) == Head(todo[w])
Left(w) == Elements(todo[w])

\* A version's mtime is its own time, unless it is an older file.
History == /\ src \in {0, Now}
           /\ \A n \in 1..Now : /\ Ino(n) \in 1..n /\ Mtime(n) \in {0, n}
                                /\ Mtime(n) = 0 => Ino(n) = n

\* What a worker knows of the original, by where it is.
Knows(w) ==
    /\ todo[w] \in OrderSet
    /\ pc[w] \in {"idle", "decide", "open"} => ok[w] = {}
    /\ pc[w] \in {"read", "check"} \cup Streaming => snap[w] \in 1..Now
    /\ pc[w] \in Streaming => Streamed(snap[w])
    /\ pc[w] \in Streaming \cup {"smeta"} => Sole
    /\ pc[w] = "scheck" => Left(w) = {}
    /\ pc[w] \in {"check", "chunk2"} \cup Publishing =>
         content[w] # {} /\ content[w] \subseteq snap[w]..Now
    /\ pc[w] \in CommittedPCs =>
         \E m \in 1..Now : content[w] = {m} /\ (~late => m = src /\ ~BelowMin(m))

\* The temporary files a worker is at work on.
Mine(w, f) == tmp[f] # None /\ tmp[f].owner = w
Written(w, f) == /\ tmp[f] # None /\ tmp[f].owner = None /\ tmp[f].complete
                 /\ tmp[f].content = content[w] /\ tmp[f].mtime <= Now
Holds(w) ==
    /\ pc[w] = "fill" => Mine(w, FormatOf(w))
    /\ pc[w] \in {"rename", "publish"} => Written(w, FormatOf(w))
    /\ pc[w] = "create" => tmp[FormatOf(w)] = None
    /\ pc[w] \in {"unlink", "create"} => ok[w] \cap Left(w) = {}
    /\ pc[w] \in Starting => \A f \in ok[w] : Mine(w, f)
    /\ pc[w] = "flush" => \A f \in Left(w) : Mine(w, f)
    /\ pc[w] = "publish" => \A f \in Left(w) \ {FormatOf(w)} : Mine(w, f)

\* The published copies: whole, always; of one version that calls for them and
\* not younger than it, unless their worker has still to check them.
Whole == \A f \in Formats : out[f] # None =>
            out[f].complete /\ out[f].owner = None /\ out[f].content \subseteq 1..Now
Doubts(w, f) == \/ pc[w] \in Publishing /\ snap[w] # src
                \/ pc[w] = "remove" /\ f \in Left(w)
Sound(f) == out[f] # None =>
    \E m \in 1..Now : out[f].content = {m} /\ (~late => out[f].mtime <= m /\ ~BelowMin(m))
Checked == ~cut /\ ~kept => \A f \in Formats : Sound(f) \/ (Sole /\ \E w \in Workers : Doubts(w, f))

\* The copies a worker has just published, or is about to replace.
Current(f) == out[f] # None /\ out[f].content = {src}
NotPast(w, f) == out[f] # None => out[f].content \subseteq 1..snap[w]
Published(w) ==
    /\ pc[w] \in Publishing /\ snap[w] = src => \A f \in ok[w] \ Left(w) : Current(f)
    /\ pc[w] = "meta" /\ ~late => out[FormatOf(w)] = None \/ Current(FormatOf(w))
    /\ pc[w] = "smeta" /\ ~late => \A f \in Left(w) : out[f] = None \/ Current(f)
    /\ pc[w] \in Starting => \A f \in Formats : NotPast(w, f)
    /\ pc[w] \in {"flush", "publish"} => \A f \in Left(w) : NotPast(w, f)

Crashes == /\ crashes = 0 => up /\ ~cut
           /\ ~up => \A w \in Workers : pc[w] = "idle"

\* A temporary file belongs to a task in flight.
Owns(w, f) == \/ pc[w] \in {"fill", "rename"} /\ FormatOf(w) = f
              \/ pc[w] \in Starting /\ f \in ok[w]
              \/ pc[w] \in {"flush", "publish"} /\ f \in Left(w)
Undisturbed == crashes = 0 /\ (OneShotOnly \/ (errors = 0 /\ "fd" \notin lost))
TmpOwned == Undisturbed => \A f \in Formats : tmp[f] # None => \E w \in Workers : Owns(w, f)

\* If the copies are not what the original calls for, somebody is on the way.
Calm == /\ ~late /\ ~kept /\ errors = 0 /\ crashes = 0 /\ "fd" \notin lost
        /\ src # 0 => Mtime(src) # 0
OnCourse(w) == \/ pc[w] \in {"decide", "open"}
               \/ pc[w] \in {"read", "check"} /\ snap[w] = src
Makes(w, f) == \/ pc[w] \in {"write", "fill", "rename"} /\ f \in Left(w)
               \/ pc[w] = "meta" /\ f \in Left(w) \ {FormatOf(w)}
               \/ pc[w] \in {"unlink", "create"} /\ snap[w] = src /\ f \in ok[w] \cup Left(w)
               \/ pc[w] \in {"chunk1", "chunk2"} /\ snap[w] = src /\ f \in ok[w]
               \/ pc[w] \in {"flush", "publish"} /\ snap[w] = src /\ f \in Left(w)
Coming(f) == "compress" \in pending \/ \E w \in Workers : OnCourse(w) \/ Makes(w, f)
Going(f) == \/ \E w \in Workers : Doubts(w, f)
            \/ src = 0 /\ "delete" \in pending
            \/ src # 0 /\ ("compress" \in pending \/ \E w \in Workers : OnCourse(w))
Idle == src = 0 \/ BelowMin(src)
Progress == Calm => /\ Idle => \A f \in Formats : out[f] = None \/ Going(f)
                    /\ ~Idle => \A f \in Enabled : CopyOf(f, src) \/ Coming(f)

SInv == /\ History
        /\ \A w \in Workers : Knows(w) /\ Holds(w) /\ Published(w)
        /\ OneWriter /\ Whole /\ Checked /\ Crashes /\ TmpOwned /\ Progress

-----------------------------------------------------------------------------
(* Versions *)

LEMMA SameVersion ==
  ASSUME TInv, History, NEW v \in 1..Now, Unchanged(v)
  PROVE  v = src /\ src \in 1..Now
<1>1. src # 0 /\ Mtime(src) = Mtime(v) /\ Ino(src) = Ino(v) /\ src \in 1..Now /\ Now \in Nat
  BY DEF Unchanged, TInv, HistTypes, Now, History
<1>2. /\ Mtime(src) \in {0, src} /\ Mtime(v) \in {0, v}
      /\ Mtime(src) = 0 => Ino(src) = src
      /\ Mtime(v) = 0 => Ino(v) = v
  BY <1>1 DEF History
<1> HIDE DEF Now, Mtime, Ino, Unchanged
<1> QED
  BY <1>1, <1>2

LEMMA LastContents ==
  ASSUME TInv, NEW v \in 1..Now
  PROVE  Contents(v) \in v..Now /\ Ino(Contents(v)) = Ino(v)
<1>1. HistTypes /\ Now = Len(hist) /\ Now \in Nat
  BY DEF TInv, HistTypes, Now
<1> QED
  BY <1>1, ContentsType
-----------------------------------------------------------------------------
(* The steps of a worker, worker by worker *)

Stays(v) == /\ pc'[v] = pc[v] /\ snap'[v] = snap[v] /\ content'[v] = content[v]
            /\ todo'[v] = todo[v] /\ ok'[v] = ok[v]
Moves(w, p, s, c, t, o) == /\ pc'[w] = p /\ snap'[w] = s /\ content'[w] = c
                           /\ todo'[w] = t /\ ok'[w] = o
                           /\ \A v \in Workers \ {w} : Stays(v)
\* What no worker changes, or takes back.
World == UNCHANGED <<hist, src, up, late, cut, crashes>> /\ (kept => kept')

LEMMA GotoMoves ==
  ASSUME TInv, NEW w \in Workers, NEW p, Goto(w, p), UNCHANGED <<snap, content, todo, ok>>
  PROVE  Moves(w, p, snap[w], content[w], todo[w], ok[w])
BY DEF TInv, LocalTypes, Goto, Moves, Stays

LEMMA PhaseMoves ==
  ASSUME TInv, NEW w \in Workers, NEW p, NEW t, Phase(w, p, t)
  PROVE  Moves(w, p, snap[w], content[w], t, ok[w])
BY DEF TInv, LocalTypes, Phase, Goto, Moves, Stays

LEMMA ReturnMoves ==
  ASSUME TInv, NEW w \in Workers, Return(w)
  PROVE  Moves(w, "idle", 0, {}, <<>>, {})
BY DEF TInv, LocalTypes, Return, Goto, Moves, Stays

LEMMA RemoveMoves ==
  ASSUME TInv, NEW w \in Workers, RemoveCopies(w)
  PROVE  Moves(w, "remove", snap[w], content[w], GzFirst(Formats), ok[w])
BY PhaseMoves DEF RemoveCopies

\* What stays known of the workers that do not move.
LEMMA OthersKnow ==
  ASSUME World, NEW v \in Workers, Stays(v), Knows(v)
  PROVE  Knows(v)'
BY DEF World, Stays, Knows, Left, Elements, Now, BelowMin, Streamed, Sole, Starting, Publishing, Streaming,
       CommittedPCs

LEMMA OthersDoubt ==
  ASSUME World, NEW v \in Workers, Stays(v), NEW f
  PROVE  /\ Doubts(v, f)' <=> Doubts(v, f)
         /\ Owns(v, f)' <=> Owns(v, f)
         /\ OnCourse(v)' <=> OnCourse(v)
         /\ Makes(v, f)' <=> Makes(v, f)
BY DEF World, Stays, Doubts, Owns, OnCourse, Makes, Left, FormatOf, Elements, Starting, Publishing

\* A temporary file is taken from nobody but the worker that moves.
LEMMA OthersHold ==
  ASSUME TInv, NEW w \in Workers, NEW v \in Workers \ {w}, World, Stays(v), Knows(v), Holds(v),
         NEW f \in Formats, \A g \in Formats \ {f} : tmp'[g] = tmp[g],
         pc[v] \in {"fill", "rename"} => FormatOf(v) # f
  PROVE  Holds(v)'
<1>1. pc[v] \notin Streaming
  BY DEF Knows, Sole
<1>2. pc[v] \in {"fill", "rename"} => FormatOf(v) \in Formats /\ tmp'[FormatOf(v)] = tmp[FormatOf(v)]
  <2>1. pc[v] \in {"fill", "rename"} => todo[v] # <<>>
    BY DEF TInv, AtHand, HasTodo
  <2>2. todo[v] # <<>> => FormatOf(v) \in Formats
    BY OrderFacts DEF Knows, FormatOf
  <2> QED
    BY <2>1, <2>2
<1>3. pc'[v] = pc[v] /\ pc[v] \notin Starting /\ pc[v] \notin Publishing
  BY <1>1 DEF Stays, Streaming
<1>4. FormatOf(v)' = FormatOf(v) /\ Now' = Now /\ content'[v] = content[v]
  BY DEF FormatOf, Stays, World, Now
<1>5. pc[v] = "fill" => Mine(v, FormatOf(v))'
  BY <1>2, <1>4 DEF Holds, Mine
<1>6. pc[v] = "rename" => Written(v, FormatOf(v))'
  BY <1>2, <1>4 DEF Holds, Written
<1> QED
  BY <1>3, <1>5, <1>6 DEF Holds, Starting, Publishing

\* A copy is taken away, or replaced by a current one, or gets a new mtime.
Harmless(f) == \/ late
               \/ out'[f] = None
               \/ out'[f] # None /\ out'[f].content = {src}
               \/ out'[f] # None /\ out[f] # None /\ out'[f].content = out[f].content

LEMMA OthersPublished ==
  ASSUME TInv, NEW w \in Workers, NEW v \in Workers \ {w}, World, Stays(v), Knows(v), Published(v),
         \A f \in Formats : Harmless(f)
  PROVE  Published(v)'
<1>1. pc'[v] = pc[v] /\ pc[v] \notin Publishing /\ pc[v] \notin Starting /\ pc[v] # "smeta"
  BY DEF Knows, Sole, Streaming, Stays
<1>2. pc[v] = "meta" => FormatOf(v) \in Formats
  <2>1. pc[v] = "meta" => todo[v] # <<>>
    BY DEF TInv, AtHand, HasTodo
  <2> QED
    BY <2>1, OrderFacts DEF Knows, FormatOf
<1>3. FormatOf(v)' = FormatOf(v) /\ late' = late /\ src' = src
  BY DEF FormatOf, Stays, World
<1>4. pc[v] = "meta" /\ ~late => out'[FormatOf(v)] = None \/ Current(FormatOf(v))'
  BY <1>2, <1>3 DEF Published, Harmless, Current
<1>5. pc[v] \notin {"flush", "publish"}
  BY <1>1 DEF Publishing
<1> QED
  BY <1>1, <1>3, <1>4, <1>5 DEF Published

\* Progress, when the worker that moves is not the one it was about, or goes
\* on with it, or is done.
StillGoing(w, f) ==
    \/ out'[f] = None
    \/ Doubts(w, f)'
    \/ /\ out[f] # None
       /\ ~Doubts(w, f)
       /\ src # 0 /\ OnCourse(w) => OnCourse(w)'
StillComing(w, f) ==
    \/ CopyOf(f, src)'
    \/ OnCourse(w)' \/ Makes(w, f)'
    \/ "compress" \in pending'
    \/ \E v \in Workers \ {w} : Makes(v, f)
    \/ (CopyOf(f, src) => CopyOf(f, src)') /\ ~OnCourse(w) /\ ~Makes(w, f)

LEMMA ProgressStep ==
  ASSUME TInv, Progress, World, NEW w \in Workers, \A v \in Workers \ {w} : Stays(v),
         Calm' => errors = 0 /\ "fd" \notin lost,
         "compress" \in pending \ pending' => OnCourse(w)',
         "delete" \in pending \ pending' => \A f \in Formats : Doubts(w, f)',
         Calm' /\ Idle => \A f \in Formats : StillGoing(w, f),
         Calm' /\ ~Idle => \A f \in Enabled : StillComing(w, f)
  PROVE  Progress'
<1> SUFFICES ASSUME Calm' PROVE /\ Idle' => \A f \in Formats : out'[f] = None \/ Going(f)'
                                /\ ~Idle' => \A f \in Enabled : CopyOf(f, src)' \/ Coming(f)'
  BY DEF Progress
<1>1. Calm /\ (Idle' <=> Idle) /\ src' = src
  BY DEF Calm, World, Idle, BelowMin, Mtime
<1>2. ASSUME Idle, NEW f \in Formats PROVE out'[f] = None \/ Going(f)'
  <2>1. StillGoing(w, f)
    BY <1>2
  <2>2. CASE out'[f] = None \/ Doubts(w, f)'
    BY <2>2 DEF Going
  <2>3. CASE out[f] # None /\ ~Doubts(w, f) /\ (src # 0 /\ OnCourse(w) => OnCourse(w)')
    <3>1. Going(f)
      BY <1>1, <1>2, <2>3 DEF Progress
    <3>2. CASE \E v \in Workers : Doubts(v, f)
      <4>1. PICK v \in Workers : Doubts(v, f)
        BY <3>2
      <4>2. v # w
        BY <2>3, <4>1
      <4> QED
        BY <4>1, <4>2, OthersDoubt DEF Going
    <3>3. CASE src = 0 /\ "delete" \in pending
      BY <1>1, <3>3 DEF Going
    <3>4. CASE src # 0 /\ "compress" \in pending
      BY <1>1, <3>4 DEF Going
    <3>5. CASE src # 0 /\ \E v \in Workers : OnCourse(v)
      <4>1. PICK v \in Workers : OnCourse(v)
        BY <3>5
      <4>2. OnCourse(v)'
        BY <2>3, <3>5, <4>1, OthersDoubt
      <4> QED
        BY <1>1, <3>5, <4>2 DEF Going
    <3> QED
      BY <3>1, <3>2, <3>3, <3>4, <3>5 DEF Going
  <2> QED
    BY <2>1, <2>2, <2>3 DEF StillGoing
<1>3. ASSUME ~Idle, NEW f \in Enabled PROVE CopyOf(f, src)' \/ Coming(f)'
  <2>1. StillComing(w, f)
    BY <1>3
  <2>2. ASSUME NEW v \in Workers \ {w}, OnCourse(v) \/ Makes(v, f) PROVE Coming(f)'
    BY <2>2, OthersDoubt DEF Coming
  <2>3. CASE OnCourse(w)' \/ Makes(w, f)' \/ "compress" \in pending'
    BY <2>3 DEF Coming
  <2>4. CASE (CopyOf(f, src) => CopyOf(f, src)') /\ ~OnCourse(w) /\ ~Makes(w, f)
    <3>1. CopyOf(f, src) \/ Coming(f)
      BY <1>1, <1>3 DEF Progress
    <3>2. "compress" \in pending => Coming(f)'
      BY DEF Coming
    <3> QED
      BY <2>2, <2>4, <3>1, <3>2 DEF Coming
  <2> QED
    BY <2>1, <2>2, <2>3, <2>4 DEF StillComing
<1> QED
  BY <1>1, <1>2, <1>3

StillChecked(w, f) ==
    \/ Sound(f)'
    \/ Sole /\ Doubts(w, f)'
    \/ out'[f] = out[f] /\ (Doubts(w, f) => Doubts(w, f)')
StillOwned(w, f) == \/ tmp'[f] = None
                    \/ Owns(w, f)'
                    \/ tmp[f] # None /\ ~Owns(w, f)

LEMMA CheckedStep ==
  ASSUME Checked, World, NEW w \in Workers, \A v \in Workers \ {w} : Stays(v),
         ~cut /\ ~kept' => \A f \in Formats : StillChecked(w, f)
  PROVE  Checked'
<1> SUFFICES ASSUME ~cut, ~kept', NEW f \in Formats, ~Sound(f)'
             PROVE  Sole /\ \E v \in Workers : Doubts(v, f)'
  BY DEF Checked, World, Sole
<1>1. CASE Sole /\ Doubts(w, f)'
  BY <1>1
<1>2. CASE out'[f] = out[f] /\ (Doubts(w, f) => Doubts(w, f)')
  <2>1. ~Sound(f)
    BY <1>2 DEF Sound, World, Now, BelowMin
  <2>2. Sole /\ \E v \in Workers : Doubts(v, f)
    BY <2>1 DEF Checked, World
  <2> QED
    BY <1>2, <2>2, OthersDoubt
<1> QED
  BY <1>1, <1>2 DEF StillChecked

LEMMA TmpOwnedStep ==
  ASSUME TmpOwned, World, NEW w \in Workers, \A v \in Workers \ {w} : Stays(v),
         Undisturbed' => Undisturbed,
         Undisturbed' => \A f \in Formats : StillOwned(w, f)
  PROVE  TmpOwned'
<1> SUFFICES ASSUME Undisturbed', NEW f \in Formats, tmp'[f] # None
             PROVE  \E v \in Workers : Owns(v, f)'
  BY DEF TmpOwned
<1>1. CASE Owns(w, f)'
  BY <1>1
<1>2. CASE tmp[f] # None /\ ~Owns(w, f)
  <2>1. PICK v \in Workers : Owns(v, f)
    BY <1>2 DEF TmpOwned
  <2>2. v # w
    BY <1>2, <2>1
  <2> QED
    BY <2>1, <2>2, OthersDoubt
<1> QED
  BY <1>1, <1>2 DEF StillOwned

\* What is left to show of a step of worker w: what it does to w and to the
\* one format f it may be at.
LEMMA WorkerStep ==
  ASSUME TInv, SInv, World, NEW w \in Workers, \A v \in Workers \ {w} : Stays(v),
         Knows(w)', Holds(w)', Published(w)', OneWriter', Whole',
         \A v \in Workers : pc'[v] # "idle" => up,
         NEW f \in Formats, \A g \in Formats \ {f} : tmp'[g] = tmp[g],
         \/ tmp' = tmp
         \/ \A v \in Workers \ {w} : pc[v] \in {"fill", "rename"} => FormatOf(v) # f,
         \A g \in Formats : Harmless(g),
         ~cut /\ ~kept' => \A g \in Formats : StillChecked(w, g),
         errors \in Nat, errors' \in Nat, errors <= errors', lost \subseteq lost',
         Undisturbed' => \A g \in Formats : StillOwned(w, g),
         "compress" \in pending \ pending' => OnCourse(w)',
         "delete" \in pending \ pending' => \A g \in Formats : Doubts(w, g)',
         Calm' /\ Idle => \A g \in Formats : StillGoing(w, g),
         Calm' /\ ~Idle => \A g \in Enabled : StillComing(w, g)
  PROVE  SInv'
<1> USE DEF SInv
<1>1. History'
  BY DEF History, World, Now, Ino, Mtime
<1>2. ASSUME NEW v \in Workers PROVE Knows(v)' /\ Published(v)'
  <2>1. CASE v # w
    BY <2>1, OthersKnow, OthersPublished
  <2> QED
    BY <2>1
<1>3. ASSUME NEW v \in Workers PROVE Holds(v)'
  <2>1. CASE v # w /\ tmp' = tmp
    BY <2>1 DEF Holds, Stays, Mine, Written, FormatOf, Left, Elements, World, Now, Starting, Publishing
  <2>2. CASE v # w /\ tmp' # tmp
    BY <2>2, OthersHold
  <2> QED
    BY <2>1, <2>2
<1>4. Checked'
  BY CheckedStep
<1>5. errors' = 0 => errors = 0
  OBVIOUS
<1>6. TmpOwned'
  <2>1. Undisturbed' => Undisturbed
    BY <1>5 DEF Undisturbed, World, OneShotOnly, Streamed
  <2> QED
    BY <2>1, TmpOwnedStep
<1>7. Calm' => errors = 0 /\ "fd" \notin lost
  BY <1>5 DEF Calm
<1>8. Progress'
  BY <1>7, ProgressStep
<1>9. Crashes'
  BY DEF Crashes, World
<1> QED
  BY <1>1, <1>2, <1>3, <1>4, <1>6, <1>8, <1>9

\* A step that touches no file.
LEMMA QuietStep ==
  ASSUME TInv, SInv, World, UNCHANGED <<out, tmp>>, errors' \in {errors, errors + 1},
         lost \subseteq lost', up, NEW w \in Workers, NEW p, NEW s, NEW c, NEW t, NEW o, Moves(w, p, s, c, t, o),
         p \notin {"fill", "rename"},
         Knows(w)', Holds(w)', Published(w)',
         \A f \in Formats : /\ Doubts(w, f) => Doubts(w, f)'
                            /\ Undisturbed' /\ Owns(w, f) => Owns(w, f)',
         "compress" \in pending \ pending' => OnCourse(w)',
         "delete" \in pending \ pending' => \A f \in Formats : Doubts(w, f)',
         Calm' /\ Idle => \A f \in Formats : StillGoing(w, f),
         Calm' /\ ~Idle => \A f \in Enabled : StillComing(w, f)
  PROVE  SInv'
<1>1. \A v \in Workers \ {w} : Stays(v)
  BY DEF Moves
<1>2. OneWriter'
  BY DEF SInv, OneWriter, Moves, Stays
<1>3. Whole'
  BY DEF SInv, Whole, World, Now
<1>4. \A g \in Formats : Harmless(g)
  BY DEF Harmless
<1>5. \A g \in Formats : StillChecked(w, g)
  BY DEF StillChecked
<1>6. Undisturbed' => \A g \in Formats : StillOwned(w, g)
  BY DEF StillOwned
<1>7. "gz" \in Formats /\ errors \in Nat /\ errors' \in Nat /\ errors <= errors'
  BY CompressAssumption DEF Formats, TInv, FlagTypes
<1> QED
  BY <1>1, <1>2, <1>3, <1>4, <1>5, <1>6, <1>7, WorkerStep
-----------------------------------------------------------------------------
(* Steps that touch no file *)

LEMMA AtRest ==
  ASSUME NEW w \in Workers, Moves(w, "idle", 0, {}, <<>>, {})
  PROVE  Knows(w)' /\ Holds(w)' /\ Published(w)'
<1>1. Knows(w)'
  BY DEF Moves, Knows, OrderSet, Starting, Publishing, Streaming, CommittedPCs
<1>2. Holds(w)' /\ Published(w)'
  BY DEF Moves, Holds, Published, Starting, Publishing
<1> QED
  BY <1>1, <1>2

LEMMA AtRemove ==
  ASSUME NEW w \in Workers, NEW s, NEW c, NEW o, NEW t \in OrderSet, Moves(w, "remove", s, c, t, o)
  PROVE  Knows(w)' /\ Holds(w)' /\ Published(w)'
<1>1. Knows(w)'
  BY DEF Moves, Knows, Starting, Publishing, Streaming, CommittedPCs
<1>2. Holds(w)' /\ Published(w)'
  BY DEF Moves, Holds, Published, Starting, Publishing
<1> QED
  BY <1>1, <1>2

LEMMA ToRemove ==
  ASSUME TInv, NEW w \in Workers, RemoveCopies(w)
  PROVE  /\ Moves(w, "remove", snap[w], content[w], GzFirst(Formats), ok[w])
         /\ Knows(w)' /\ Holds(w)' /\ Published(w)'
         /\ \A f \in Formats : Doubts(w, f)'
<1>1. GzFirst(Formats) \in OrderSet /\ Elements(GzFirst(Formats)) = Formats
  BY OrderOf
<1>2. Moves(w, "remove", snap[w], content[w], GzFirst(Formats), ok[w])
  BY RemoveMoves
<1>3. pc'[w] = "remove" /\ Left(w)' = Formats
  BY <1>1, <1>2 DEF Moves, Left, Elements
<1> QED
  BY <1>1, <1>2, <1>3, AtRemove DEF Doubts

\* A step to safe_remove_compressed.
LEMMA RemoveStep ==
  ASSUME TInv, SInv, World, UNCHANGED <<out, tmp>>, errors' \in {errors, errors + 1},
         lost \subseteq lost', up, NEW w \in Workers, RemoveCopies(w),
         "compress" \in pending => "compress" \in pending',
         \A f \in Formats : Undisturbed' => ~Owns(w, f),
         Calm' /\ ~Idle => ~OnCourse(w) /\ \A f \in Formats : ~Makes(w, f)
  PROVE  SInv'
<1>1. /\ Moves(w, "remove", snap[w], content[w], GzFirst(Formats), ok[w])
      /\ Knows(w)' /\ Holds(w)' /\ Published(w)'
      /\ \A f \in Formats : Doubts(w, f)'
  BY ToRemove
<1>2. \A f \in Formats : StillGoing(w, f)
  BY <1>1 DEF StillGoing
<1>3. Calm' /\ ~Idle => \A f \in Enabled : StillComing(w, f)
  BY CompressAssumption DEF StillComing, CopyOf, World
<1> QED
  BY <1>1, <1>2, <1>3, QuietStep

\* A step after which the task has returned.
LEMMA ReturnStep ==
  ASSUME TInv, SInv, World, UNCHANGED <<out, tmp, errors, pending, lost>>, up,
         NEW w \in Workers, Return(w),
         \A f \in Formats : ~Doubts(w, f) /\ (Undisturbed => ~Owns(w, f)),
         Calm /\ Idle => (src # 0 => ~OnCourse(w)) \/ \A f \in Formats : out[f] = None,
         Calm /\ ~Idle => \A f \in Enabled : CopyOf(f, src) \/ (~OnCourse(w) /\ ~Makes(w, f))
  PROVE  SInv'
<1>1. Moves(w, "idle", 0, {}, <<>>, {})
  BY ReturnMoves
<1>2. Knows(w)' /\ Holds(w)' /\ Published(w)'
  BY <1>1, AtRest
<1>3. Calm' => Calm
  BY DEF Calm, World, Mtime
<1>4. Calm' /\ Idle => \A f \in Formats : StillGoing(w, f)
  BY <1>3 DEF StillGoing
<1>5. Calm' /\ ~Idle => \A f \in Enabled : StillComing(w, f)
  <2>1. \A f : CopyOf(f, src)' <=> CopyOf(f, src)
    BY DEF CopyOf, World
  <2> QED
    BY <1>3, <2>1 DEF StillComing
<1>6. Undisturbed' <=> Undisturbed
  BY DEF Undisturbed, World, OneShotOnly, Streamed
<1> QED
  BY <1>1, <1>2, <1>4, <1>5, <1>6, QuietStep

LEMMA BeginCompressStep ==
  ASSUME TInv, SInv, NEW w \in Workers, BeginCompress(w)
  PROVE  SInv'
<1>1. /\ World /\ UNCHANGED <<out, tmp, errors, lost>> /\ up /\ pc[w] = "idle"
      /\ pending \ pending' \subseteq {"compress"}
  BY DEF BeginCompress, World, At, files, trail, bounds
<1>2. Moves(w, "decide", snap[w], content[w], todo[w], ok[w])
  BY GotoMoves DEF BeginCompress
<1>3. Knows(w)'
  BY <1>1, <1>2 DEF SInv, Moves, Knows, Starting, Publishing, Streaming, CommittedPCs
<1>4. Holds(w)' /\ Published(w)'
  BY <1>2 DEF Moves, Holds, Published, Starting, Publishing
<1>5. OnCourse(w)'
  BY <1>2 DEF Moves, OnCourse
<1>6. \A f \in Formats : ~Doubts(w, f) /\ ~Owns(w, f)
  BY <1>1 DEF Doubts, Owns, Publishing, Starting
<1>7. \A f \in Formats : StillGoing(w, f) /\ StillComing(w, f)
  BY <1>1, <1>5, <1>6 DEF StillGoing, StillComing
<1> QED
  BY <1>1, <1>2, <1>3, <1>4, <1>5, <1>6, <1>7, QuietStep, CompressAssumption

LEMMA BeginDeleteStep ==
  ASSUME TInv, SInv, NEW w \in Workers, BeginDelete(w)
  PROVE  SInv'
<1>1. /\ World /\ UNCHANGED <<out, tmp, errors, lost>> /\ up /\ pc[w] = "idle"
      /\ "compress" \in pending => "compress" \in pending'
      /\ RemoveCopies(w)
  BY DEF BeginDelete, World, At, files, trail, bounds
<1>2. ~OnCourse(w) /\ \A f \in Formats : ~Owns(w, f) /\ ~Makes(w, f)
  BY <1>1 DEF OnCourse, Owns, Makes, Starting
<1> QED
  BY <1>1, <1>2, RemoveStep

\* What should_compress would skip has copies of the current version.
LEMMA UpToDateCopies ==
  ASSUME TInv, SInv, src # 0, Mtime(src) # 0, ~late, ~cut, ~kept,
         ~ShouldCompress, Sole => \A w \in Workers, f \in Formats : ~Doubts(w, f)
  PROVE  \A f \in Formats : CopyOf(f, src) /\ ~BelowMin(src)
<1> SUFFICES ASSUME NEW f \in Formats PROVE CopyOf(f, src) /\ ~BelowMin(src)
  OBVIOUS
<1>1. Sound(f) /\ Whole
  BY DEF SInv, Checked
<1>2. out[f] # None /\ out[f].mtime >= Mtime(src)
  BY DEF ShouldCompress, UpToDate
<1>3. src = Now /\ Mtime(src) = src /\ Now \in Nat
  <2>1. src = Now /\ Now \in 1..Now /\ Now \in Nat
    BY DEF SInv, History, TInv, HistTypes, Now
  <2> QED
    BY <2>1 DEF SInv, History
<1>4. out[f] \in File
  BY <1>2 DEF TInv, FileTypes
<1>5. PICK m \in 1..Now : out[f].content = {m} /\ out[f].mtime <= m /\ ~BelowMin(m)
  BY <1>1, <1>2 DEF Sound
<1>6. out[f].mtime \in 0..MaxVersions
  BY <1>4 DEF File
<1>7. m = src
  BY <1>2, <1>3, <1>5, <1>6, CompressAssumption
<1> QED
  BY <1>1, <1>2, <1>5, <1>7 DEF CopyOf, Whole

LEMMA DecideStep ==
  ASSUME TInv, SInv, NEW w \in Workers, Decide(w)
  PROVE  SInv'
<1>1. /\ World /\ UNCHANGED <<out, tmp, errors, lost, pending>> /\ up /\ pc[w] = "decide"
  BY DEF Decide, World, At, files, trail, bounds
<1>2. \A f \in Formats : ~Doubts(w, f) /\ ~Owns(w, f) /\ ~Makes(w, f)
  BY <1>1 DEF Doubts, Owns, Makes, Publishing, Starting
<1>3. CASE ~ShouldCompress /\ Return(w)
  <2>1. Calm /\ src # 0 => \A f \in Formats : CopyOf(f, src) /\ ~BelowMin(src)
    <3>1. Sole => \A v \in Workers, f \in Formats : ~Doubts(v, f)
      BY <1>2 DEF Sole
    <3> QED
      BY <1>3, <3>1, UpToDateCopies DEF Calm, SInv, Crashes
  <2>2. Calm /\ Idle => src = 0
    <3>1. "gz" \in Formats
      BY DEF Formats
    <3> QED
      BY <2>1, <3>1 DEF Idle
  <2>3. Calm /\ ~Idle => \A f \in Enabled : CopyOf(f, src)
    BY <2>1, CompressAssumption DEF Idle
  <2> QED
    BY <1>1, <1>2, <1>3, <2>2, <2>3, ReturnStep
<1>4. CASE ShouldCompress /\ SizeOf[src] = 1 /\ RemoveCopies(w)
  <2>1. Idle
    BY <1>4 DEF Idle, BelowMin
  <2> QED
    BY <1>1, <1>2, <1>4, <2>1, RemoveStep
<1>5. CASE ShouldCompress /\ SizeOf[src] # 1 /\ Phase(w, "open", <<>>)
  <2>1. Moves(w, "open", snap[w], content[w], <<>>, ok[w])
    BY <1>5, PhaseMoves
  <2>2. Knows(w)'
    BY <1>1, <2>1 DEF SInv, Moves, Knows, OrderSet, Starting, Publishing, Streaming, CommittedPCs
  <2>3. Holds(w)' /\ Published(w)'
    BY <2>1 DEF Moves, Holds, Published, Starting, Publishing
  <2>4. OnCourse(w)'
    BY <2>1 DEF Moves, OnCourse
  <2>5. \A f \in Formats : StillGoing(w, f) /\ StillComing(w, f)
    BY <1>1, <1>2, <2>4 DEF StillGoing, StillComing
  <2> QED
    BY <1>1, <1>2, <2>1, <2>2, <2>3, <2>5, QuietStep, CompressAssumption
<1> QED
  BY <1>3, <1>4, <1>5 DEF Decide

LEMMA OpenStep ==
  ASSUME TInv, SInv, OneShotOnly \/ Sole, NEW w \in Workers, Open(w)
  PROVE  SInv'
<1>1. /\ World /\ UNCHANGED <<out, tmp, errors, lost, pending>> /\ up /\ pc[w] = "open"
      /\ ok[w] = {}
  BY DEF SInv, Knows, Open, World, At, files, trail, bounds
<1>2. \A f \in Formats : ~Doubts(w, f) /\ ~Owns(w, f) /\ ~Makes(w, f)
  BY <1>1 DEF Doubts, Owns, Makes, Publishing, Starting
<1>3. CASE src = 0
  <2>1. Return(w)
    BY <1>3 DEF Open
  <2>2. Idle
    BY <1>3 DEF Idle
  <2> QED
    BY <1>1, <1>2, <1>3, <2>1, <2>2, ReturnStep
<1>4. CASE src # 0 /\ Streamed(src)
  <2>1. Moves(w, "unlink", src, content[w], BrFirst(Enabled), ok[w])
    BY <1>1, <1>4 DEF Open, Goto, Moves, Stays, TInv, LocalTypes
  <2>2. src \in 1..Now /\ src = Now /\ src \in 1..MaxVersions
    BY <1>4, CompressAssumption DEF SInv, History, TInv, HistTypes, Now
  <2>3. Sole
    BY <1>4, <2>2 DEF OneShotOnly
  <2>4. BrFirst(Enabled) \in OrderSet /\ Elements(BrFirst(Enabled)) = Enabled
    BY OrderOf, CompressAssumption
  <2>5. Left(w)' = Enabled
    BY <2>1, <2>4 DEF Moves, Left, Elements
  <2>6. Knows(w)'
    BY <1>1, <1>4, <2>1, <2>2, <2>3, <2>4
    DEF World, Now, Streamed, Sole, Moves, Knows, Starting, Publishing, Streaming, CommittedPCs
  <2>7. Holds(w)'
    BY <1>1, <2>1 DEF Moves, Holds, Starting, Publishing
  <2>8. Published(w)'
    <3>1. \A f \in Formats : NotPast(w, f)'
      BY <1>1, <2>1, <2>2 DEF SInv, Whole, NotPast, Moves
    <3> QED
      BY <2>1, <3>1 DEF Moves, Published, Starting, Publishing
  <2>9. \A f \in Enabled : Makes(w, f)'
    BY <1>1, <2>1, <2>5 DEF Moves, Makes, World
  <2>10. ~Idle
    BY <1>4 DEF Idle, BelowMin, Streamed
  <2>11. \A f \in Enabled : StillComing(w, f)
    BY <2>9 DEF StillComing
  <2> QED
    BY <1>1, <1>2, <2>1, <2>6, <2>7, <2>8, <2>10, <2>11, QuietStep
<1>5. CASE src # 0 /\ ~Streamed(src)
  <2>1. Moves(w, "read", src, content[w], todo[w], ok[w])
    BY <1>1, <1>5 DEF Open, Goto, Moves, Stays, TInv, LocalTypes
  <2>2. src \in 1..Now
    BY <1>5 DEF TInv, HistTypes, Now
  <2>3. Knows(w)'
    BY <1>1, <2>1, <2>2
    DEF SInv, World, Now, Moves, Knows, Starting, Publishing, Streaming, CommittedPCs
  <2>4. Holds(w)' /\ Published(w)'
    BY <2>1 DEF Moves, Holds, Published, Starting, Publishing
  <2>5. OnCourse(w)'
    BY <1>1, <2>1 DEF Moves, OnCourse, World
  <2>6. \A f \in Formats : StillGoing(w, f) /\ StillComing(w, f)
    BY <1>1, <1>2, <2>5 DEF StillGoing, StillComing
  <2> QED
    BY <1>1, <1>2, <2>1, <2>3, <2>4, <2>6, QuietStep, CompressAssumption
<1> QED
  BY <1>3, <1>4, <1>5

LEMMA ReadStep ==
  ASSUME TInv, SInv, NEW w \in Workers, Read(w)
  PROVE  SInv'
<1> DEFINE v == Contents(snap[w])
<1>1. /\ World /\ UNCHANGED <<out, tmp, pending>> /\ up /\ pc[w] = "read"
      /\ lost \subseteq lost' /\ snap[w] \in 1..Now
  BY DEF SInv, Knows, Read, PartialRead, World, At, files, trail
<1>2. \A f \in Formats : ~Doubts(w, f) /\ ~Owns(w, f) /\ ~Makes(w, f)
  BY <1>1 DEF Doubts, Owns, Makes, Publishing, Starting
<1>3. v \in snap[w]..Now
  BY <1>1, LastContents
<1>4. CASE SizeOf[v] < SizeOf[snap[w]]
  <2>1. snap[w] # src
    <3>1. snap[w] = src => v = snap[w]
      BY <1>1, <1>3 DEF SInv, History, TInv, HistTypes, Now
    <3>2. SizeOf[snap[w]] \in Nat
      <4>1. snap[w] \in 1..MaxVersions
        BY <1>1, CompressAssumption DEF TInv, HistTypes, Now
      <4> QED
        BY <4>1, CompressAssumption
    <3> QED
      BY <1>4, <3>1, <3>2
  <2>2. ~OnCourse(w)
    BY <1>1, <2>1 DEF OnCourse
  <2>3. RemoveCopies(w) /\ errors' = errors
    BY <1>4 DEF Read, PartialRead
  <2> QED
    BY <1>1, <1>2, <2>2, <2>3, RemoveStep
<1>5. CASE /\ Goto(w, "check") /\ content' = [content EXCEPT ![w] = {v}]
           /\ UNCHANGED <<snap, todo, ok, errors>>
  <2>1. Moves(w, "check", snap[w], {v}, todo[w], ok[w])
    BY <1>5 DEF Goto, Moves, Stays, TInv, LocalTypes
  <2>2. Knows(w)'
    BY <1>1, <1>3, <2>1
    DEF SInv, World, Now, Moves, Knows, Starting, Publishing, Streaming, CommittedPCs
  <2>3. Holds(w)' /\ Published(w)'
    BY <2>1 DEF Moves, Holds, Published, Starting, Publishing
  <2>4. OnCourse(w) => OnCourse(w)'
    BY <1>1, <2>1 DEF Moves, OnCourse, World
  <2>5. \A f \in Formats : StillGoing(w, f) /\ StillComing(w, f)
    BY <1>1, <1>2, <2>4 DEF StillGoing, StillComing, CopyOf, World
  <2> QED
    BY <1>1, <1>2, <1>5, <2>1, <2>2, <2>3, <2>5, QuietStep, CompressAssumption
<1>6. CASE CallFails /\ PartialRead(w)
  <2>1. RemoveCopies(w) /\ errors' = errors + 1 /\ ~Calm'
    BY <1>6, CompressAssumption DEF PartialRead, CallFails, Calm, TInv, FlagTypes
  <2> QED
    BY <1>1, <1>2, <2>1, RemoveStep
<1> QED
  BY <1>4, <1>5, <1>6 DEF Read

LEMMA CheckStep ==
  ASSUME TInv, SInv, NEW w \in Workers, Check(w)
  PROVE  SInv'
<1>1. /\ World /\ UNCHANGED <<out, tmp, errors, lost, pending>> /\ up /\ pc[w] = "check"
      /\ snap[w] \in 1..Now /\ content[w] # {} /\ content[w] \subseteq snap[w]..Now
  BY DEF SInv, Knows, Check, World, At, files, trail, bounds
<1>2. \A f \in Formats : ~Doubts(w, f) /\ ~Owns(w, f) /\ ~Makes(w, f)
  BY <1>1 DEF Doubts, Owns, Makes, Publishing, Starting
<1>3. CASE ~Unchanged(snap[w]) /\ Return(w)
  <2>1. snap[w] # src
    BY <1>1, <1>3 DEF Unchanged, TInv, HistTypes, Now
  <2>2. ~OnCourse(w)
    BY <1>1, <2>1 DEF OnCourse
  <2> QED
    BY <1>1, <1>2, <1>3, <2>2, ReturnStep, CompressAssumption
<1>4. CASE Unchanged(snap[w]) /\ BelowMin(src) /\ RemoveCopies(w)
  <2>1. Idle
    BY <1>4 DEF Idle
  <2> QED
    BY <1>1, <1>2, <1>4, <2>1, RemoveStep
<1>5. CASE Unchanged(snap[w]) /\ ~BelowMin(src) /\ Phase(w, "write", BrFirst(Enabled))
  <2>1. Moves(w, "write", snap[w], content[w], BrFirst(Enabled), ok[w])
    BY <1>5, PhaseMoves
  <2>2. snap[w] = src /\ src \in 1..Now /\ src = Now
    BY <1>1, <1>5, SameVersion DEF SInv, History, TInv, HistTypes, Now
  <2>3. content[w] = {src}
    BY <1>1, <2>2
  <2>4. BrFirst(Enabled) \in OrderSet /\ Elements(BrFirst(Enabled)) = Enabled
    BY OrderOf, CompressAssumption
  <2>5. Left(w)' = Enabled
    BY <2>1, <2>4 DEF Moves, Left, Elements
  <2>6. Knows(w)'
    BY <1>1, <1>5, <2>1, <2>2, <2>3, <2>4
    DEF World, Now, BelowMin, Moves, Knows, Starting, Publishing, Streaming, CommittedPCs
  <2>7. Holds(w)' /\ Published(w)'
    BY <2>1 DEF Moves, Holds, Published, Starting, Publishing
  <2>8. \A f \in Enabled : Makes(w, f)'
    BY <2>1, <2>5 DEF Moves, Makes
  <2>9. ~Idle
    BY <1>5, <2>2 DEF Idle, Unchanged
  <2>10. \A f \in Enabled : StillComing(w, f)
    BY <2>8 DEF StillComing
  <2> QED
    BY <1>1, <1>2, <2>1, <2>6, <2>7, <2>9, <2>10, QuietStep
<1> QED
  BY <1>3, <1>4, <1>5 DEF Check

LEMMA Chunk1Step ==
  ASSUME TInv, SInv, NEW w \in Workers, Chunk1(w)
  PROVE  SInv'
<1> DEFINE v == Contents(snap[w])
<1>1. /\ World /\ UNCHANGED <<out, tmp, pending>> /\ up /\ pc[w] = "chunk1"
      /\ lost \subseteq lost' /\ snap[w] \in 1..Now /\ Streamed(snap[w]) /\ Sole
  BY DEF SInv, Knows, Chunk1, StreamError, World, At, files, trail, Starting, Streaming
<1>2. \A f \in Formats : ~Doubts(w, f)
  BY <1>1 DEF Doubts, Publishing
<1>3. ~OnCourse(w) /\ v \in snap[w]..Now
  BY <1>1, LastContents DEF OnCourse
<1>4. CASE StreamError(w) /\ (UNCHANGED errors \/ CallFails)
  <2>1. RemoveCopies(w) /\ "fd" \in lost' /\ errors' \in {errors, errors + 1}
    BY <1>4 DEF StreamError, CallFails
  <2>2. ~Calm' /\ ~Undisturbed'
    <3>1. snap[w] \in 1..MaxVersions
      BY <1>1, CompressAssumption DEF TInv, HistTypes, Now
    <3> QED
      BY <1>1, <2>1, <3>1 DEF Calm, Undisturbed, OneShotOnly, Streamed
  <2> QED
    BY <1>1, <1>3, <2>1, <2>2, RemoveStep
<1>5. CASE /\ Goto(w, "chunk2") /\ content' = [content EXCEPT ![w] = {v}]
           /\ UNCHANGED <<snap, todo, ok, errors>>
  <2>1. Moves(w, "chunk2", snap[w], {v}, todo[w], ok[w])
    BY <1>5 DEF Goto, Moves, Stays, TInv, LocalTypes
  <2>2. Knows(w)'
    BY <1>1, <1>3, <2>1
    DEF SInv, World, Now, Sole, Streamed, Moves, Knows, Starting, Publishing, Streaming, CommittedPCs
  <2>3. Holds(w)'
    BY <1>1, <2>1 DEF SInv, Moves, Holds, Mine, Starting, Publishing
  <2>4. Published(w)'
    BY <1>1, <2>1 DEF SInv, Moves, Published, NotPast, Starting, Publishing
  <2>5. \A f \in Formats : (Owns(w, f) => Owns(w, f)') /\ (Makes(w, f) => Makes(w, f)')
    BY <1>1, <2>1 DEF Moves, Owns, Makes, Starting, World
  <2>6. \A f \in Formats : StillGoing(w, f) /\ StillComing(w, f)
    BY <1>1, <1>2, <1>3, <2>5 DEF StillGoing, StillComing, CopyOf, World
  <2> QED
    BY <1>1, <1>2, <1>5, <2>1, <2>2, <2>3, <2>4, <2>5, <2>6, QuietStep, CompressAssumption
<1> QED
  BY <1>4, <1>5 DEF Chunk1

LEMMA Chunk2Step ==
  ASSUME TInv, SInv, NEW w \in Workers, Chunk2(w)
  PROVE  SInv'
<1> DEFINE v == Contents(snap[w])
<1>1. /\ World /\ UNCHANGED <<out, tmp, pending>> /\ up /\ pc[w] = "chunk2"
      /\ lost \subseteq lost' /\ snap[w] \in 1..Now /\ Streamed(snap[w]) /\ Sole
      /\ content[w] # {} /\ content[w] \subseteq snap[w]..Now
  BY DEF SInv, Knows, Chunk2, StreamError, World, At, files, trail, Starting, Streaming
<1>2. \A f \in Formats : ~Doubts(w, f)
  BY <1>1 DEF Doubts, Publishing
<1>3. ~OnCourse(w) /\ v \in snap[w]..Now
  BY <1>1, LastContents DEF OnCourse
<1>4. CASE StreamError(w) /\ (UNCHANGED errors \/ CallFails)
  <2>1. RemoveCopies(w) /\ "fd" \in lost' /\ errors' \in {errors, errors + 1}
    BY <1>4 DEF StreamError, CallFails
  <2>2. ~Calm' /\ ~Undisturbed'
    <3>1. snap[w] \in 1..MaxVersions
      BY <1>1, CompressAssumption DEF TInv, HistTypes, Now
    <3> QED
      BY <1>1, <2>1, <3>1 DEF Calm, Undisturbed, OneShotOnly, Streamed
  <2> QED
    BY <1>1, <1>3, <2>1, <2>2, RemoveStep
<1>5. CASE /\ Goto(w, "flush") /\ content' = [content EXCEPT ![w] = @ \cup {v}]
           /\ todo' = [todo EXCEPT ![w] = BrFirst(ok[w])]
           /\ UNCHANGED <<snap, ok, errors>>
  <2>1. Moves(w, "flush", snap[w], content[w] \cup {v}, BrFirst(ok[w]), ok[w])
    BY <1>5 DEF Goto, Moves, Stays, TInv, LocalTypes
  <2>2. ok[w] \in SUBSET Formats /\ BrFirst(ok[w]) \in OrderSet /\ Elements(BrFirst(ok[w])) = ok[w]
    BY OrderOf DEF TInv, LocalTypes
  <2>3. Left(w)' = ok[w]
    BY <2>1, <2>2 DEF Moves, Left, Elements
  <2>4. Knows(w)'
    BY <1>1, <1>3, <2>1, <2>2
    DEF SInv, World, Now, Sole, Streamed, Moves, Knows, Starting, Publishing, Streaming, CommittedPCs
  <2>5. Holds(w)'
    BY <1>1, <2>1, <2>3 DEF SInv, Moves, Holds, Mine, Starting, Publishing
  <2>6. Published(w)'
    BY <1>1, <2>1, <2>2, <2>3 DEF SInv, Moves, Published, NotPast, Starting, Publishing
  <2>7. \A f \in Formats : (Owns(w, f) => Owns(w, f)') /\ (Makes(w, f) => Makes(w, f)')
    BY <1>1, <2>1, <2>3 DEF Moves, Owns, Makes, Starting, World
  <2>8. \A f \in Formats : StillGoing(w, f) /\ StillComing(w, f)
    BY <1>1, <1>2, <1>3, <2>7 DEF StillGoing, StillComing, CopyOf, World
  <2> QED
    BY <1>1, <1>2, <1>5, <2>1, <2>4, <2>5, <2>6, <2>7, <2>8, QuietStep, CompressAssumption
<1> QED
  BY <1>4, <1>5 DEF Chunk2

LEMMA StreamCheckStep ==
  ASSUME TInv, SInv, NEW w \in Workers, StreamCheck(w)
  PROVE  SInv'
<1>1. /\ World /\ UNCHANGED <<out, tmp, errors, pending, lost>> /\ up /\ pc[w] = "scheck"
      /\ snap[w] \in 1..Now /\ Sole /\ Left(w) = {}
      /\ content[w] # {} /\ content[w] \subseteq snap[w]..Now
  BY DEF SInv, Knows, StreamCheck, World, At, files, trail, bounds, Publishing, Streaming
<1>2. ~OnCourse(w) /\ \A f \in Formats : ~Owns(w, f) /\ ~Makes(w, f)
  BY <1>1 DEF Owns, Makes, OnCourse, Starting
<1>3. CASE ~(Unchanged(snap[w]) /\ ~BelowMin(src))
  <2>1. RemoveCopies(w)
    BY <1>3 DEF StreamCheck
  <2> QED
    BY <1>1, <1>2, <2>1, RemoveStep
<1>4. CASE Unchanged(snap[w]) /\ ~BelowMin(src)
  <2>1. snap[w] = src /\ src \in 1..Now /\ src = Now /\ src # 0
    BY <1>1, <1>4, SameVersion DEF SInv, History, TInv, HistTypes, Now
  <2>2. content[w] = {src}
    BY <1>1, <2>1
  <2>3. \A f \in Formats : ~Doubts(w, f)
    BY <1>1, <2>1 DEF Doubts
  <2>4. \A f \in ok[w] : Current(f)
    BY <1>1, <2>1 DEF SInv, Published, Publishing
  <2>5. CASE ok[w] = {} /\ Return(w)
    BY <1>1, <1>2, <2>3, <2>5, ReturnStep, CompressAssumption
  <2>6. CASE Phase(w, "smeta", GzFirst(ok[w]))
    <3>1. Moves(w, "smeta", snap[w], content[w], GzFirst(ok[w]), ok[w])
      BY <2>6, PhaseMoves
    <3>2. /\ ok[w] \in SUBSET Formats /\ GzFirst(ok[w]) \in OrderSet
          /\ Elements(GzFirst(ok[w])) = ok[w]
      BY OrderOf DEF TInv, LocalTypes
    <3>3. Left(w)' = ok[w]
      BY <3>1, <3>2 DEF Moves, Left, Elements
    <3>4. Knows(w)'
      BY <1>1, <1>4, <2>1, <2>2, <3>1, <3>2
      DEF World, Now, Sole, BelowMin, Moves, Knows, Starting, Publishing, Streaming, CommittedPCs
    <3>5. Holds(w)'
      BY <3>1 DEF Moves, Holds, Starting, Publishing
    <3>6. Published(w)'
      BY <1>1, <2>4, <3>1, <3>3 DEF World, Moves, Published, Current, Starting, Publishing
    <3>7. \A f \in Formats : StillGoing(w, f) /\ StillComing(w, f)
      BY <1>1, <1>2, <2>3 DEF StillGoing, StillComing, CopyOf, World
    <3> QED
      BY <1>1, <1>2, <2>3, <3>1, <3>4, <3>5, <3>6, <3>7, QuietStep, CompressAssumption
  <2> QED
    BY <1>4, <2>5, <2>6 DEF StreamCheck
<1> QED
  BY <1>3, <1>4
-----------------------------------------------------------------------------
(* One-shot steps that touch files *)

\* The format a worker is at, and what is left after it.
LEMMA AtFormat ==
  ASSUME TInv, SInv, NEW w \in Workers, pc[w] \in HasTodo
  PROVE  /\ todo[w] \in OrderSet /\ todo[w] # <<>>
         /\ FormatOf(w) \in Formats /\ FormatOf(w) \in Left(w) /\ Left(w) \subseteq Formats
         /\ Elements(Tail(todo[w])) = Left(w) \ {FormatOf(w)} /\ Tail(todo[w]) \in OrderSet
         /\ ~(Len(todo[w]) > 1) => Left(w) \ {FormatOf(w)} = {}
<1>1. todo[w] \in OrderSet /\ todo[w] # <<>>
  BY DEF TInv, AtHand, SInv, Knows
<1> QED
  BY <1>1, OrderFacts DEF FormatOf, Left

LEMMA NextFormatDoes ==
  ASSUME TInv, SInv, NEW w \in Workers, pc[w] \in CommittedPCs, NextFormat(w),
         World
  PROVE  /\ Knows(w)' /\ Holds(w)' /\ Published(w)'
         /\ \A v \in Workers \ {w} : Stays(v)
         /\ pc'[w] \in {"write", "idle"} /\ ~OnCourse(w)'
         /\ \A f \in Left(w) \ {FormatOf(w)} : Makes(w, f)'
<1>1. pc[w] \in HasTodo
  BY DEF CommittedPCs, HasTodo
<1>2. CASE Len(todo[w]) > 1
  <2>1. Moves(w, "write", snap[w], content[w], Tail(todo[w]), ok[w])
    BY <1>2, PhaseMoves DEF NextFormat
  <2>2. Left(w)' = Left(w) \ {FormatOf(w)}
    BY <1>1, <2>1, AtFormat DEF Moves, Left, Elements
  <2>3. Knows(w)'
    BY <1>1, <2>1, AtFormat
    DEF SInv, World, Now, BelowMin, Moves, Knows, Starting, Publishing, Streaming, CommittedPCs
  <2>4. Holds(w)' /\ Published(w)'
    BY <2>1 DEF Moves, Holds, Published, Starting, Publishing
  <2>5. \A f \in Left(w) \ {FormatOf(w)} : Makes(w, f)'
    BY <2>1, <2>2 DEF Moves, Makes
  <2> QED
    BY <2>1, <2>3, <2>4, <2>5 DEF Moves, OnCourse
<1>3. CASE ~(Len(todo[w]) > 1)
  <2>1. Moves(w, "idle", 0, {}, <<>>, {})
    BY <1>3, ReturnMoves DEF NextFormat
  <2>2. Left(w) \ {FormatOf(w)} = {}
    BY <1>1, <1>3, AtFormat
  <2> QED
    BY <2>1, <2>2, AtRest DEF Moves, OnCourse
<1> QED
  BY <1>2, <1>3

\* The state of a worker at its last steps before a copy is published.
LEMMA NoDoubt ==
  ASSUME NEW w \in Workers, pc[w] \in CommittedPCs
  PROVE  ~OnCourse(w) /\ \A f : ~Doubts(w, f)
BY DEF CommittedPCs, OnCourse, Doubts, Publishing

LEMMA OneWriterStep ==
  ASSUME OneWriter, NEW w \in Workers, \A v \in Workers \ {w} : Stays(v),
         \/ pc'[w] \notin {"fill", "rename"}
         \/ \A v \in Workers \ {w} : pc[v] \in {"fill", "rename"} => FormatOf(v) # Head(todo'[w])
  PROVE  OneWriter'
BY DEF OneWriter, Stays, FormatOf

LEMMA OpenTmpStep ==
  ASSUME TInv, SInv, NEW w \in Workers, OpenTmp(w)
  PROVE  SInv'
<1> DEFINE f == FormatOf(w)
<1>1. /\ World /\ UNCHANGED <<out, errors, lost, pending>> /\ up /\ pc[w] = "write"
      /\ errors \in Nat /\ errors <= errors
  BY CompressAssumption DEF OpenTmp, World, At, trail, bounds, TInv, FlagTypes
<1>2. pc[w] \in HasTodo /\ pc[w] \in CommittedPCs
  BY <1>1 DEF HasTodo, CommittedPCs
<1>3. f \in Formats /\ f \in Left(w)
  BY <1>2, AtFormat
<1>4. ~OnCourse(w) /\ \A g \in Formats : ~Doubts(w, g) /\ ~Owns(w, g)
  BY <1>1, <1>2, NoDoubt DEF Owns, Starting
<1>5. Whole' /\ (\A g \in Formats : Harmless(g) /\ StillChecked(w, g) /\ StillGoing(w, g))
  BY <1>1, <1>4 DEF SInv, Whole, Harmless, StillChecked, StillGoing, World, Now
<1>6. \A g : CopyOf(g, src)' <=> CopyOf(g, src)
  BY <1>1 DEF CopyOf, World
<1>7. CASE tmp[f] = None /\ tmp' = [tmp EXCEPT ![f] = NewTmp(w)] /\ Goto(w, "fill")
           /\ UNCHANGED <<snap, content, todo, ok>>
  <2>1. Moves(w, "fill", snap[w], content[w], todo[w], ok[w])
    BY <1>7, GotoMoves
  <2>2. /\ tmp'[f] = NewTmp(w) /\ NewTmp(w) # None /\ NewTmp(w).owner = w
        /\ \A g \in Formats \ {f} : tmp'[g] = tmp[g]
    BY <1>3, <1>7, FileRecords DEF TInv, FileTypes, NewTmp
  <2>3. f' = f /\ Left(w)' = Left(w)
    BY <2>1 DEF Moves, FormatOf, Left, Elements
  <2>4. \A v \in Workers \ {w} : pc[v] \in {"fill", "rename"} => FormatOf(v) # f
    BY <1>7 DEF SInv, Holds, Mine, Written
  <2>5. Knows(w)'
    BY <1>1, <1>2, <2>1
    DEF SInv, World, Now, BelowMin, Moves, Knows, Starting, Publishing, Streaming, CommittedPCs
  <2>6. Holds(w)' /\ Published(w)'
    BY <2>1, <2>2, <2>3 DEF Moves, Holds, Mine, Published, Starting, Publishing
  <2>7. OneWriter'
    BY <2>1, <2>4, OneWriterStep DEF SInv, Moves, FormatOf
  <2>8. \A g \in Formats : StillOwned(w, g)
    BY <1>4, <2>1, <2>2, <2>3 DEF StillOwned, Owns, Moves
  <2>9. \A g \in Enabled : StillComing(w, g)
    BY <1>1, <1>4, <1>6, <2>1, <2>3, CompressAssumption DEF StillComing, Makes, Moves
  <2>10. /\ \A v \in Workers \ {w} : Stays(v)
         /\ \A v \in Workers : pc'[v] # "idle" => up
    BY <1>1, <2>1 DEF Moves
  <2> HIDE DEF f
  <2> QED
    BY <1>1, <1>3, <1>5, <2>2, <2>4, <2>5, <2>6, <2>7, <2>8, <2>9, <2>10, WorkerStep
<1>8. CASE tmp[f] # None /\ NextFormat(w) /\ tmp' = tmp
  <2>1. /\ Knows(w)' /\ Holds(w)' /\ Published(w)'
        /\ \A v \in Workers \ {w} : Stays(v)
        /\ pc'[w] \in {"write", "idle"}
        /\ \A g \in Left(w) \ {f} : Makes(w, g)'
    BY <1>1, <1>2, <1>8, NextFormatDoes
  <2>2. OneWriter'
    BY <2>1, OneWriterStep DEF SInv
  <2>3. \A g \in Formats : StillOwned(w, g)
    BY <1>4, <1>8 DEF StillOwned
  <2>4. Calm' => \E v \in Workers \ {w} : Makes(v, f)
    <3> SUFFICES ASSUME Calm' PROVE \E v \in Workers \ {w} : Makes(v, f)
      OBVIOUS
    <3>1. Undisturbed
      BY <1>1 DEF Calm, Undisturbed, World
    <3>2. PICK v \in Workers : Owns(v, f)
      BY <1>3, <1>8, <3>1 DEF SInv, TmpOwned
    <3>3. v # w
      BY <1>3, <1>4, <3>2
    <3>4. pc[v] \notin Streaming
      BY <3>3 DEF SInv, Knows, Sole
    <3>5. pc[v] \in {"fill", "rename"} /\ FormatOf(v) = f
      BY <3>2, <3>4 DEF Owns, Streaming, Publishing
    <3>6. f \in Left(v)
      <4>1. pc[v] \in HasTodo
        BY <3>5 DEF HasTodo
      <4> QED
        BY <3>5, <4>1, AtFormat
    <3> QED
      BY <3>3, <3>5, <3>6 DEF Makes
  <2>5. Calm' => \A g \in Enabled : StillComing(w, g)
    <3> SUFFICES ASSUME Calm', NEW g \in Enabled PROVE StillComing(w, g)
      OBVIOUS
    <3>1. CASE g = f
      BY <2>4, <3>1 DEF StillComing
    <3>2. CASE g # f /\ g \in Left(w)
      BY <2>1, <3>2 DEF StillComing
    <3>3. CASE g \notin Left(w)
      BY <1>1, <1>4, <1>6, <3>3 DEF StillComing, Makes
    <3> QED
      BY <3>1, <3>2, <3>3
  <2>6. \A v \in Workers : pc'[v] # "idle" => up
    BY <1>1
  <2> HIDE DEF f
  <2> QED
    BY <1>1, <1>3, <1>5, <1>8, <2>1, <2>2, <2>3, <2>5, <2>6, WorkerStep
<1> QED
  BY <1>7, <1>8 DEF OpenTmp, CanCreate, FormatOf

\* A descriptor of a worker writes to its temporary file: no worker owns a
\* published copy.
LEMMA OwnedWrite ==
  ASSUME TInv, SInv, NEW w \in Workers, NEW f \in Formats, Mine(w, f)
  PROVE  /\ WriteOwned(w, out, f, FullFile(w)) = out
         /\ WriteOwned(w, tmp, f, FullFile(w)) =
              [tmp EXCEPT ![f] = [FullFile(w) EXCEPT !.uid = tmp[f].uid]]
<1>1. out[f] # None => out[f].owner # w
  BY NoneAssumption DEF SInv, Whole
<1> QED
  BY <1>1 DEF WriteOwned, Mine

\* ... which is then whole.
LEMMA FullFileIs ==
  ASSUME TInv, NEW w \in Workers, NEW f \in Formats, tmp[f].uid \in Uids,
         tmp'[f] = [FullFile(w) EXCEPT !.uid = tmp[f].uid]
  PROVE  /\ tmp'[f] # None /\ tmp'[f].owner = None /\ tmp'[f].complete
         /\ tmp'[f].content = content[w] /\ tmp'[f].mtime = Now /\ Now \in Nat
<1>1. FullFile(w) \in File
  BY FileRecords
<1>2. tmp'[f] \in File
  BY <1>1 DEF File
<1>3. tmp'[f] # None
  BY <1>2, NoneAssumption
<1>4. tmp'[f] = [owner |-> None, content |-> content[w], complete |-> TRUE, mtime |-> Now,
                 uid |-> tmp[f].uid]
  BY DEF FullFile
<1>5. Now \in Nat
  BY DEF TInv, HistTypes, Now
<1> QED
  BY <1>3, <1>4, <1>5

LEMMA FillStep ==
  ASSUME TInv, SInv, NEW w \in Workers, Fill(w)
  PROVE  SInv'
<1> DEFINE f == FormatOf(w)
<1>1. World /\ UNCHANGED <<lost, pending>> /\ up /\ pc[w] = "fill"
  BY DEF Fill, World, At, trail
<1>2. pc[w] \in HasTodo /\ pc[w] \in CommittedPCs
  BY <1>1 DEF HasTodo, CommittedPCs
<1>3. f \in Formats /\ f \in Left(w) /\ Mine(w, f)
  BY <1>1, <1>2, AtFormat DEF SInv, Holds
<1>4. ~OnCourse(w) /\ \A g \in Formats : ~Doubts(w, g) /\ (g # f => ~Owns(w, g))
  BY <1>1, <1>2, NoDoubt DEF Owns, Starting
<1>5. out' = out
  BY <1>3, OwnedWrite DEF Fill, FormatOf
<1>6. Whole' /\ (\A g \in Formats : Harmless(g) /\ StillChecked(w, g) /\ StillGoing(w, g))
  BY <1>1, <1>4, <1>5 DEF SInv, Whole, Harmless, StillChecked, StillGoing, World, Now
<1>7. errors \in Nat /\ errors' \in Nat /\ errors <= errors'
  BY CompressAssumption DEF TInv, FlagTypes, Fill, CallFails
<1>8. \A v \in Workers \ {w} : pc[v] \in {"fill", "rename"} => FormatOf(v) # f
  BY <1>1 DEF SInv, OneWriter, FormatOf
<1>9. CASE /\ tmp' = WriteOwned(w, tmp, f, FullFile(w)) /\ Goto(w, "rename")
           /\ UNCHANGED <<snap, content, todo, ok, errors>>
  <2>1. Moves(w, "rename", snap[w], content[w], todo[w], ok[w])
    BY <1>9, GotoMoves
  <2>2. tmp' = [tmp EXCEPT ![f] = [FullFile(w) EXCEPT !.uid = tmp[f].uid]]
    BY <1>3, <1>9, OwnedWrite
  <2>3. /\ tmp'[f] = [FullFile(w) EXCEPT !.uid = tmp[f].uid] /\ tmp[f].uid \in Uids
        /\ \A g \in Formats \ {f} : tmp'[g] = tmp[g]
    <3>1. tmp[f] \in File
      BY <1>3 DEF Mine, TInv, FileTypes
    <3> QED
      BY <1>3, <2>2, <3>1 DEF TInv, FileTypes, File
  <2>4. f' = f /\ Left(w)' = Left(w)
    BY <2>1 DEF Moves, FormatOf, Left, Elements
  <2>5. Knows(w)'
    BY <1>1, <1>2, <2>1
    DEF SInv, World, Now, BelowMin, Moves, Knows, Starting, Publishing, Streaming, CommittedPCs
  <2>6. Holds(w)' /\ Published(w)'
    <3>1. Written(w, f)'
      <4>1. /\ tmp'[f] # None /\ tmp'[f].owner = None /\ tmp'[f].complete
            /\ tmp'[f].content = content[w] /\ tmp'[f].mtime = Now /\ Now \in Nat
        BY <1>3, <2>3, FullFileIs
      <4>2. Now' = Now /\ content'[w] = content[w] /\ f' = f
        BY <1>1, <2>1, <2>4 DEF World, Now, Moves
      <4> QED
        BY <4>1, <4>2 DEF Written
    <3> QED
      BY <2>1, <2>4, <3>1 DEF Moves, Holds, Published, Starting, Publishing
  <2>7. OneWriter'
    BY <1>8, <2>1, OneWriterStep DEF SInv, Moves, FormatOf
  <2>8. \A g \in Formats : StillOwned(w, g)
    BY <1>4, <2>1, <2>3, <2>4 DEF StillOwned, Owns, Moves
  <2>9. \A g \in Enabled : StillComing(w, g)
    <3>1. \A g : CopyOf(g, src)' <=> CopyOf(g, src)
      BY <1>1, <1>5 DEF CopyOf, World
    <3> QED
      BY <1>1, <1>4, <2>1, <2>4, <3>1, CompressAssumption DEF StillComing, Makes, Moves
  <2>10. /\ \A v \in Workers \ {w} : Stays(v)
         /\ \A v \in Workers : pc'[v] # "idle" => up
    BY <1>1, <2>1 DEF Moves
  <2> HIDE DEF f
  <2> QED
    BY <1>1, <1>3, <1>6, <1>7, <1>8, <2>3, <2>5, <2>6, <2>7, <2>8, <2>9, <2>10, WorkerStep
<1>10. CASE errors' = errors + 1 /\ tmp' = [tmp EXCEPT ![f] = None] /\ NextFormat(w)
  <2>1. /\ Knows(w)' /\ Holds(w)' /\ Published(w)'
        /\ \A v \in Workers \ {w} : Stays(v)
        /\ pc'[w] \in {"write", "idle"}
    BY <1>1, <1>2, <1>10, NextFormatDoes
  <2>2. OneWriter'
    BY <2>1, OneWriterStep DEF SInv
  <2>3. tmp'[f] = None /\ \A g \in Formats \ {f} : tmp'[g] = tmp[g]
    BY <1>3, <1>10 DEF TInv, FileTypes
  <2>4. \A g \in Formats : StillOwned(w, g)
    BY <1>4, <2>3 DEF StillOwned
  <2>5. ~Calm'
    BY <1>7, <1>10 DEF Calm
  <2>6. \A v \in Workers : pc'[v] # "idle" => up
    BY <1>1
  <2> HIDE DEF f
  <2> QED
    BY <1>1, <1>3, <1>6, <1>7, <1>8, <2>1, <2>2, <2>3, <2>4, <2>5, <2>6, WorkerStep
<1> QED
  BY <1>9, <1>10 DEF Fill, FormatOf, CallFails

\* What the version in a committed worker's buffer is worth.
LEMMA CommittedTo ==
  ASSUME TInv, SInv, NEW w \in Workers, pc[w] \in CommittedPCs
  PROVE  \E m \in 1..Now : /\ content[w] = {m}
                           /\ ~late => m = src /\ src = Now /\ ~BelowMin(m) /\ ~Idle
<1>1. PICK m \in 1..Now : content[w] = {m} /\ (~late => m = src /\ ~BelowMin(m))
  BY DEF SInv, Knows
<1>2. Now \in Nat
  BY DEF TInv, HistTypes, Now
<1>3. ~late => src = Now /\ src # 0
  BY <1>1, <1>2 DEF SInv, History
<1> QED
  BY <1>1, <1>3 DEF Idle

LEMMA RenameStep ==
  ASSUME TInv, SInv, NEW w \in Workers, Rename(w)
  PROVE  SInv'
<1> DEFINE f == FormatOf(w)
<1>1. /\ World /\ UNCHANGED <<errors, lost, pending>> /\ up /\ pc[w] = "rename"
      /\ errors \in Nat /\ errors <= errors
  BY CompressAssumption DEF Rename, World, At, trail, bounds, TInv, FlagTypes
<1>2. pc[w] \in HasTodo /\ pc[w] \in CommittedPCs
  BY <1>1 DEF HasTodo, CommittedPCs
<1>3. f \in Formats /\ f \in Left(w) /\ Written(w, f)
  BY <1>1, <1>2, AtFormat DEF SInv, Holds
<1>4. ~OnCourse(w) /\ \A g \in Formats : ~Doubts(w, g) /\ (g # f => ~Owns(w, g))
  BY <1>1, <1>2, NoDoubt DEF Owns, Starting
<1>5. Move(f) /\ Phase(w, "meta", todo[w])
  BY <1>3 DEF Rename, Written, FormatOf
<1>6. Moves(w, "meta", snap[w], content[w], todo[w], ok[w])
  BY <1>5, PhaseMoves
<1>7. /\ out'[f] = tmp[f] /\ tmp'[f] = None
      /\ \A g \in Formats \ {f} : out'[g] = out[g] /\ tmp'[g] = tmp[g]
  BY <1>3, <1>5 DEF Move, TInv, FileTypes
<1>8. f' = f /\ Left(w)' = Left(w)
  BY <1>6 DEF Moves, FormatOf, Left, Elements
<1>9. PICK m \in 1..Now : /\ content[w] = {m}
                          /\ ~late => m = src /\ src = Now /\ ~BelowMin(m) /\ ~Idle
  BY <1>2, CommittedTo
<1>10. /\ out'[f] # None /\ out'[f].complete /\ out'[f].owner = None
       /\ out'[f].content = {m} /\ out'[f].mtime <= Now
  BY <1>3, <1>7, <1>9 DEF Written
<1>11. Whole'
  BY <1>1, <1>7, <1>9, <1>10 DEF SInv, Whole, World, Now
<1>12. \A g \in Formats : Harmless(g)
  BY <1>7, <1>9, <1>10 DEF Harmless
<1>13. \A g \in Formats : StillChecked(w, g)
  <2>1. ASSUME NEW g \in Formats, g = f PROVE Sound(g)'
    BY <1>1, <1>9, <1>10, <2>1 DEF Sound, World, Now, BelowMin
  <2> QED
    BY <1>4, <1>7, <2>1 DEF StillChecked
<1>14. Knows(w)'
  BY <1>1, <1>2, <1>6
  DEF SInv, World, Now, BelowMin, Moves, Knows, Starting, Publishing, Streaming, CommittedPCs
<1>15. Holds(w)'
  BY <1>6 DEF Moves, Holds, Starting, Publishing
<1>16. Published(w)'
  <2>1. ~late => Current(f)'
    BY <1>1, <1>8, <1>9, <1>10 DEF Current, World
  <2> QED
    BY <1>1, <1>6, <1>8, <2>1 DEF Moves, Published, Starting, Publishing, World
<1>17. OneWriter'
  BY <1>6, OneWriterStep DEF SInv, Moves
<1>18. \A g \in Formats : StillOwned(w, g)
  BY <1>4, <1>7 DEF StillOwned
<1>19. Calm' => ~late
  BY <1>1 DEF Calm, World
<1>20. ~late => \A g \in Formats : StillComing(w, g)
  <2> SUFFICES ASSUME ~late, NEW g \in Formats PROVE StillComing(w, g)
    OBVIOUS
  <2>1. CASE g = f
    BY <1>1, <1>9, <1>10, <2>1 DEF StillComing, CopyOf, World
  <2>2. CASE g # f /\ Makes(w, g)
    BY <1>1, <1>6, <1>8, <2>2 DEF StillComing, Makes, Moves
  <2>3. CASE g # f /\ ~Makes(w, g)
    BY <1>1, <1>4, <1>7, <2>3 DEF StillComing, CopyOf, World
  <2> QED
    BY <2>1, <2>2, <2>3
<1>21. \A v \in Workers \ {w} : pc[v] \in {"fill", "rename"} => FormatOf(v) # f
  BY <1>1 DEF SInv, OneWriter, FormatOf
<1>22. /\ \A v \in Workers \ {w} : Stays(v)
       /\ \A v \in Workers : pc'[v] # "idle" => up
  BY <1>1, <1>6 DEF Moves
<1> HIDE DEF f
<1> QED
  BY <1>1, <1>3, <1>7, <1>9, <1>11, <1>12, <1>13, <1>14, <1>15, <1>16, <1>17, <1>18, <1>19,
     <1>20, <1>21, <1>22, WorkerStep, CompressAssumption

\* copy_metadata changes the mtime of a copy, and nothing else about it.
LEMMA MtimeDoes ==
  ASSUME TInv, NEW f \in Formats, CopyMtime(f)
  PROVE  /\ \A g \in Formats \ {f} : out'[g] = out[g]
         /\ out'[f] = None <=> out[f] = None
         /\ out[f] # None => /\ out'[f].content = out[f].content
                             /\ out'[f].complete = out[f].complete
                             /\ out'[f].owner = out[f].owner
                             /\ out'[f].mtime = IF src # 0 THEN Mtime(src) ELSE out[f].mtime
<1>1. CASE out[f] # None /\ src # 0
  <2> DEFINE u == IF Daemon = Root THEN Uid(src) ELSE out[f].uid
  <2>1. out[f] \in File /\ out \in [Formats -> File \cup {None}]
    BY <1>1 DEF TInv, FileTypes
  <2>2. out' = [out EXCEPT ![f] = [[out[f] EXCEPT !.mtime = Mtime(src)] EXCEPT !.uid = u]]
    BY <1>1, <2>1 DEF CopyMtime
  <2> HIDE DEF u
  <2>3. out' \in [Formats -> File \cup {None}]
    BY MtimeStep
  <2>4. out'[f] = [[out[f] EXCEPT !.mtime = Mtime(src)] EXCEPT !.uid = u]
    BY <2>1, <2>2
  <2>5. /\ out'[f].content = out[f].content /\ out'[f].complete = out[f].complete
        /\ out'[f].owner = out[f].owner /\ out'[f].mtime = Mtime(src)
    BY <2>1, <2>4 DEF File
  <2>6. out'[f] # None
    <3>1. Mtime(src) \in 0..MaxVersions /\ Uid(src) \in Uids
      BY <1>1, VersionType DEF TInv, HistTypes
    <3>2. u \in Uids
      BY <2>1, <3>1 DEF u, File
    <3>3. [[out[f] EXCEPT !.mtime = Mtime(src)] EXCEPT !.uid = u] \in File
      BY <2>1, <3>1, <3>2 DEF File
    <3> QED
      BY <2>4, <3>3, NoneAssumption
  <2> QED
    BY <1>1, <2>1, <2>2, <2>5, <2>6
<1>2. CASE ~(out[f] # None /\ src # 0)
  BY <1>2 DEF CopyMtime
<1> QED
  BY <1>1, <1>2

\* A new mtime leaves a copy sound.
LEMMA MtimeSound ==
  ASSUME TInv, SInv, World, NEW f \in Formats, CopyMtime(f),
         ~late => out[f] = None \/ Current(f),
         ~late => src = Now /\ ~BelowMin(src) /\ src # 0,
         Sound(f)
  PROVE  Sound(f)'
<1>1. CASE out[f] = None
  BY <1>1, MtimeDoes DEF Sound
<1>2. CASE out[f] # None
  <2>1. out'[f] # None /\ out'[f].content = out[f].content
    BY <1>2, MtimeDoes
  <2>2. CASE late
    BY <1>2, <2>1, <2>2 DEF Sound, World, Now
  <2>3. CASE ~late
    <3>1. out[f].content = {src} /\ src \in 1..Now
      BY <1>2, <2>3 DEF Current, TInv, HistTypes, Now
    <3>2. out'[f].mtime = Mtime(src) /\ Mtime(src) <= src
      <4>1. out'[f].mtime = Mtime(src) /\ Mtime(src) \in {0, src} /\ src \in Nat
        BY <1>2, <2>3, <3>1, MtimeDoes DEF SInv, History, TInv, HistTypes
      <4> QED
        BY <4>1
    <3> QED
      BY <2>1, <2>3, <3>1, <3>2 DEF Sound, World, Now, BelowMin
  <2> QED
    BY <2>2, <2>3
<1> QED
  BY <1>1, <1>2

LEMMA MetaFiles ==
  ASSUME TInv, SInv, World, NEW w \in Workers, pc[w] \in {"meta", "smeta"},
         CopyMtime(FormatOf(w)), tmp' = tmp
  PROVE  /\ Whole' /\ (Calm' => ~Idle /\ ~late)
         /\ ~cut /\ ~kept' => \A g \in Formats : StillChecked(w, g)
         /\ \A g \in Formats : /\ Harmless(g) /\ StillOwned(w, g)
                               /\ out[g] = None => out'[g] = None
                               /\ Current(g) => Current(g)'
                               /\ CopyOf(g, src) => CopyOf(g, src)'
<1> DEFINE f == FormatOf(w)
<1>1. pc[w] \in HasTodo /\ pc[w] \in CommittedPCs
  BY DEF HasTodo, CommittedPCs
<1>2. f \in Formats /\ f \in Left(w)
  BY <1>1, AtFormat
<1>3. /\ \A g \in Formats \ {f} : out'[g] = out[g]
      /\ out'[f] = None <=> out[f] = None
      /\ out[f] # None => /\ out'[f].content = out[f].content
                          /\ out'[f].complete = out[f].complete
                          /\ out'[f].owner = out[f].owner
  BY <1>2, MtimeDoes
<1>4. Whole'
  BY <1>3 DEF SInv, Whole, World, Now
<1>5. \A g \in Formats : Harmless(g)
  BY <1>3 DEF Harmless
<1>6. ~late => src = Now /\ ~BelowMin(src) /\ src # 0 /\ ~Idle
  BY <1>1, CommittedTo DEF Idle
<1>7. \A g \in Formats : ~Doubts(w, g) /\ ~Owns(w, g)
  BY <1>1, NoDoubt DEF Owns, Starting
<1>8. ASSUME ~cut, ~kept', NEW g \in Formats PROVE StillChecked(w, g)
  <2>1. Sound(g)
    BY <1>7, <1>8 DEF SInv, Checked, Sole, World
  <2>2. ~late => out[f] = None \/ Current(f)
    BY <1>2 DEF SInv, Published
  <2>3. g = f => Sound(g)'
    BY <1>2, <1>6, <2>1, <2>2, MtimeSound
  <2> QED
    BY <1>3, <1>7, <2>3 DEF StillChecked
<1>9. \A g \in Formats : /\ StillOwned(w, g)
                         /\ out[g] = None => out'[g] = None
                         /\ Current(g) => Current(g)'
                         /\ CopyOf(g, src) => CopyOf(g, src)'
  BY <1>3, <1>7 DEF StillOwned, Current, CopyOf, World
<1>10. Calm' => ~late
  BY DEF Calm, World
<1> QED
  BY <1>4, <1>5, <1>6, <1>8, <1>9, <1>10

LEMMA MetaStep ==
  ASSUME TInv, SInv, NEW w \in Workers, Meta(w)
  PROVE  SInv'
<1>1. /\ World /\ UNCHANGED <<tmp, errors, lost, pending>> /\ up /\ pc[w] = "meta"
      /\ errors \in Nat /\ errors <= errors /\ CopyMtime(FormatOf(w)) /\ NextFormat(w)
  BY CompressAssumption DEF Meta, World, At, trail, bounds, TInv, FlagTypes, FormatOf
<1>2. pc[w] \in CommittedPCs
  BY <1>1 DEF CommittedPCs
<1>3. ~OnCourse(w)
  BY <1>1 DEF OnCourse
<1>4. /\ Whole' /\ (Calm' => ~Idle)
      /\ ~cut /\ ~kept' => \A g \in Formats : StillChecked(w, g)
      /\ \A g \in Formats : /\ Harmless(g) /\ StillOwned(w, g)
                            /\ CopyOf(g, src) => CopyOf(g, src)'
  BY <1>1, MetaFiles
<1>5. /\ Knows(w)' /\ Holds(w)' /\ Published(w)'
      /\ \A v \in Workers \ {w} : Stays(v)
      /\ pc'[w] \in {"write", "idle"}
      /\ \A g \in Left(w) \ {FormatOf(w)} : Makes(w, g)'
  BY <1>1, <1>2, NextFormatDoes
<1>6. OneWriter'
  BY <1>5, OneWriterStep DEF SInv
<1>7. ASSUME NEW g \in Enabled PROVE StillComing(w, g)
  <2>1. CASE g \in Left(w) \ {FormatOf(w)}
    BY <1>5, <2>1 DEF StillComing
  <2>2. CASE g \notin Left(w) \ {FormatOf(w)}
    <3>1. ~Makes(w, g)
      BY <1>1, <2>2 DEF Makes
    <3> QED
      BY <1>3, <1>4, <3>1, CompressAssumption DEF StillComing
  <2> QED
    BY <2>1, <2>2
<1>8. \A v \in Workers : pc'[v] # "idle" => up
  BY <1>1
<1>9. "gz" \in Formats
  BY DEF Formats
<1> QED
  BY <1>1, <1>4, <1>5, <1>6, <1>7, <1>8, <1>9, WorkerStep
-----------------------------------------------------------------------------
(* Streaming steps that touch files: there is one worker *)

LEMMA Alone ==
  ASSUME SInv, NEW w \in Workers, pc[w] \in Streaming \cup {"smeta"}
  PROVE  Sole /\ Workers \ {w} = {}
BY DEF SInv, Knows, Sole

\* With one worker there is one writer, and nobody to take a file from.
LEMMA SoleStep ==
  ASSUME TInv, SInv, World, NEW w \in Workers, Workers \ {w} = {}, up,
         Knows(w)', Holds(w)', Published(w)', Whole',
         NEW f \in Formats, \A g \in Formats \ {f} : tmp'[g] = tmp[g],
         ~cut /\ ~kept' => \A g \in Formats : StillChecked(w, g),
         errors' \in Nat, errors <= errors', lost \subseteq lost', pending \subseteq pending',
         Undisturbed' => \A g \in Formats : StillOwned(w, g),
         Calm' /\ Idle => \A g \in Formats : StillGoing(w, g),
         Calm' /\ ~Idle => \A g \in Enabled : StillComing(w, g)
  PROVE  SInv'
<1>1. History' /\ Crashes' /\ OneWriter'
  BY DEF SInv, History, Crashes, OneWriter, World, Now, Ino, Mtime
<1>2. \A v \in Workers : v = w
  OBVIOUS
<1>3. \A v \in Workers \ {w} : Stays(v)
  OBVIOUS
<1>4. Checked'
  BY <1>3, CheckedStep DEF SInv
<1>5. errors \in Nat /\ (errors' = 0 => errors = 0)
  BY CompressAssumption DEF TInv, FlagTypes
<1>6. TmpOwned'
  <2>1. Undisturbed' => Undisturbed
    BY <1>5 DEF Undisturbed, World, OneShotOnly, Streamed
  <2> QED
    BY <1>3, <2>1, TmpOwnedStep DEF SInv
<1>7. Calm' => errors = 0 /\ "fd" \notin lost
  BY <1>5 DEF Calm
<1>8. Progress'
  BY <1>3, <1>7, ProgressStep DEF SInv
<1> QED
  BY <1>1, <1>2, <1>4, <1>6, <1>8 DEF SInv

\* Steps that leave the published copies alone.
LEMMA SameCopies ==
  ASSUME SInv, World, out' = out, NEW w \in Workers,
         \A g \in Formats : Doubts(w, g) => Doubts(w, g)'
  PROVE  /\ Whole' /\ \A g \in Formats : /\ StillChecked(w, g)
                                         /\ ~OnCourse(w) => StillGoing(w, g)
                                         /\ CopyOf(g, src)' <=> CopyOf(g, src)
BY DEF SInv, Whole, World, Now, StillChecked, StillGoing, CopyOf

LEMMA UnlinkStep ==
  ASSUME TInv, SInv, NEW w \in Workers, Unlink(w)
  PROVE  SInv'
<1> DEFINE f == FormatOf(w)
<1>1. /\ World /\ UNCHANGED <<out, errors, lost, pending>> /\ up /\ pc[w] = "unlink"
      /\ errors \in Nat /\ errors <= errors
  BY CompressAssumption DEF Unlink, World, At, trail, bounds, TInv, FlagTypes
<1>2. pc[w] \in HasTodo /\ pc[w] \in Streaming /\ pc[w] \in Starting
  BY <1>1 DEF HasTodo, Starting, Streaming
<1>3. Workers \ {w} = {} /\ f \in Formats /\ f \in Left(w)
  BY <1>2, Alone, AtFormat
<1>4. ~OnCourse(w) /\ \A g \in Formats : ~Doubts(w, g)
  BY <1>1 DEF OnCourse, Doubts, Publishing
<1>5. Moves(w, "create", snap[w], content[w], todo[w], ok[w])
  BY GotoMoves DEF Unlink
<1>6. f' = f /\ Left(w)' = Left(w)
  BY <1>5 DEF Moves, FormatOf, Left, Elements
<1>7. tmp'[f] = None /\ \A g \in Formats \ {f} : tmp'[g] = tmp[g]
  BY <1>3 DEF Unlink, TInv, FileTypes, FormatOf
<1>8. Knows(w)'
  BY <1>1, <1>2, <1>5
  DEF SInv, World, Now, Sole, Streamed, Moves, Knows, Starting, Publishing, Streaming, CommittedPCs
<1>9. Holds(w)'
  <2>1. ok[w] \cap Left(w) = {} /\ ok[w] \subseteq Formats /\ \A g \in ok[w] : Mine(w, g)
    BY <1>1, <1>2 DEF SInv, Holds, TInv, LocalTypes
  <2>2. \A g \in ok[w] : Mine(w, g)'
    BY <1>3, <1>7, <2>1 DEF Mine
  <2> QED
    BY <1>5, <1>6, <1>7, <2>1, <2>2 DEF Moves, Holds, Starting, Publishing
<1>10. Published(w)'
  BY <1>1, <1>2, <1>5 DEF SInv, Moves, Published, NotPast, Starting, Publishing
<1>11. \A g \in Formats : StillOwned(w, g)
  BY <1>2, <1>5, <1>7 DEF StillOwned, Owns, Moves, Starting
<1>12. Whole' /\ \A g \in Formats : /\ StillChecked(w, g) /\ StillGoing(w, g)
                                    /\ CopyOf(g, src)' <=> CopyOf(g, src)
  BY <1>1, <1>4, SameCopies
<1>13. \A g \in Enabled : StillComing(w, g)
  <2>1. \A g : Makes(w, g) => Makes(w, g)'
    BY <1>1, <1>5, <1>6 DEF Makes, Moves, World
  <2> QED
    BY <1>4, <1>12, <2>1, CompressAssumption DEF StillComing
<1> HIDE DEF f
<1> QED
  BY <1>1, <1>3, <1>7, <1>8, <1>9, <1>10, <1>11, <1>12, <1>13, SoleStep

LEMMA CreateStep ==
  ASSUME TInv, SInv, NEW w \in Workers, Create(w)
  PROVE  SInv'
<1> DEFINE f == FormatOf(w)
           S == ok[w] \cup {f}
<1>1. /\ World /\ UNCHANGED <<out, errors, lost, pending>> /\ up /\ pc[w] = "create"
      /\ errors \in Nat /\ errors <= errors
  BY CompressAssumption DEF Create, World, At, trail, bounds, TInv, FlagTypes
<1>2. pc[w] \in HasTodo /\ pc[w] \in Streaming /\ pc[w] \in Starting
  BY <1>1 DEF HasTodo, Starting, Streaming
<1>3. /\ Workers \ {w} = {} /\ f \in Formats /\ f \in Left(w) /\ Sole
      /\ todo[w] \in OrderSet /\ todo[w] # <<>> /\ Elements(Tail(todo[w])) = Left(w) \ {f}
      /\ Tail(todo[w]) \in OrderSet /\ (~(Len(todo[w]) > 1) => Left(w) \ {f} = {})
  BY <1>2, Alone, AtFormat
<1>4. ~OnCourse(w) /\ \A g \in Formats : ~Doubts(w, g)
  BY <1>1 DEF OnCourse, Doubts, Publishing
<1>5. tmp' = [tmp EXCEPT ![f] = NewTmp(w)] /\ Started(w, S)
  BY <1>1 DEF SInv, Holds, Create, CanCreate, FormatOf
<1>6. PICK p \in {"unlink", "chunk1"}, t \in OrderSet :
         /\ Moves(w, p, snap[w], content[w], t, S) /\ Elements(t) = Left(w) \ {f}
         /\ p = "chunk1" => Left(w) \ {f} = {}
  <2>1. CASE Len(todo[w]) > 1
    <3>1. Moves(w, "unlink", snap[w], content[w], Tail(todo[w]), S)
      BY <1>5, <2>1 DEF Started, Goto, Moves, Stays, TInv, LocalTypes
    <3> QED
      BY <1>3, <3>1
  <2>2. CASE ~(Len(todo[w]) > 1)
    <3>1. Moves(w, "chunk1", snap[w], content[w], <<>>, S)
      BY <1>5, <2>2 DEF Started, Goto, Moves, Stays, TInv, LocalTypes
    <3>2. <<>> \in OrderSet /\ Elements(<<>>) = {}
      BY OrderFacts DEF OrderSet
    <3> QED
      BY <1>3, <2>2, <3>1, <3>2
  <2> QED
    BY <2>1, <2>2
<1>7. Left(w)' = Left(w) \ {f} /\ p \in Starting
  BY <1>6 DEF Moves, Left, Elements, Starting
<1>8. /\ tmp'[f] = NewTmp(w) /\ NewTmp(w) # None /\ NewTmp(w).owner = w
      /\ \A g \in Formats \ {f} : tmp'[g] = tmp[g]
  BY <1>3, <1>5, FileRecords DEF NewTmp, TInv, FileTypes
<1>9. Knows(w)'
  BY <1>1, <1>2, <1>6
  DEF SInv, World, Now, Sole, Streamed, Moves, Knows, Starting, Publishing, Streaming, CommittedPCs
<1>10. Holds(w)'
  <2>1. ok[w] \cap Left(w) = {} /\ ok[w] \subseteq Formats /\ \A g \in ok[w] : Mine(w, g)
    BY <1>1, <1>2 DEF SInv, Holds, TInv, LocalTypes
  <2>2. \A g \in S : tmp'[g] # None /\ tmp'[g].owner = w
    BY <1>3, <1>8, <2>1 DEF Mine
  <2>3. S \cap (Left(w) \ {f}) = {}
    BY <2>1
  <2>4. pc'[w] = p /\ ok'[w] = S
    BY <1>6 DEF Moves
  <2> HIDE DEF S, f
  <2>5. (\A g \in ok[w] : Mine(w, g))'
    BY <2>2, <2>4 DEF Mine
  <2>6. (ok[w] \cap Left(w) = {})'
    BY <1>7, <2>3, <2>4
  <2> QED
    BY <1>6, <2>4, <2>5, <2>6 DEF Holds, Starting, Publishing
<1>11. Published(w)'
  BY <1>1, <1>2, <1>6 DEF SInv, Moves, Published, NotPast, Starting, Publishing
<1>12. \A g \in Formats : StillOwned(w, g)
  <2>1. pc'[w] = p /\ ok'[w] = S
    BY <1>6 DEF Moves
  <2>2. ASSUME NEW g \in Formats, g \in S PROVE Owns(w, g)'
    BY <1>7, <2>1, <2>2 DEF Owns
  <2>3. ASSUME NEW g \in Formats, g \notin S PROVE tmp'[g] = tmp[g] /\ ~Owns(w, g)
    BY <1>1, <1>8, <2>3 DEF Owns
  <2> QED
    BY <2>2, <2>3 DEF StillOwned
<1>13. Whole' /\ \A g \in Formats : /\ StillChecked(w, g) /\ StillGoing(w, g)
                                    /\ CopyOf(g, src)' <=> CopyOf(g, src)
  BY <1>1, <1>4, SameCopies
<1>14. \A g \in Enabled : StillComing(w, g)
  <2>1. pc'[w] = p /\ ok'[w] = S /\ snap'[w] = snap[w] /\ src' = src
    BY <1>1, <1>6 DEF Moves, World
  <2>2. \A g : Makes(w, g) => Makes(w, g)'
    BY <1>1, <1>6, <1>7, <2>1 DEF Makes
  <2> QED
    BY <1>4, <1>13, <2>2, CompressAssumption DEF StillComing
<1> HIDE DEF f, S
<1> QED
  BY <1>1, <1>3, <1>8, <1>9, <1>10, <1>11, <1>12, <1>13, <1>14, SoleStep

LEMMA NextFlushDoes ==
  ASSUME TInv, SInv, World, NEW w \in Workers, pc[w] \in {"flush", "publish"},
         NEW S \in SUBSET Formats, NextFlush(w, S)
  PROVE  /\ pc'[w] \in {"flush", "scheck"} /\ ok'[w] = S /\ snap'[w] = snap[w]
         /\ content'[w] = content[w]
         /\ Left(w)' = Left(w) \ {FormatOf(w)} /\ Knows(w)'
         /\ pc'[w] = "scheck" => Left(w)' = {}
<1>1. pc[w] \in HasTodo /\ pc[w] \in Streaming
  BY DEF HasTodo, Publishing, Streaming
<1>2. PICK p \in {"flush", "scheck"} :
         /\ Moves(w, p, snap[w], content[w], Tail(todo[w]), S)
         /\ p = "scheck" => ~(Len(todo[w]) > 1)
  <2>1. CASE Len(todo[w]) > 1
    <3>1. Moves(w, "flush", snap[w], content[w], Tail(todo[w]), S)
      BY <2>1 DEF NextFlush, Goto, Moves, Stays, TInv, LocalTypes
    <3> QED
      BY <3>1
  <2>2. CASE ~(Len(todo[w]) > 1)
    <3>1. Moves(w, "scheck", snap[w], content[w], Tail(todo[w]), S)
      BY <2>2 DEF NextFlush, Goto, Moves, Stays, TInv, LocalTypes
    <3> QED
      BY <2>2, <3>1
  <2> QED
    BY <2>1, <2>2
<1>3. Left(w)' = Left(w) \ {FormatOf(w)}
  <2>1. todo'[w] = Tail(todo[w])
    BY <1>2 DEF Moves
  <2>2. Elements(Tail(todo[w])) = Left(w) \ {FormatOf(w)}
    BY <1>1, AtFormat
  <2> QED
    BY <2>1, <2>2 DEF Left, Elements
<1>4. p = "scheck" => Left(w)' = {}
  BY <1>1, <1>2, <1>3, AtFormat
<1>5. Knows(w)'
  BY <1>1, <1>2, <1>4, AtFormat
  DEF SInv, World, Now, Sole, Streamed, Moves, Knows, Starting, Publishing, Streaming, CommittedPCs
<1> QED
  BY <1>2, <1>3, <1>4, <1>5 DEF Moves

LEMMA FlushStep ==
  ASSUME TInv, SInv, NEW w \in Workers, Flush(w)
  PROVE  SInv'
<1> DEFINE f == FormatOf(w)
<1>1. /\ World /\ pending' = pending /\ lost \subseteq lost' /\ up /\ pc[w] = "flush"
      /\ errors \in Nat /\ errors' \in Nat /\ errors <= errors'
  BY CompressAssumption DEF Flush, World, At, trail, TInv, FlagTypes, CallFails
<1>2. pc[w] \in HasTodo /\ pc[w] \in Streaming /\ pc[w] \in Publishing
  BY <1>1 DEF HasTodo, Publishing, Streaming
<1>3. /\ Workers \ {w} = {} /\ f \in Formats /\ f \in Left(w) /\ Left(w) \subseteq Formats
      /\ Mine(w, f) /\ \A g \in Left(w) : Mine(w, g)
  BY <1>1, <1>2, Alone, AtFormat DEF SInv, Holds
<1>4. ~OnCourse(w) /\ out' = out
  BY <1>1, <1>3, OwnedWrite DEF OnCourse, Flush, FormatOf
<1>5. CASE /\ tmp' = WriteOwned(w, tmp, f, FullFile(w)) /\ Goto(w, "publish")
           /\ UNCHANGED <<snap, content, todo, ok, lost, errors>>
  <2>1. Moves(w, "publish", snap[w], content[w], todo[w], ok[w])
    BY <1>5, GotoMoves
  <2>2. f' = f /\ Left(w)' = Left(w)
    BY <2>1 DEF Moves, FormatOf, Left, Elements
  <2>3. /\ tmp'[f] = [FullFile(w) EXCEPT !.uid = tmp[f].uid] /\ tmp[f].uid \in Uids
        /\ \A g \in Formats \ {f} : tmp'[g] = tmp[g]
    <3>1. tmp[f] \in File
      BY <1>3 DEF Mine, TInv, FileTypes
    <3>2. tmp' = [tmp EXCEPT ![f] = [FullFile(w) EXCEPT !.uid = tmp[f].uid]]
      BY <1>3, <1>5, OwnedWrite
    <3>3. tmp \in [Formats -> File \cup {None}] /\ tmp[f].uid \in Uids
      BY <3>1 DEF TInv, FileTypes, File
    <3> QED
      BY <1>3, <3>2, <3>3
  <2>4. Knows(w)'
    BY <1>1, <1>2, <2>1
    DEF SInv, World, Now, Sole, Streamed, Moves, Knows, Starting, Publishing, Streaming, CommittedPCs
  <2>5. Holds(w)'
    <3>1. Written(w, f)'
      <4>1. /\ tmp'[f] # None /\ tmp'[f].owner = None /\ tmp'[f].complete
            /\ tmp'[f].content = content[w] /\ tmp'[f].mtime = Now /\ Now \in Nat
        BY <1>3, <2>3, FullFileIs
      <4>2. Now' = Now /\ content'[w] = content[w] /\ f' = f
        BY <1>1, <2>1, <2>2 DEF World, Now, Moves
      <4> QED
        BY <4>1, <4>2 DEF Written
    <3>2. \A g \in Left(w) \ {f} : Mine(w, g)'
      BY <1>3, <2>3 DEF Mine
    <3> QED
      BY <2>1, <2>2, <3>1, <3>2 DEF Moves, Holds, Starting, Publishing
  <2>6. Published(w)'
    BY <1>1, <1>2, <1>4, <2>1, <2>2
    DEF SInv, Moves, Published, NotPast, Current, Starting, Publishing, World
  <2>7. \A g \in Formats : (Owns(w, g) <=> Owns(w, g)') /\ (Doubts(w, g) <=> Doubts(w, g)')
    BY <1>1, <2>1, <2>2 DEF Owns, Doubts, Moves, World, Publishing, Starting
  <2>8. \A g \in Formats : StillOwned(w, g)
    BY <1>3, <2>3, <2>7 DEF StillOwned, Mine
  <2>9. Whole' /\ \A g \in Formats : /\ StillChecked(w, g) /\ StillGoing(w, g)
                                     /\ CopyOf(g, src)' <=> CopyOf(g, src)
    BY <1>1, <1>4, <2>7, SameCopies
  <2>10. \A g \in Enabled : StillComing(w, g)
    <3>1. \A g : Makes(w, g) => Makes(w, g)'
      BY <1>1, <2>1, <2>2 DEF Makes, Moves, World
    <3> QED
      BY <1>4, <2>9, <3>1, CompressAssumption DEF StillComing
  <2> HIDE DEF f
  <2> QED
    BY <1>1, <1>3, <2>3, <2>4, <2>5, <2>6, <2>8, <2>9, <2>10, SoleStep
<1>6. CASE /\ errors' = errors + 1 /\ NextFlush(w, ok[w] \ {f}) /\ tmp' = tmp
  <2>1. ok[w] \ {f} \in SUBSET Formats
    BY DEF TInv, LocalTypes
  <2>2. /\ pc'[w] \in {"flush", "scheck"} /\ ok'[w] = ok[w] \ {f} /\ snap'[w] = snap[w]
        /\ Left(w)' = Left(w) \ {f} /\ Knows(w)' /\ (pc'[w] = "scheck" => Left(w)' = {})
    BY <1>1, <1>6, <2>1, NextFlushDoes
  <2>3. Holds(w)'
    <3>1. \A g \in Left(w)' : Mine(w, g)'
      BY <1>3, <1>6, <2>2 DEF Mine
    <3> QED
      BY <2>2, <3>1 DEF Holds, Starting, Publishing
  <2>4. Published(w)'
    <3>1. \A g \in ok'[w] \ (Left(w)') : g \in ok[w] \ Left(w)
      BY <2>2
    <3>2. \A g \in Left(w)' : NotPast(w, g)'
      BY <1>1, <1>4, <2>2 DEF SInv, Published, NotPast
    <3>3. snap[w] = src => \A g \in ok'[w] \ (Left(w)') : Current(g)'
      BY <1>1, <1>2, <1>4, <3>1 DEF SInv, Published, Current, World
    <3> QED
      BY <1>1, <2>2, <3>2, <3>3 DEF Published, Starting, Publishing, World
  <2>5. ~Calm' /\ ~Undisturbed'
    <3>1. errors' # 0
      BY <1>1, <1>6
    <3>2. ~OneShotOnly
      <4>1. Streamed(snap[w]) /\ snap[w] \in 1..Now
        BY <1>2 DEF SInv, Knows
      <4>2. snap[w] \in 1..MaxVersions
        BY <4>1, CompressAssumption DEF TInv, HistTypes, Now
      <4> QED
        BY <4>1, <4>2 DEF OneShotOnly
    <3> QED
      BY <3>1, <3>2 DEF Calm, Undisturbed, OneShotOnly, Streamed
  <2>6. \A g \in Formats : Doubts(w, g) => Doubts(w, g)'
    BY <1>1, <2>2 DEF Doubts, Publishing, World
  <2>7. Whole' /\ \A g \in Formats : StillChecked(w, g)
    BY <1>1, <1>4, <2>6, SameCopies
  <2> HIDE DEF f
  <2> QED
    BY <1>1, <1>3, <1>6, <2>2, <2>3, <2>4, <2>5, <2>7, SoleStep
<1> QED
  BY <1>5, <1>6 DEF Flush, FormatOf, CallFails

LEMMA PublishStep ==
  ASSUME TInv, SInv, NEW w \in Workers, Publish(w)
  PROVE  SInv'
<1> DEFINE f == FormatOf(w)
<1>1. /\ World /\ UNCHANGED <<errors, lost, pending>> /\ up /\ pc[w] = "publish"
      /\ errors \in Nat /\ errors <= errors
  BY CompressAssumption DEF Publish, World, At, trail, bounds, TInv, FlagTypes
<1>2. pc[w] \in HasTodo /\ pc[w] \in Streaming /\ pc[w] \in Publishing
  BY <1>1 DEF HasTodo, Publishing, Streaming
<1>3. /\ Workers \ {w} = {} /\ Sole /\ f \in Formats /\ f \in Left(w) /\ Left(w) \subseteq Formats
      /\ Written(w, f) /\ \A g \in Left(w) \ {f} : Mine(w, g)
  BY <1>1, <1>2, Alone, AtFormat DEF SInv, Holds
<1>4. ~OnCourse(w)
  BY <1>1 DEF OnCourse
<1>5. Move(f) /\ NextFlush(w, ok[w])
  BY <1>3 DEF Publish, Written, FormatOf
<1>6. ok[w] \in SUBSET Formats
  BY DEF TInv, LocalTypes
<1>7. /\ pc'[w] \in {"flush", "scheck"} /\ ok'[w] = ok[w] /\ snap'[w] = snap[w]
      /\ Left(w)' = Left(w) \ {f} /\ Knows(w)' /\ (pc'[w] = "scheck" => Left(w)' = {})
  BY <1>1, <1>5, <1>6, NextFlushDoes
<1>8. /\ out'[f] = tmp[f] /\ tmp'[f] = None
      /\ \A g \in Formats \ {f} : out'[g] = out[g] /\ tmp'[g] = tmp[g]
  BY <1>3, <1>5 DEF Move, TInv, FileTypes
<1>9. /\ snap[w] \in 1..Now /\ Streamed(snap[w]) /\ Now \in Nat
      /\ content[w] # {} /\ content[w] \subseteq snap[w]..Now
  BY <1>2 DEF SInv, Knows, TInv, HistTypes, Now
<1>10. /\ out'[f] # None /\ out'[f].complete /\ out'[f].owner = None
       /\ out'[f].content = content[w] /\ out'[f].mtime <= Now
  BY <1>3, <1>8 DEF Written
<1>11. snap[w] = src => content[w] = {src} /\ src = Now /\ ~BelowMin(src)
  <2>1. snap[w] = src => src = Now
    BY <1>9 DEF SInv, History
  <2>2. Streamed(snap[w]) => ~BelowMin(snap[w])
    BY DEF Streamed, BelowMin
  <2> QED
    BY <1>9, <2>1, <2>2
<1>12. Whole'
  <2>1. content[w] \subseteq 1..Now
    BY <1>9
  <2> QED
    BY <1>1, <1>8, <1>10, <2>1 DEF SInv, Whole, World, Now
<1>13. \A g \in Formats : Doubts(w, g)' <=> snap[w] # src
  BY <1>1, <1>7 DEF Doubts, Publishing, World
<1>14. \A g \in Formats : StillChecked(w, g)
  <2>1. snap[w] = src => \A g \in Formats : g = f => Sound(g)'
    BY <1>1, <1>9, <1>10, <1>11 DEF Sound, World, Now, BelowMin
  <2>2. snap[w] = src => \A g \in Formats : ~Doubts(w, g)
    BY <1>1 DEF Doubts
  <2> QED
    BY <1>3, <1>8, <1>13, <2>1, <2>2 DEF StillChecked
<1>15. Holds(w)'
  <2>1. \A g \in Left(w)' : tmp'[g] # None /\ tmp'[g].owner = w
    BY <1>3, <1>7, <1>8 DEF Mine
  <2>2. (\A g \in Left(w) : Mine(w, g))'
    BY <2>1 DEF Mine
  <2> QED
    BY <1>7, <2>2 DEF Holds, Starting, Publishing
<1>16. Published(w)'
  <2>1. \A g \in Left(w)' : NotPast(w, g)'
    BY <1>1, <1>3, <1>7, <1>8 DEF SInv, Published, NotPast
  <2>2. ASSUME snap[w] = src, NEW g \in ok[w] \ (Left(w) \ {f})
        PROVE  out'[g] # None /\ out'[g].content = {src}
    <3>1. CASE g = f
      BY <1>10, <1>11, <2>2, <3>1
    <3>2. CASE g # f
      <4>1. Current(g)
        BY <1>1, <1>2, <2>2, <3>2 DEF SInv, Published
      <4> QED
        BY <1>6, <1>8, <3>2, <4>1 DEF Current
    <3> QED
      BY <3>1, <3>2
  <2>3. (snap[w] = src => \A g \in ok[w] \ Left(w) : Current(g))'
    BY <1>1, <1>7, <2>2 DEF Current, World
  <2> QED
    BY <1>7, <2>1, <2>3 DEF Published, Starting, Publishing
<1>17. \A g \in Formats : StillOwned(w, g)
  <2>1. ASSUME NEW g \in Formats, g # f, tmp'[g] # None, Owns(w, g) PROVE Owns(w, g)'
    <3>1. g \in Left(w)
      BY <1>1, <2>1 DEF Owns, Starting
    <3>2. g \in Left(w)'
      BY <1>7, <2>1, <3>1
    <3> QED
      BY <1>7, <3>2 DEF Owns
  <2> QED
    BY <1>8, <2>1 DEF StillOwned
<1>18. Idle => \A g \in Formats : StillGoing(w, g)
  <2>1. Idle => snap[w] # src
    BY <1>9, <1>11 DEF Idle
  <2> QED
    BY <1>13, <2>1 DEF StillGoing
<1>19. \A g \in Enabled : StillComing(w, g)
  <2> SUFFICES ASSUME NEW g \in Enabled PROVE StillComing(w, g)
    OBVIOUS
  <2>1. CASE snap[w] = src /\ g = f
    BY <1>1, <1>10, <1>11, <2>1 DEF StillComing, CopyOf, World
  <2>2. CASE snap[w] = src /\ g # f /\ g \in Left(w)
    <3>1. Makes(w, g)'
      BY <1>1, <1>7, <2>2 DEF Makes, World
    <3> QED
      BY <3>1 DEF StillComing
  <2>3. CASE snap[w] = src /\ g \notin Left(w)
    <3>1. ~Makes(w, g) /\ out'[g] = out[g]
      BY <1>1, <1>3, <1>8, <2>3, CompressAssumption DEF Makes
    <3> QED
      BY <1>1, <1>4, <3>1 DEF StillComing, CopyOf, World
  <2>4. CASE snap[w] # src /\ g # f
    <3>1. ~Makes(w, g) /\ out'[g] = out[g]
      BY <1>1, <1>3, <1>8, <2>4, CompressAssumption DEF Makes
    <3> QED
      BY <1>1, <1>4, <3>1 DEF StillComing, CopyOf, World
  <2>5. CASE snap[w] # src /\ g = f /\ ~CopyOf(g, src)
    <3>1. ~Makes(w, g)
      BY <1>1, <2>5 DEF Makes
    <3> QED
      BY <1>4, <2>5, <3>1 DEF StillComing
  <2>6. CASE snap[w] # src /\ g = f /\ CopyOf(g, src)
    <3>1. src = Now \/ src = 0
      BY DEF SInv, History
    <3>2. NotPast(w, f)
      BY <1>1, <1>3 DEF SInv, Published
    <3>3. src \in 1..snap[w]
      BY <2>6, <3>2 DEF CopyOf, NotPast
    <3> QED
      BY <1>9, <2>6, <3>1, <3>3
  <2> QED
    BY <2>1, <2>2, <2>3, <2>4, <2>5, <2>6
<1> HIDE DEF f
<1> QED
  BY <1>1, <1>3, <1>7, <1>8, <1>12, <1>14, <1>15, <1>16, <1>17, <1>18, <1>19, SoleStep

LEMMA StreamMetaStep ==
  ASSUME TInv, SInv, NEW w \in Workers, StreamMeta(w)
  PROVE  SInv'
<1>1. /\ World /\ UNCHANGED <<tmp, errors, lost, pending>> /\ up /\ pc[w] = "smeta"
      /\ errors \in Nat /\ errors <= errors /\ CopyMtime(FormatOf(w))
  BY CompressAssumption DEF StreamMeta, World, At, trail, bounds, TInv, FlagTypes, FormatOf
<1>2. pc[w] \in CommittedPCs /\ pc[w] \in HasTodo
  BY <1>1 DEF CommittedPCs, HasTodo
<1>3. /\ Workers \ {w} = {} /\ ~OnCourse(w) /\ \A g \in Formats : ~Makes(w, g)
      /\ Tail(todo[w]) \in OrderSet /\ Elements(Tail(todo[w])) = Left(w) \ {FormatOf(w)}
      /\ Left(w) \subseteq Formats
  BY <1>1, <1>2, Alone, AtFormat DEF OnCourse, Makes
<1>4. /\ Whole' /\ (Calm' => ~Idle)
      /\ ~cut /\ ~kept' => \A g \in Formats : StillChecked(w, g)
      /\ \A g \in Formats : /\ StillOwned(w, g)
                            /\ out[g] = None => out'[g] = None
                            /\ Current(g) => Current(g)'
                            /\ CopyOf(g, src) => CopyOf(g, src)'
  BY <1>1, MetaFiles
<1>5. Knows(w)' /\ Holds(w)' /\ Published(w)'
  <2>1. CASE Phase(w, "smeta", Tail(todo[w]))
    <3>1. Moves(w, "smeta", snap[w], content[w], Tail(todo[w]), ok[w])
      BY <2>1, PhaseMoves
    <3>2. Left(w)' = Left(w) \ {FormatOf(w)}
      BY <1>3, <3>1 DEF Moves, Left, Elements
    <3>3. Knows(w)'
      BY <1>1, <1>2, <1>3, <3>1
      DEF SInv, World, Now, Sole, BelowMin, Moves, Knows, Starting, Publishing, Streaming,
          CommittedPCs
    <3>4. Holds(w)'
      BY <3>1 DEF Moves, Holds, Starting, Publishing
    <3>5. ~late => \A g \in Left(w)' : out'[g] = None \/ Current(g)'
      BY <1>1, <1>3, <1>4, <3>2 DEF SInv, Published
    <3>6. Published(w)'
      BY <1>1, <3>1, <3>5 DEF World, Moves, Published, Starting, Publishing
    <3> QED
      BY <3>3, <3>4, <3>6
  <2>2. CASE Return(w)
    BY <2>2, ReturnMoves, AtRest
  <2> QED
    BY <2>1, <2>2 DEF StreamMeta
<1>6. \A g \in Enabled : StillComing(w, g)
  BY <1>3, <1>4, CompressAssumption DEF StillComing
<1>7. "gz" \in Formats
  BY DEF Formats
<1> QED
  BY <1>1, <1>3, <1>4, <1>5, <1>6, <1>7, SoleStep

LEMMA RemoveOneStep ==
  ASSUME TInv, SInv, NEW w \in Workers, Remove(w)
  PROVE  SInv'
<1> DEFINE f == FormatOf(w)
<1>1. /\ World /\ UNCHANGED <<tmp, lost>> /\ up /\ pc[w] = "remove"
      /\ errors \in Nat /\ errors' \in Nat /\ errors <= errors' /\ pending \subseteq pending'
  BY CompressAssumption DEF Remove, CallFails, World, At, trail, TInv, FlagTypes
<1>2. pc[w] \in HasTodo
  BY <1>1 DEF HasTodo
<1>3. /\ f \in Formats /\ f \in Left(w) /\ Left(w) \subseteq Formats /\ Tail(todo[w]) \in OrderSet
      /\ Elements(Tail(todo[w])) = Left(w) \ {f} /\ (~(Len(todo[w]) > 1) => Left(w) \ {f} = {})
  BY <1>2, AtFormat
<1>4. ~OnCourse(w) /\ \A g \in Formats : ~Makes(w, g) /\ ~Owns(w, g)
  BY <1>1 DEF OnCourse, Makes, Owns, Starting
<1>5. /\ \A g \in Formats \ {f} : out'[g] = out[g]
      /\ out'[f] = None \/ (out'[f] = out[f] /\ kept')
      /\ out[f] # None /\ ~kept' => "compress" \in pending'
  BY <1>3 DEF Remove, FormatOf, TInv, FileTypes
<1>6. /\ Knows(w)' /\ Holds(w)' /\ Published(w)'
      /\ \A v \in Workers \ {w} : Stays(v)
      /\ pc'[w] \in {"remove", "idle"}
      /\ \A g \in Left(w) \ {f} : Doubts(w, g)'
  <2>1. CASE Len(todo[w]) > 1
    <3>1. Moves(w, "remove", Seen(w), content[w], Tail(todo[w]), ok[w])
      BY <2>1 DEF Remove, NextRemoval, Goto, Moves, Stays, TInv, LocalTypes
    <3>2. Left(w)' = Left(w) \ {f}
      BY <1>3, <3>1 DEF Moves, Left, Elements
    <3>3. \A g \in Left(w) \ {f} : Doubts(w, g)'
      BY <3>1, <3>2 DEF Doubts, Moves
    <3> QED
      BY <1>3, <3>1, <3>3, AtRemove DEF Moves
  <2>2. CASE ~(Len(todo[w]) > 1)
    <3>1. Moves(w, "idle", 0, {}, <<>>, {})
      BY <2>2, ReturnMoves DEF Remove, NextRemoval
    <3> QED
      BY <1>3, <2>2, <3>1, AtRest DEF Moves
  <2> QED
    BY <2>1, <2>2
<1>7. \A g \in Formats : Doubts(w, g) => g \in Left(w)
  BY <1>1 DEF Doubts, Publishing
<1>8. Whole'
  BY <1>1, <1>5 DEF SInv, Whole, World, Now
<1>9. \A g \in Formats : Harmless(g) /\ StillOwned(w, g)
  BY <1>1, <1>4, <1>5 DEF Harmless, StillOwned
<1>10. ~kept' => \A g \in Formats : StillChecked(w, g)
  <2>1. ~kept' => \A g \in Formats : g = f => Sound(g)'
    BY <1>5 DEF Sound
  <2> QED
    BY <1>5, <1>6, <1>7, <2>1 DEF StillChecked
<1>11. ~kept' => \A g \in Formats : StillGoing(w, g)
  BY <1>4, <1>5, <1>6, <1>7 DEF StillGoing
<1>12. ~kept' => \A g \in Enabled : StillComing(w, g)
  <2> SUFFICES ASSUME ~kept', NEW g \in Enabled PROVE StillComing(w, g)
    OBVIOUS
  <2>1. CASE g = f /\ out[f] # None
    BY <1>5, <2>1 DEF StillComing
  <2>2. CASE g # f \/ out[f] = None
    <3>1. out'[g] = out[g]
      BY <1>5, <2>2, CompressAssumption
    <3> QED
      BY <1>1, <1>4, <3>1, CompressAssumption DEF StillComing, CopyOf, World
  <2> QED
    BY <2>1, <2>2
<1>13. OneWriter'
  BY <1>6, OneWriterStep DEF SInv
<1>14. \A v \in Workers : pc'[v] # "idle" => up
  BY <1>1
<1>15. Calm' => ~kept'
  BY DEF Calm
<1> HIDE DEF f
<1> QED
  BY <1>1, <1>3, <1>6, <1>8, <1>9, <1>10, <1>11, <1>12, <1>13, <1>14, <1>15, WorkerStep
-----------------------------------------------------------------------------
(* Users, crashes, restarts *)

LEMMA InitSInv == Init => SInv
<1> SUFFICES ASSUME Init PROVE SInv
  OBVIOUS
<1> USE DEF Init
<1>1. Now = 1 /\ Len(hist) = 1 /\ hist[1].ino = 1 /\ hist[1].mtime = 1
  BY DEF Now
<1>2. History
  <2>1. Ino(1) = 1 /\ Mtime(1) = 1
    BY <1>1 DEF Ino, Mtime
  <2> QED
    BY <1>1, <2>1 DEF History
<1>3. ASSUME NEW w \in Workers PROVE Knows(w) /\ Holds(w) /\ Published(w)
  <2>1. pc[w] = "idle" /\ todo[w] = <<>> /\ ok[w] = {}
    OBVIOUS
  <2>2. Knows(w)
    BY <2>1 DEF Knows, OrderSet, Starting, Publishing, Streaming, CommittedPCs
  <2> QED
    BY <2>1, <2>2 DEF Holds, Published, Starting, Publishing
<1>4. OneWriter /\ Whole /\ Checked /\ Crashes /\ TmpOwned
  BY DEF OneWriter, Whole, Checked, Sound, Crashes, TmpOwned
<1>5. Progress
  BY DEF Progress, Coming
<1> QED
  BY <1>2, <1>3, <1>4, <1>5 DEF SInv

\* What users do leaves the workers and the other files alone.
UserStep == UNCHANGED <<out, tmp, up, pc, snap, content, todo, ok, lost, cut,
                       kept, errors, crashes>>

LEMMA UserWorkers ==
  ASSUME TInv, SInv, UserStep, NEW w \in Workers,
         Now' \in Nat, Now <= Now', src' # src, src' = 0 \/ src' > Now,
         pc[w] \in CommittedPCs => late'
  PROVE  Knows(w)' /\ Holds(w)' /\ Published(w)'
<1> USE DEF UserStep
<1>1. Now \in Nat
  BY DEF TInv, HistTypes, Now
<1>2. Knows(w)'
  <2>1. Knows(w)
    BY DEF SInv
  <2>2. pc[w] \in {"read", "check"} \cup Streaming => snap'[w] \in 1..Now'
    BY <1>1, <2>1 DEF Knows
  <2>3. pc[w] \in {"check", "chunk2"} \cup Publishing =>
           content'[w] # {} /\ content'[w] \subseteq snap'[w]..Now'
    <3>1. pc[w] \in {"check", "chunk2"} \cup Publishing => snap[w] \in Nat
      BY <1>1, <2>1 DEF Knows, Starting, Publishing, Streaming
    <3> QED
      BY <1>1, <2>1, <3>1 DEF Knows
  <2>4. pc[w] \in CommittedPCs => \E m \in 1..Now' : content'[w] = {m}
    BY <1>1, <2>1 DEF Knows
  <2> HIDE DEF UserStep
  <2>5. /\ pc'[w] = pc[w] /\ todo'[w] = todo[w] /\ ok'[w] = ok[w] /\ snap'[w] = snap[w]
        /\ Left(w)' = Left(w)
    BY DEF UserStep, Left, Elements
  <2> HIDE DEF Now
  <2> QED
    BY <2>1, <2>2, <2>3, <2>4, <2>5 DEF Knows, Sole, Streamed
<1>3. Holds(w)'
  <2>1. Holds(w)
    BY DEF SInv
  <2>2. \A f : Mine(w, f)' <=> Mine(w, f)
    BY DEF Mine
  <2>3. \A f \in Formats : Written(w, f) => Written(w, f)'
    <3>1. ASSUME NEW f \in Formats, Written(w, f) PROVE tmp'[f].mtime <= Now'
      <4>1. tmp[f].mtime \in Nat /\ tmp[f].mtime <= Now
        BY <3>1, CompressAssumption DEF Written, TInv, FileTypes, File
      <4> QED
        BY <1>1, <4>1
    <3> QED
      BY <3>1 DEF Written
  <2>4. pc[w] \in {"rename", "publish"} => FormatOf(w) \in Formats
    BY AtFormat DEF HasTodo
  <2>5. FormatOf(w)' = FormatOf(w) /\ Left(w)' = Left(w)
    BY DEF FormatOf, Left, Elements
  <2> QED
    BY <2>1, <2>2, <2>3, <2>4, <2>5 DEF Holds
<1>4. Published(w)'
  <2>1. pc[w] \in Publishing => snap[w] # src'
    <3>1. pc[w] \in Publishing => snap[w] \in 1..Now
      BY DEF SInv, Knows, Streaming
    <3> QED
      BY <1>1, <3>1
  <2>2. pc[w] \in {"meta", "smeta"} => late'
    BY DEF CommittedPCs
  <2>3. /\ pc[w] \in Starting => \A f \in Formats : NotPast(w, f)'
        /\ pc[w] \in {"flush", "publish"} => \A f \in Left(w)' : NotPast(w, f)'
    BY DEF SInv, Published, NotPast, Left, Elements
  <2>4. pc'[w] = pc[w] /\ snap'[w] = snap[w]
    OBVIOUS
  <2> HIDE DEF UserStep
  <2> QED
    BY <2>1, <2>2, <2>3, <2>4 DEF Published
<1> QED
  BY <1>2, <1>3, <1>4

LEMMA UserShared ==
  ASSUME TInv, SInv, UserStep, History',
         Now' \in Nat, Now <= Now', src' # src, src' = 0 \/ src' > Now,
         late' = (late \/ Committed # {}), late' \in BOOLEAN, Progress'
  PROVE  SInv'
<1> USE DEF UserStep
<1>1. Now \in Nat
  BY DEF TInv, HistTypes, Now
<1>2. ASSUME NEW w \in Workers PROVE Knows(w)' /\ Holds(w)' /\ Published(w)'
  <2>1. pc[w] \in CommittedPCs => late'
    BY DEF Committed, CommittedPCs
  <2> QED
    BY <2>1, UserWorkers
<1>3. OneWriter'
  BY DEF SInv, OneWriter
<1>4. Whole'
  BY <1>1 DEF SInv, Whole
<1>5. Checked'
  <2> SUFFICES ASSUME ~cut, ~kept, NEW f \in Formats
               PROVE  Sound(f)' \/ (Sole /\ \E w \in Workers : Doubts(w, f)')
    BY DEF Checked, Sole
  <2>1. CASE Sound(f)
    <3>1. late => late'
      OBVIOUS
    <3> QED
      BY <1>1, <2>1, <3>1 DEF Sound, BelowMin
  <2>2. CASE ~Sound(f)
    <3>1. Sole /\ \E w \in Workers : Doubts(w, f)
      BY <2>2 DEF SInv, Checked
    <3>2. ASSUME NEW w \in Workers, Doubts(w, f) PROVE Doubts(w, f)'
      <4>1. pc[w] \in Publishing => snap[w] # src'
        <5>1. pc[w] \in Publishing => snap[w] \in 1..Now
          BY DEF SInv, Knows, Streaming
        <5> QED
          BY <1>1, <5>1
      <4> QED
        BY <3>2, <4>1 DEF Doubts, Left, Elements
    <3> QED
      BY <3>1, <3>2
  <2> QED
    BY <2>1, <2>2
<1>6. Crashes'
  BY DEF SInv, Crashes
<1>7. TmpOwned'
  BY DEF SInv, TmpOwned, Undisturbed, OneShotOnly, Streamed, Owns, FormatOf, Left, Elements
<1> QED
  BY <1>2, <1>3, <1>4, <1>5, <1>6, <1>7 DEF SInv

LEMMA NewVersionStep ==
  ASSUME TInv, SInv, NEW i \in 1..(Now + 1), NEW m \in {0, Now + 1}, NEW u,
         NewVersion(i, m, u), m = 0 => i = Now + 1
  PROVE  SInv'
<1>1. /\ hist' = Append(hist, [ino |-> i, mtime |-> m, uid |-> u]) /\ src' = Now + 1
      /\ late' = (late \/ Committed # {}) /\ UserStep
      /\ up => "compress" \in pending'
  BY DEF NewVersion, Disturb, Notice, UserStep, local, bounds
<1>2. Now \in Nat /\ Now = Len(hist) /\ src \in 0..Now
  BY DEF TInv, HistTypes, Now
<1>3. /\ Now' = Now + 1 /\ hist'[Now + 1] = [ino |-> i, mtime |-> m, uid |-> u]
      /\ \A n \in 1..Now : hist'[n] = hist[n]
  BY <1>1, <1>2, AppendProperties DEF TInv, HistTypes, Now
<1>4. History'
  <2> SUFFICES ASSUME NEW n \in 1..(Now + 1)
               PROVE  /\ hist'[n].ino \in 1..n /\ hist'[n].mtime \in {0, n}
                      /\ hist'[n].mtime = 0 => hist'[n].ino = n
    BY <1>1, <1>3 DEF History, Ino, Mtime
  <2>1. CASE n = Now + 1
    BY <1>2, <1>3, <2>1
  <2>2. CASE n # Now + 1
    <3>1. n \in 1..Now
      BY <1>2, <2>2
    <3> QED
      BY <1>3, <3>1 DEF SInv, History, Ino, Mtime
  <2> QED
    BY <2>1, <2>2
<1>5. late' \in BOOLEAN
  BY <1>1 DEF TInv, FlagTypes
<1>6. Progress'
  <2> SUFFICES ASSUME Calm' PROVE (\A f \in Formats : Going(f)') /\ (\A f \in Enabled : Coming(f)')
    BY DEF Progress
  <2>1. up
    BY <1>1 DEF SInv, Crashes, Calm, UserStep
  <2>2. "compress" \in pending' /\ src' # 0
    BY <1>1, <1>2, <2>1
  <2> QED
    BY <2>2 DEF Going, Coming
<1>7. Now' \in Nat /\ Now <= Now' /\ src' # src /\ src' > Now
  BY <1>1, <1>2, <1>3
<1> QED
  BY <1>1, <1>4, <1>5, <1>6, <1>7, UserShared

LEMMA UserSteps ==
  ASSUME TInv, SInv, Modify \/ Replace \/ ReplaceByOlder \/ Delete
  PROVE  SInv'
<1>1. Now \in Nat /\ Now = Len(hist) /\ src \in 0..Now
  BY DEF TInv, HistTypes, Now
<1>2. CASE Modify
  <2>1. src # 0 /\ NewVersion(Ino(src), Now + 1, Uid(src))
    BY <1>2 DEF Modify
  <2>2. Ino(src) \in 1..(Now + 1)
    <3>1. src \in 1..Now /\ Ino(src) \in 1..src
      BY <1>1, <2>1 DEF SInv, History
    <3> QED
      BY <1>1, <3>1
  <2> QED
    BY <1>1, <2>1, <2>2, NewVersionStep
<1>3. CASE Replace \/ ReplaceByOlder
  <2>1. \E u \in Users : NewVersion(Now + 1, Now + 1, u) \/ NewVersion(Now + 1, 0, u)
    BY <1>3 DEF Replace, ReplaceByOlder
  <2> QED
    BY <1>1, <2>1, NewVersionStep
<1>4. CASE Delete
  <2>1. /\ src # 0 /\ src' = 0 /\ hist' = hist /\ late' = (late \/ Committed # {}) /\ UserStep
        /\ up => "delete" \in pending'
    BY <1>4 DEF Delete, Disturb, Notice, UserStep, local, bounds
  <2>2. History' /\ Now' = Now
    BY <2>1 DEF SInv, History, Now, Ino, Mtime
  <2>3. late' \in BOOLEAN
    BY <2>1 DEF TInv, FlagTypes
  <2>4. Progress'
    <3> SUFFICES ASSUME Calm' PROVE \A f \in Formats : Going(f)'
      BY <2>1 DEF Progress, Idle
    <3>1. up
      BY <2>1 DEF SInv, Crashes, Calm, UserStep
    <3> QED
      BY <2>1, <3>1 DEF Going
  <2> QED
    BY <1>1, <2>1, <2>2, <2>3, <2>4, UserShared
<1> QED
  BY <1>2, <1>3, <1>4

LEMMA CrashStep ==
  ASSUME TInv, SInv, Crash
  PROVE  SInv'
<1>1. /\ UNCHANGED <<hist, src, late>> /\ crashes' # 0
      /\ \A w \in Workers : pc'[w] = "idle" /\ todo'[w] = <<>> /\ ok'[w] = {}
  BY CompressAssumption DEF Crash, TInv, FlagTypes
<1>2. \A f \in Formats : /\ out'[f] = None <=> out[f] = None
                         /\ out[f] # None => /\ out'[f].content = out[f].content
                                             /\ out'[f].complete = out[f].complete
                                             /\ out'[f].mtime = out[f].mtime
                                             /\ out'[f].owner = None
  <2> SUFFICES ASSUME NEW f \in Formats, out[f] # None
               PROVE  /\ out'[f] # None
                      /\ out'[f].content = out[f].content /\ out'[f].complete = out[f].complete
                      /\ out'[f].mtime = out[f].mtime /\ out'[f].owner = None
    BY DEF Crash, Disown
  <2>1. out[f] \in File
    BY DEF TInv, FileTypes
  <2>2. out'[f] = [out[f] EXCEPT !.owner = None]
    BY DEF Crash, Disown
  <2>3. [out[f] EXCEPT !.owner = None] \in File
    BY <2>1 DEF File
  <2> QED
    BY <2>1, <2>2, <2>3, NoneAssumption DEF File
<1>3. History'
  BY <1>1 DEF SInv, History, Now, Ino, Mtime
<1>4. ASSUME NEW w \in Workers PROVE Knows(w)' /\ Holds(w)' /\ Published(w)'
  <2>1. Knows(w)'
    BY <1>1 DEF Knows, OrderSet, Starting, Publishing, Streaming, CommittedPCs
  <2> QED
    BY <1>1, <2>1 DEF Holds, Published, Starting, Publishing
<1>5. OneWriter' /\ Crashes'
  BY <1>1 DEF OneWriter, Crashes
<1>6. TmpOwned' /\ Progress'
  BY <1>1 DEF TmpOwned, Undisturbed, Progress, Calm
<1>7. Whole'
  BY <1>1, <1>2 DEF SInv, Whole, Now
<1>8. Checked'
  <2> SUFFICES ASSUME ~cut', ~kept', NEW f \in Formats PROVE Sound(f)'
    BY DEF Checked
  <2>1. ~cut /\ ~kept /\ \A w \in Workers : pc[w] \notin Unchecked
    BY DEF Crash, TInv, FlagTypes
  <2>2. \A w \in Workers : ~Doubts(w, f)
    BY <2>1 DEF Doubts, Unchecked, Publishing
  <2>3. Sound(f)
    BY <2>1, <2>2 DEF SInv, Checked
  <2> QED
    BY <1>1, <1>2, <2>3 DEF Sound, Now, BelowMin
<1> QED
  BY <1>3, <1>4, <1>5, <1>6, <1>7, <1>8 DEF SInv

LEMMA RestartStep ==
  ASSUME TInv, SInv, Restart
  PROVE  SInv'
<1>1. /\ UNCHANGED <<hist, src, tmp, pc, snap, content, todo, ok, lost, late, cut, crashes>>
      /\ up' /\ (kept => kept')
      /\ \A w \in Workers : pc[w] = "idle"
      /\ crashes # 0
      /\ \A f \in Formats : out'[f] = None \/ out'[f] = out[f]
  BY DEF Restart, local, trail, bounds, SInv, Crashes
<1>2. History'
  BY <1>1 DEF SInv, History, Now, Ino, Mtime
<1>3. ASSUME NEW w \in Workers PROVE Knows(w)' /\ Holds(w)' /\ Published(w)'
  <2>1. todo[w] \in OrderSet /\ ok[w] = {}
    BY <1>1 DEF SInv, Knows
  <2>2. Knows(w)'
    BY <1>1, <2>1 DEF Knows, Starting, Publishing, Streaming, CommittedPCs
  <2> QED
    BY <1>1, <2>2 DEF Holds, Published, Starting, Publishing
<1>4. OneWriter' /\ Crashes'
  BY <1>1 DEF OneWriter, Crashes
<1>5. TmpOwned' /\ Progress'
  BY <1>1 DEF TmpOwned, Undisturbed, Progress, Calm
<1>6. Whole'
  BY <1>1 DEF SInv, Whole, Now
<1>7. Checked'
  <2> SUFFICES ASSUME ~cut, ~kept', NEW f \in Formats PROVE Sound(f)'
    BY <1>1 DEF Checked
  <2>1. Sound(f)
    BY <1>1 DEF SInv, Checked, Doubts, Publishing
  <2> QED
    BY <1>1, <2>1 DEF Sound, Now, BelowMin
<1> QED
  BY <1>2, <1>3, <1>4, <1>5, <1>6, <1>7 DEF SInv

LEMMA NextSInv ==
  ASSUME OneShotOnly \/ Sole
  PROVE  TInv /\ SInv /\ [Next]_vars => SInv'
<1> SUFFICES ASSUME TInv, SInv, [Next]_vars PROVE SInv'
  OBVIOUS
<1>1. CASE UNCHANGED vars
  <2> USE <1>1 DEF vars
  <2>1. History' /\ OneWriter' /\ Crashes'
    BY DEF SInv, History, OneWriter, Crashes, Now, Ino, Mtime
  <2>2. ASSUME NEW w \in Workers PROVE Knows(w)' /\ Holds(w)' /\ Published(w)'
    <3>1. Knows(w)'
      BY OthersKnow DEF SInv, World, Stays
    <3>2. Holds(w)'
      BY DEF SInv, Holds, Mine, Written, Now, Left, Elements, FormatOf
    <3>3. Published(w)'
      BY DEF SInv, Published, Current, NotPast, Left, Elements, FormatOf
    <3> QED
      BY <3>1, <3>2, <3>3
  <2>3. Whole' /\ Checked'
    BY DEF SInv, Whole, Checked, Sound, Doubts, Now, Left, Elements, BelowMin, Sole
  <2>4. TmpOwned'
    BY DEF SInv, TmpOwned, Undisturbed, OneShotOnly, Streamed, Owns, FormatOf, Left, Elements
  <2>5. /\ Calm' <=> Calm
        /\ Idle' <=> Idle
        /\ \A f : (CopyOf(f, src)' <=> CopyOf(f, src)) /\ out'[f] = out[f]
    BY DEF Calm, Idle, CopyOf, Mtime, BelowMin
  <2>6. ASSUME NEW w \in Workers, NEW f
        PROVE  /\ Doubts(w, f)' <=> Doubts(w, f)
               /\ OnCourse(w)' <=> OnCourse(w)
               /\ Makes(w, f)' <=> Makes(w, f)
    BY DEF Doubts, OnCourse, Makes, Left, Elements, FormatOf
  <2>7. \A f : (Going(f)' <=> Going(f)) /\ (Coming(f)' <=> Coming(f))
    BY <2>6 DEF Going, Coming
  <2>8. Progress'
    BY <2>5, <2>7 DEF SInv, Progress
  <2> QED
    BY <2>1, <2>2, <2>3, <2>4, <2>8 DEF SInv
<1>2. ASSUME NEW w \in Workers, Step(w) PROVE SInv'
  BY <1>2, BeginCompressStep, BeginDeleteStep, DecideStep, OpenStep, ReadStep, CheckStep,
     OpenTmpStep, FillStep, RenameStep, MetaStep, UnlinkStep, CreateStep, Chunk1Step, Chunk2Step,
     FlushStep, PublishStep, StreamCheckStep, StreamMetaStep, RemoveOneStep DEF Step
<1>3. CASE Next
  BY <1>2, <1>3, UserSteps, CrashStep, RestartStep DEF Next
<1> QED
  BY <1>1, <1>3

LEMMA SpecSInv == ASSUME OneShotOnly \/ Sole PROVE Spec => []SInv
BY SpecTypes, InitSInv, NextSInv, PTL DEF Spec
-----------------------------------------------------------------------------
(* What follows, if no version is streamed or one worker handles the file *)

\* Every published copy is whole at every moment, whatever is edited, fails or
\* crashes (the one-shot and the streaming branch of compress_task).
THEOREM CopiesAreWhole == ASSUME OneShotOnly \/ Sole PROVE Spec => []NoTornCopy
<1>1. SInv => NoTornCopy
  BY DEF SInv, Whole, NoTornCopy
<1> QED BY SpecSInv, <1>1, PTL

\* A one-shot temporary file has one writer (O_CREAT | O_EXCL of
\* write_compressed_output).
THEOREM TmpHasOneWriter == ASSUME OneShotOnly \/ Sole PROVE Spec => []OneWriter
<1>1. SInv => OneWriter
  BY DEF SInv
<1> QED BY SpecSInv, <1>1, PTL

\* No task leaves a temporary file behind unless something crashed, or a
\* stream broke off or failed to write (compress_task, write_compressed_output).
THEOREM TmpGoesWithItsTask ==
  ASSUME OneShotOnly \/ Sole PROVE Spec => [](Undisturbed => NoTmpLeft)
<1>1. SInv /\ Undisturbed => NoTmpLeft
  <2> SUFFICES ASSUME SInv, Undisturbed, Quiet, NEW f \in Formats, tmp[f] # None PROVE FALSE
    BY DEF NoTmpLeft
  <2>1. PICK w \in Workers : Owns(w, f)
    BY DEF SInv, TmpOwned
  <2> QED
    BY <2>1 DEF Quiet, Owns, Starting
<1> QED BY SpecSInv, <1>1, PTL

\* ... in particular, not where nothing is streamed and nothing crashes.
THEOREM OneShotLeavesNoTmp ==
  ASSUME OneShotOnly, MaxCrashes = 0 PROVE Spec => []NoTmpLeft
<1>1. TInv => (Undisturbed <=> TRUE)
  BY DEF TInv, FlagTypes, Undisturbed
<1> QED BY SpecTypes, TmpGoesWithItsTask, <1>1, PTL

\* A copy that mixes versions is there only while the worker that checks it is
\* on its way to remove it, or after a crash took that worker away or its
\* removal was refused (the streaming branch, which publishes before it checks,
\* and check_file_ownership).
THEOREM MixedCopiesAreDoomed == ASSUME OneShotOnly \/ Sole PROVE Spec => []MixedCopyIsDoomed
<1>1. SInv => MixedCopyIsDoomed
  <2> SUFFICES ASSUME SInv, ~cut, ~kept, NEW f \in Formats, out[f] # None,
                      Cardinality(out[f].content) > 1
               PROVE  \E w \in Workers : pc[w] \in Unchecked
    BY DEF MixedCopyIsDoomed
  <2>1. CASE Sound(f)
    <3>1. PICK m \in 1..Now : out[f].content = {m}
      BY <2>1 DEF Sound
    <3>2. Cardinality({m}) = 1
      BY FS_Singleton
    <3> QED
      BY <3>1, <3>2
  <2>2. CASE \E w \in Workers : Doubts(w, f)
    BY <2>2 DEF Doubts, Publishing, Unchecked
  <2> QED
    BY <2>1, <2>2 DEF SInv, Checked
<1> QED BY SpecSInv, <1>1, PTL

\* What should_compress skips has copies of the current version: its trust in
\* the mtime of the copies is well placed, whatever crashed or failed, unless
\* one of the things the property names happened: a late edit, a stream that is
\* yet to check, an older original, a copy that has outlived its removal.
THEOREM TrustIsWellPlaced == ASSUME OneShotOnly \/ Sole PROVE Spec => []TrustedCopiesAreFresh
<1>1. TInv /\ SInv => TrustedCopiesAreFresh
  <2> SUFFICES ASSUME TInv, SInv, src # 0, Mtime(src) # 0, ~ShouldCompress, ~late, ~cut, ~kept,
                      \A w \in Workers : pc[w] \notin Unchecked
               PROVE  \A f \in Formats : CopyOf(f, src)
    BY DEF TrustedCopiesAreFresh
  <2>1. \A w \in Workers, f \in Formats : ~Doubts(w, f)
    BY DEF Doubts, Publishing, Unchecked
  <2> QED
    BY <2>1, UpToDateCopies
<1> QED BY SpecTypes, SpecSInv, <1>1, PTL

\* With every task done the copies are those of the current original, unless
\* one of the named things happened: no interleaving of edits, tasks and
\* removals alone leaves a stale copy, or a file without its copies.
THEOREM AtRestCopiesAreFresh == ASSUME OneShotOnly \/ Sole PROVE Spec => []FreshUnlessLate
<1>1. SInv => FreshUnlessLate
  <2> SUFFICES ASSUME SInv, Quiet, Calm PROVE Fresh
    BY DEF FreshUnlessLate, Calm
  <2>1. \A w \in Workers, f \in Formats : ~Doubts(w, f) /\ ~OnCourse(w) /\ ~Makes(w, f)
    BY DEF Quiet, Doubts, OnCourse, Makes, Publishing
  <2>2. \A f \in Formats : ~Going(f) /\ ~Coming(f)
    BY <2>1 DEF Quiet, Going, Coming
  <2>3. CASE Idle
    BY <2>2, <2>3 DEF SInv, Progress, Fresh, Idle
  <2>4. CASE ~Idle
    BY <2>2, <2>4, CompressAssumption DEF SInv, Progress, Fresh, Idle
  <2> QED
    BY <2>3, <2>4
<1> QED BY SpecSInv, <1>1, PTL

\* The copies of one format, before and after a step: none goes back.
GoesNotBack(f) == out[f] # None /\ out'[f] # None /\ ~late' =>
                     \A m \in out[f].content : \E n \in out'[f].content : n >= m

LEMMA SameContent ==
  ASSUME SInv, TInv, NEW f \in Formats,
         out'[f] # None /\ out[f] # None => out'[f].content = out[f].content
  PROVE  GoesNotBack(f)
<1>1. out[f] # None => out[f].content \subseteq Nat
  BY DEF SInv, Whole, TInv, HistTypes, Now
<1> QED
  BY <1>1 DEF GoesNotBack

LEMMA WorkerGoesOn ==
  ASSUME TInv, SInv, NEW w \in Workers, Step(w), NEW f \in Formats
  PROVE  GoesNotBack(f)
<1>1. CASE Rename(w)
  <2>1. pc[w] = "rename" /\ late' = late
    BY <1>1 DEF Rename, At, trail
  <2>2. pc[w] \in HasTodo /\ pc[w] \in CommittedPCs
    BY <2>1 DEF HasTodo, CommittedPCs
  <2>3. FormatOf(w) \in Formats /\ Written(w, FormatOf(w))
    BY <2>1, <2>2, AtFormat DEF SInv, Holds
  <2>4. Move(FormatOf(w))
    BY <1>1, <2>3 DEF Rename, Written, FormatOf
  <2>5. out' = [out EXCEPT ![FormatOf(w)] = tmp[FormatOf(w)]]
    BY <2>4 DEF Move
  <2>6. CASE f # FormatOf(w)
    BY <2>3, <2>5, <2>6, SameContent DEF TInv, FileTypes
  <2>7. CASE f = FormatOf(w) /\ ~late /\ out[f] # None
    <3>1. content[w] = {src} /\ src = Now /\ Now \in Nat
      BY <2>2, <2>7, CommittedTo DEF TInv, HistTypes, Now
    <3>2. out'[f].content = {Now} /\ out[f].content \subseteq 1..Now
      BY <2>3, <2>5, <2>7, <3>1 DEF Written, SInv, Whole, TInv, FileTypes
    <3> QED
      BY <3>1, <3>2 DEF GoesNotBack
  <2> QED
    BY <2>1, <2>6, <2>7 DEF GoesNotBack
<1>2. CASE Publish(w)
  <2>1. pc[w] = "publish"
    BY <1>2 DEF Publish, At
  <2>2. pc[w] \in HasTodo /\ pc[w] \in Streaming
    BY <2>1 DEF HasTodo, Streaming, Publishing
  <2>3. FormatOf(w) \in Formats /\ Written(w, FormatOf(w)) /\ NotPast(w, FormatOf(w))
    BY <2>1, <2>2, AtFormat DEF SInv, Holds, Published
  <2>4. Move(FormatOf(w))
    BY <1>2, <2>3 DEF Publish, Written, FormatOf
  <2>5. out' = [out EXCEPT ![FormatOf(w)] = tmp[FormatOf(w)]]
    BY <2>4 DEF Move
  <2>6. CASE f # FormatOf(w)
    BY <2>3, <2>5, <2>6, SameContent DEF TInv, FileTypes
  <2>7. CASE f = FormatOf(w) /\ out[f] # None
    <3>1. /\ snap[w] \in 1..Now /\ Now \in Nat
          /\ content[w] # {} /\ content[w] \subseteq snap[w]..Now
      BY <2>1, <2>2 DEF SInv, Knows, Publishing, TInv, HistTypes, Now
    <3>2. out'[f].content = content[w] /\ out[f].content \subseteq 1..snap[w]
      BY <2>3, <2>5, <2>7 DEF Written, NotPast, TInv, FileTypes
    <3> QED
      BY <3>1, <3>2 DEF GoesNotBack
  <2> QED
    BY <2>6, <2>7 DEF GoesNotBack
<1>3. CASE Meta(w) \/ StreamMeta(w)
  <2>1. pc[w] \in HasTodo /\ CopyMtime(FormatOf(w))
    BY <1>3 DEF Meta, StreamMeta, At, HasTodo, FormatOf
  <2>2. FormatOf(w) \in Formats
    BY <2>1, AtFormat
  <2> QED
    BY <2>1, <2>2, MtimeDoes, SameContent
<1>4. CASE Fill(w) \/ Flush(w)
  <2>1. pc[w] \in {"fill", "flush"} /\ pc[w] \in HasTodo
    BY <1>4 DEF Fill, Flush, At, HasTodo
  <2>2. FormatOf(w) \in Formats /\ Mine(w, FormatOf(w))
    BY <2>1, AtFormat DEF SInv, Holds
  <2>3. out' = out
    BY <1>4, <2>2, OwnedWrite DEF Fill, Flush, FormatOf
  <2> QED
    BY <2>3, SameContent
<1>5. CASE Remove(w)
  <2>1. out' = out \/ out' = [out EXCEPT ![FormatOf(w)] = None]
    BY <1>5 DEF Remove, FormatOf
  <2>2. out'[f] = None \/ out'[f] = out[f]
    BY <2>1 DEF TInv, FileTypes
  <2> QED
    BY <2>2, SameContent
<1>6. CASE \/ BeginCompress(w) \/ BeginDelete(w) \/ Decide(w) \/ Open(w) \/ Read(w) \/ Check(w)
           \/ OpenTmp(w) \/ Unlink(w) \/ Create(w) \/ Chunk1(w) \/ Chunk2(w) \/ StreamCheck(w)
  <2>1. out' = out
    BY <1>6 DEF BeginCompress, BeginDelete, Decide, Open, Read, Check, OpenTmp, Unlink, Create,
       Chunk1, Chunk2, StreamCheck, files
  <2> QED
    BY <2>1, SameContent
<1> QED
  BY <1>1, <1>2, <1>3, <1>4, <1>5, <1>6 DEF Step

\* A copy is replaced by the copy of a version that is not older, unless the
\* original changed behind a task's last check.
THEOREM CopiesDoNotRegress == ASSUME OneShotOnly \/ Sole PROVE Spec => NoRegress
<1>1. ASSUME TInv, SInv, [Next]_vars, NEW f \in Formats PROVE GoesNotBack(f)
  <2>1. CASE UNCHANGED vars
    BY <1>1, <2>1, SameContent DEF vars
  <2>2. ASSUME NEW w \in Workers, Step(w) PROVE GoesNotBack(f)
    BY <1>1, <2>2, WorkerGoesOn
  <2>3. CASE Modify \/ Replace \/ ReplaceByOlder \/ Delete
    <3>1. out' = out
      BY <2>3 DEF Modify, Replace, ReplaceByOlder, Delete, NewVersion
    <3> QED
      BY <1>1, <3>1, SameContent
  <2>4. CASE Crash
    <3>1. out[f] # None => out'[f] = [out[f] EXCEPT !.owner = None] /\ out[f] \in File
      BY <1>1, <2>4 DEF Crash, Disown, TInv, FileTypes
    <3>2. out[f] # None => out'[f].content = out[f].content
      BY <3>1 DEF File
    <3> QED
      BY <1>1, <3>2, SameContent
  <2>5. CASE Restart
    <3>1. out'[f] = None \/ out'[f] = out[f]
      BY <2>5 DEF Restart
    <3> QED
      BY <1>1, <3>1, SameContent
  <2> QED
    BY <1>1, <2>1, <2>2, <2>3, <2>4, <2>5 DEF Next
<1>2. TInv /\ SInv /\ [Next]_vars =>
        [\A f \in Formats : out[f] # None /\ out'[f] # None /\ ~late' =>
            \A m \in out[f].content : \E n \in out'[f].content : n >= m]_vars
  BY <1>1 DEF GoesNotBack
<1> QED BY SpecTypes, SpecSInv, <1>2, PTL DEF Spec, NoRegress
-----------------------------------------------------------------------------
(* Resources, for any number of workers and any sizes *)

Truncated == \E m, n \in 1..Now : m < n /\ Ino(m) = Ino(n) /\ SizeOf[n] < SizeOf[m]
OpenStream(w) == pc[w] \in Starting => Streamed(snap[w])
LInv == LostHasACause /\ \A w \in Workers : OpenStream(w)

\* A descriptor that reads less than fstat() saw is one of a truncated file.
LEMMA ShorterIsTruncated ==
  ASSUME TInv, NEW v \in 1..Now, SizeOf[Contents(v)] < SizeOf[v]
  PROVE  Truncated
<1>1. Now \in Nat /\ Contents(v) \in v..Now /\ Ino(Contents(v)) = Ino(v)
  BY LastContents DEF TInv, HistTypes, Now
<1>2. SizeOf[v] \in Nat
  BY CompressAssumption DEF TInv, HistTypes, Now
<1>3. Contents(v) # v
  BY <1>2
<1> QED
  BY <1>1, <1>3 DEF Truncated

\* A step of a worker after which nothing new is missing, or a reason is there.
LEMMA KeepsTrack ==
  ASSUME TInv, LInv, NEW w \in Workers, UNCHANGED <<hist, src, up, late, cut, crashes>>,
         errors' \in Nat, errors <= errors',
         lost' = lost \/ errors' > 0 \/ Truncated,
         \A v \in Workers \ {w} : Stays(v),
         OpenStream(w)'
  PROVE  LInv'
<1>1. errors \in Nat
  BY CompressAssumption DEF TInv, FlagTypes
<1>2. Truncated' <=> Truncated
  BY DEF Truncated, Now, Ino
<1>3. LostHasACause'
  BY <1>1, <1>2 DEF LInv, LostHasACause, Truncated
<1>4. \A v \in Workers : OpenStream(v)'
  BY DEF LInv, OpenStream, Stays, Streamed
<1> QED
  BY <1>3, <1>4 DEF LInv

\* Steps to a place where no stream is being opened.
LEMMA NotOpening ==
  ASSUME TInv, NEW w \in Workers, NEW p, p \notin Starting,
         NEW s, NEW c, NEW t, NEW o, Moves(w, p, s, c, t, o)
  PROVE  OpenStream(w)' /\ \A v \in Workers \ {w} : Stays(v)
BY DEF Moves, OpenStream, Starting

LEMMA LandsSafely ==
  ASSUME TInv, NEW w \in Workers,
         \/ Return(w) \/ RemoveCopies(w) \/ NextFormat(w)
         \/ \E S : NextFlush(w, S)
         \/ \E p, t : p \notin Starting /\ Phase(w, p, t)
         \/ \E p : p \notin Starting /\ Goto(w, p) /\ UNCHANGED <<snap, content, todo, ok>>
  PROVE  OpenStream(w)' /\ \A v \in Workers \ {w} : Stays(v)
<1>1. CASE Return(w)
  BY <1>1, ReturnMoves, NotOpening DEF Starting
<1>2. ASSUME NEW p, NEW t, p \notin Starting, Phase(w, p, t)
      PROVE  OpenStream(w)' /\ \A v \in Workers \ {w} : Stays(v)
  BY <1>2, PhaseMoves, NotOpening
<1>3. CASE RemoveCopies(w)
  BY <1>2, <1>3 DEF RemoveCopies, Starting
<1>4. CASE NextFormat(w)
  BY <1>1, <1>2, <1>4 DEF NextFormat, Starting
<1>5. CASE \E S : NextFlush(w, S)
  BY <1>5 DEF NextFlush, Goto, OpenStream, Starting, Stays, TInv, LocalTypes
<1>6. CASE \E p : p \notin Starting /\ Goto(w, p) /\ UNCHANGED <<snap, content, todo, ok>>
  BY <1>6, GotoMoves, NotOpening
<1> QED
  BY <1>1, <1>2, <1>3, <1>4, <1>5, <1>6

LEMMA WorkerLoses ==
  ASSUME TInv, LInv, NEW w \in Workers, Step(w)
  PROVE  LInv'
<1> USE DEF trail, bounds, files
<1>1. errors \in Nat /\ errors <= errors
  BY CompressAssumption DEF TInv, FlagTypes
<1>2. CASE BeginCompress(w) \/ BeginDelete(w) \/ Check(w) \/ Rename(w) \/ Meta(w)
           \/ StreamCheck(w) \/ StreamMeta(w) \/ Publish(w) \/ Decide(w)
  <2>1. /\ UNCHANGED <<hist, src, up, late, cut, crashes, errors, lost>>
    BY <1>2 DEF BeginCompress, BeginDelete, Check, Rename, Meta, StreamCheck, StreamMeta, Publish,
       Decide
  <2>2. OpenStream(w)' /\ \A v \in Workers \ {w} : Stays(v)
    <3>1. "decide" \notin Starting /\ "write" \notin Starting /\ "meta" \notin Starting
          /\ "smeta" \notin Starting /\ "remove" \notin Starting /\ "open" \notin Starting
      BY DEF Starting
    <3>2. CASE BeginCompress(w) \/ BeginDelete(w) \/ Check(w) \/ Decide(w)
      BY <3>1, <3>2, LandsSafely DEF BeginCompress, BeginDelete, Check, Decide
    <3>3. CASE Rename(w) \/ Meta(w) \/ Publish(w)
      BY <3>1, <3>3, LandsSafely DEF Rename, Meta, Publish
    <3>4. CASE StreamCheck(w) \/ StreamMeta(w)
      BY <3>1, <3>4, LandsSafely DEF StreamCheck, StreamMeta
    <3> QED
      BY <1>2, <3>2, <3>3, <3>4
  <2> QED
    BY <1>1, <2>1, <2>2, KeepsTrack
<1>3. CASE OpenTmp(w) \/ Fill(w) \/ Flush(w)
  <2>1. /\ UNCHANGED <<hist, src, up, late, cut, crashes>>
        /\ (lost' = lost /\ errors' = errors) \/ errors' = errors + 1
    BY <1>3 DEF OpenTmp, Fill, Flush, CallFails
  <2>2. errors' \in Nat /\ errors <= errors' /\ (lost' = lost \/ errors' > 0)
    BY <1>1, <2>1
  <2>3. OpenStream(w)' /\ \A v \in Workers \ {w} : Stays(v)
    <3>1. "fill" \notin Starting /\ "rename" \notin Starting /\ "publish" \notin Starting
      BY DEF Starting
    <3> QED
      BY <1>3, <3>1, LandsSafely DEF OpenTmp, Fill, Flush
  <2> QED
    BY <2>1, <2>2, <2>3, KeepsTrack
<1>4. CASE Open(w)
  <2>1. UNCHANGED <<hist, src, up, late, cut, crashes, errors, lost>>
    BY <1>4 DEF Open
  <2>2. CASE src = 0
    <3>1. Return(w)
      BY <1>4, <2>2 DEF Open
    <3> QED
      BY <1>1, <2>1, <3>1, LandsSafely, KeepsTrack
  <2>3. CASE src # 0
    <3>1. /\ pc' = [pc EXCEPT ![w] = IF Streamed(src) THEN "unlink" ELSE "read"]
          /\ snap' = [snap EXCEPT ![w] = src] /\ UNCHANGED <<content, ok>>
          /\ todo' = [todo EXCEPT ![w] = IF Streamed(src) THEN BrFirst(Enabled) ELSE todo[w]]
      BY <1>4, <2>3 DEF Open, Goto, TInv, LocalTypes
    <3>2. OpenStream(w)' /\ \A v \in Workers \ {w} : Stays(v)
      BY <3>1 DEF OpenStream, Stays, Starting, Streamed, TInv, LocalTypes
    <3> QED
      BY <1>1, <2>1, <3>2, KeepsTrack
  <2> QED
    BY <2>2, <2>3
<1>5. CASE Read(w)
  <2>1. /\ UNCHANGED <<hist, src, up, late, cut, crashes>> /\ pc[w] = "read"
        /\ errors' = errors \/ errors' = errors + 1
    BY <1>5 DEF Read, At, CallFails
  <2>2. snap[w] \in 1..Now
    BY <2>1 DEF TInv, AtHand, HasSnap, LocalTypes, HistTypes, Now
  <2>3. lost' = lost \/ Truncated \/ errors' = errors + 1
    BY <1>5, <2>2, ShorterIsTruncated DEF Read, CallFails
  <2>4. OpenStream(w)' /\ \A v \in Workers \ {w} : Stays(v)
    <3>1. CASE RemoveCopies(w)
      BY <3>1, LandsSafely
    <3>2. CASE Goto(w, "check") /\ content' = [content EXCEPT ![w] = {Contents(snap[w])}]
               /\ UNCHANGED <<snap, todo, ok>>
      BY <3>2 DEF Goto, OpenStream, Starting, Stays, TInv, LocalTypes
    <3> QED
      BY <1>5, <3>1, <3>2 DEF Read, PartialRead
  <2>5. errors' \in Nat /\ errors <= errors' /\ (lost' = lost \/ Truncated \/ errors' > 0)
    BY <1>1, <2>1, <2>3
  <2> QED
    BY <2>1, <2>4, <2>5, KeepsTrack
<1>6. CASE Chunk1(w) \/ Chunk2(w)
  <2>1. /\ UNCHANGED <<hist, src, up, late, cut, crashes>>
        /\ pc[w] \in {"chunk1", "chunk2"}
        /\ errors' = errors \/ errors' = errors + 1
    BY <1>6 DEF Chunk1, Chunk2, At, CallFails
  <2>2. snap[w] \in 1..Now /\ Streamed(snap[w])
    BY <2>1 DEF TInv, AtHand, HasSnap, LocalTypes, HistTypes, Now, LInv, OpenStream, Starting
  <2>3. errors' \in Nat /\ errors <= errors' /\ (errors' = errors + 1 => errors' > 0)
    BY <1>1, <2>1
  <2>4. CASE StreamError(w)
    <3>1. OpenStream(w)' /\ \A v \in Workers \ {w} : Stays(v)
      BY <2>4, LandsSafely DEF StreamError
    <3>2. pc' # [pc EXCEPT ![w] = "chunk2"] /\ pc' # [pc EXCEPT ![w] = "flush"]
      BY <2>4 DEF StreamError, RemoveCopies, Phase, Goto, TInv, LocalTypes
    <3>3. SizeOf[Contents(snap[w])] # 3 \/ errors' = errors + 1
      BY <1>6, <3>2 DEF Chunk1, Chunk2, Streamed, Goto, CallFails
    <3>4. CASE SizeOf[Contents(snap[w])] # 3
      <4>1. Contents(snap[w]) \in 1..MaxVersions
        BY <2>2, ContentsType DEF TInv, Now
      <4>2. SizeOf[Contents(snap[w])] < SizeOf[snap[w]]
        BY <2>2, <3>4, <4>1, CompressAssumption DEF Streamed
      <4> QED
        BY <2>1, <2>2, <2>3, <3>1, <4>2, ShorterIsTruncated, KeepsTrack
    <3>5. CASE errors' = errors + 1
      BY <2>1, <2>3, <3>1, <3>5, KeepsTrack
    <3> QED
      BY <3>3, <3>4, <3>5
  <2>5. CASE ~StreamError(w)
    <3>1. /\ UNCHANGED <<snap, ok, lost>>
          /\ pc' = [pc EXCEPT ![w] = "chunk2"] \/ pc' = [pc EXCEPT ![w] = "flush"]
          /\ \A v \in Workers \ {w} : Stays(v)
      BY <1>6, <2>5 DEF Chunk1, Chunk2, Goto, Stays, TInv, LocalTypes
    <3>2. OpenStream(w)'
      BY <2>2, <3>1 DEF OpenStream, Streamed
    <3> QED
      BY <2>1, <2>3, <3>1, <3>2, KeepsTrack
  <2> QED
    BY <2>4, <2>5
<1>7. CASE Unlink(w) \/ Create(w)
  <2>1. /\ UNCHANGED <<hist, src, up, late, cut, crashes, errors, lost>>
        /\ pc[w] \in Starting
    BY <1>7 DEF Unlink, Create, At, Starting
  <2>2. Streamed(snap[w])
    BY <2>1 DEF LInv, OpenStream
  <2>3. /\ pc'[w] = "idle" \/ snap'[w] = snap[w]
        /\ \A v \in Workers \ {w} : Stays(v)
    BY <1>7 DEF Unlink, Create, Started, Goto, Stays, TInv, LocalTypes
  <2>4. OpenStream(w)'
    BY <2>2, <2>3 DEF OpenStream, Streamed, Starting
  <2> QED
    BY <1>1, <2>1, <2>3, <2>4, KeepsTrack
<1>8. CASE Remove(w)
  <2>1. /\ UNCHANGED <<hist, src, up, late, cut, crashes, lost>>
        /\ errors' \in Nat /\ errors <= errors'
    BY <1>1, <1>8 DEF Remove, CallFails
  <2>2. OpenStream(w)' /\ \A v \in Workers \ {w} : Stays(v)
    <3>1. CASE Return(w)
      BY <3>1, LandsSafely
    <3>2. CASE /\ Goto(w, "remove") /\ todo' = [todo EXCEPT ![w] = Tail(@)]
               /\ snap' = [snap EXCEPT ![w] = Seen(w)] /\ UNCHANGED <<content, ok>>
      BY <3>2 DEF Goto, OpenStream, Starting, Stays, TInv, LocalTypes
    <3> QED
      BY <1>8, <3>1, <3>2 DEF Remove, NextRemoval
  <2> QED
    BY <2>1, <2>2, KeepsTrack
<1> QED
  BY <1>2, <1>3, <1>4, <1>5, <1>6, <1>7, <1>8 DEF Step

LEMMA NextLInv == TInv /\ LInv /\ [Next]_vars => LInv'
<1> SUFFICES ASSUME TInv, LInv, [Next]_vars PROVE LInv'
  OBVIOUS
<1>1. CASE UNCHANGED vars
  BY <1>1 DEF vars, LInv, LostHasACause, Now, Ino, OpenStream, Streamed
<1>2. CASE Modify \/ Replace \/ ReplaceByOlder \/ Delete
  <2>1. UNCHANGED <<pc, snap, lost, errors>>
    BY <1>2 DEF Modify, Replace, ReplaceByOlder, Delete, NewVersion, local, bounds
  <2>2. Now \in Nat /\ Now' \in Nat /\ Now <= Now' /\ \A n \in 1..Now : hist'[n] = hist[n]
    <3>1. \/ hist' = hist
          \/ \E i, m, u : hist' = Append(hist, [ino |-> i, mtime |-> m, uid |-> u])
      BY <1>2 DEF Modify, Replace, ReplaceByOlder, Delete, NewVersion
    <3>2. hist \in Seq(Version) /\ Len(hist) \in Nat
      BY DEF TInv, HistTypes
    <3>3. ASSUME NEW r PROVE /\ Len(Append(hist, r)) = Len(hist) + 1
                             /\ \A n \in 1..Len(hist) : Append(hist, r)[n] = hist[n]
      BY <3>2
    <3>4. CASE hist' = hist
      BY <3>2, <3>4 DEF Now
    <3>5. CASE \E i, m, u : hist' = Append(hist, [ino |-> i, mtime |-> m, uid |-> u])
      <4>1. PICK r : hist' = Append(hist, r)
        BY <3>5
      <4>2. Len(hist') = Len(hist) + 1 /\ \A n \in 1..Len(hist) : hist'[n] = hist[n]
        BY <3>3, <4>1
      <4> QED
        BY <3>2, <4>2 DEF Now
    <3> QED
      BY <3>1, <3>4, <3>5
  <2>3. Truncated => Truncated'
    BY <2>2 DEF Truncated, Ino
  <2> QED
    BY <2>1, <2>3 DEF LInv, LostHasACause, Truncated, OpenStream, Streamed
<1>3. CASE Crash
  BY <1>3 DEF Crash, LInv, LostHasACause, OpenStream, Starting
<1>4. CASE Restart
  <2>1. UNCHANGED <<hist, pc, snap, lost>> /\ (errors > 0 => errors' > 0)
    BY <1>4, CompressAssumption DEF Restart, local, CallFails, TInv, FlagTypes
  <2> QED
    BY <2>1 DEF LInv, LostHasACause, Now, Ino, OpenStream, Streamed
<1> QED
  BY <1>1, <1>2, <1>3, <1>4, WorkerLoses DEF Next

\* A task gives its buffer and its descriptors back, unless the file it has
\* open was truncated, or a read, a write or a removal failed (the early returns
\* of compress_task).
THEOREM LossesHaveACause == Spec => []LostHasACause
<1>1. Init => LInv
  BY DEF Init, LInv, LostHasACause, OpenStream, Starting
<1>2. LInv => LostHasACause
  BY DEF LInv
<1> QED BY SpecTypes, NextLInv, <1>1, <1>2, PTL DEF Spec
-----------------------------------------------------------------------------
(* Copies that outlive their removal, for any number of workers and sizes *)

Stranger == \E v \in 1..Now : Uid(v) \notin {Root, Daemon}
Trouble == errors > 0 \/ Stranger
OwnDir(dir) == \A f \in Formats : dir[f] # None => dir[f].uid = Daemon
\* As long as no call has failed and nobody else has owned the original, the
\* daemon owns every copy and every temporary file.
KInv == Trouble \/ (~kept /\ OwnDir(out) /\ OwnDir(tmp))

LEMMA OwnWrites ==
  ASSUME TInv, NEW dir \in [Formats -> File \cup {None}], OwnDir(dir),
         NEW w \in Workers, NEW f \in Formats
  PROVE  /\ OwnDir(WriteOwned(w, dir, f, FullFile(w)))
         /\ OwnDir([dir EXCEPT ![f] = None])
         /\ OwnDir([dir EXCEPT ![f] = NewTmp(w)])
<1>1. OwnDir(WriteOwned(w, dir, f, FullFile(w)))
  <2>1. CASE dir[f] # None /\ dir[f].owner = w
    <3>1. /\ WriteOwned(w, dir, f, FullFile(w)) =
               [dir EXCEPT ![f] = [FullFile(w) EXCEPT !.uid = dir[f].uid]]
          /\ dir[f].uid = Daemon
      BY <2>1 DEF WriteOwned, OwnDir
    <3>2. [FullFile(w) EXCEPT !.uid = dir[f].uid].uid = dir[f].uid
      BY DEF FullFile
    <3> QED
      BY <3>1, <3>2 DEF OwnDir
  <2>2. CASE ~(dir[f] # None /\ dir[f].owner = w)
    BY <2>2 DEF WriteOwned
  <2> QED
    BY <2>1, <2>2
<1>2. OwnDir([dir EXCEPT ![f] = None])
  BY DEF OwnDir
<1>3. OwnDir([dir EXCEPT ![f] = NewTmp(w)])
  <2>1. NewTmp(w).uid = Daemon
    BY DEF NewTmp
  <2> QED
    BY <2>1 DEF OwnDir
<1> QED
  BY <1>1, <1>2, <1>3

\* copy_metadata gives a copy away only to the user of the original, who is the
\* daemon's own if the daemon is root and there is no stranger.
LEMMA OwnMeta ==
  ASSUME TInv, ~Stranger, OwnDir(out), NEW f \in Formats, CopyMtime(f)
  PROVE  OwnDir(out')
<1>1. CASE out[f] # None /\ src # 0
  <2> DEFINE u == IF Daemon = Root THEN Uid(src) ELSE out[f].uid
  <2>1. out[f] \in File /\ out \in [Formats -> File \cup {None}]
    BY <1>1 DEF TInv, FileTypes
  <2>2. u = Daemon
    <3>1. src \in 1..Now
      BY <1>1 DEF TInv, HistTypes, Now
    <3> QED
      BY <1>1, <3>1 DEF Stranger, OwnDir
  <2>3. out' = [out EXCEPT ![f] = [[out[f] EXCEPT !.mtime = Mtime(src)] EXCEPT !.uid = u]]
    BY <1>1, <2>1 DEF CopyMtime
  <2> HIDE DEF u
  <2>4. [[out[f] EXCEPT !.mtime = Mtime(src)] EXCEPT !.uid = u].uid = u
    BY <2>1 DEF File
  <2> QED
    BY <2>1, <2>2, <2>3, <2>4 DEF OwnDir
<1>2. CASE ~(out[f] # None /\ src # 0)
  BY <1>2 DEF CopyMtime
<1> QED
  BY <1>1, <1>2

LEMMA OwnMove ==
  ASSUME TInv, OwnDir(out), OwnDir(tmp), NEW f \in Formats, Move(f)
  PROVE  OwnDir(out') /\ OwnDir(tmp')
BY DEF Move, OwnDir, TInv, FileTypes

\* check_file_ownership refuses the daemon nothing of its own.
LEMMA OwnRemoval ==
  ASSUME TInv, ~Stranger, OwnDir(out), NEW w \in Workers, Remove(w), errors' = errors
  PROVE  OwnDir(out') /\ kept' = kept
<1> DEFINE f == Head(todo[w])
<1>1. pc[w] \in HasTodo
  BY DEF Remove, At, HasTodo
<1>2. f \in Formats
  BY <1>1, NextTodo
<1>3. Seen(w) \in 0..Now /\ Now \in Nat
  BY DEF Seen, Now, TInv, HistTypes, LocalTypes, AtHand
<1>4. out[f] # None => MayRemove(f, Seen(w))
  <2>1. CASE Seen(w) = 0
    BY <2>1 DEF MayRemove
  <2>2. CASE Seen(w) \in 1..Now
    BY <1>2, <2>2 DEF MayRemove, Stranger, OwnDir
  <2> QED
    BY <1>3, <2>1, <2>2
<1>5. errors \in Nat
  BY CompressAssumption DEF TInv, FlagTypes
<1>6. /\ kept' = kept
      /\ out' = out \/ out' = [out EXCEPT ![f] = None]
  BY <1>4, <1>5 DEF Remove, CallFails
<1>7. OwnDir(out')
  BY <1>2, <1>6 DEF OwnDir, TInv, FileTypes
<1> QED
  BY <1>6, <1>7

LEMMA WorkerKeepsOwn ==
  ASSUME TInv, ~Trouble, errors' = errors, ~kept, OwnDir(out), OwnDir(tmp),
         NEW w \in Workers, Step(w)
  PROVE  ~kept' /\ OwnDir(out') /\ OwnDir(tmp')
<1> DEFINE f == Head(todo[w])
<1> USE DEF files, trail
<1>1. errors \in Nat /\ errors' # errors + 1 /\ ~Stranger
  BY CompressAssumption DEF TInv, FlagTypes, Trouble
<1>2. pc[w] \in HasTodo => f \in Formats
  BY NextTodo
<1>3. out \in [Formats -> File \cup {None}] /\ tmp \in [Formats -> File \cup {None}]
  BY DEF TInv, FileTypes
<1>4. CASE \/ BeginCompress(w) \/ BeginDelete(w) \/ Decide(w) \/ Open(w) \/ Read(w) \/ Check(w)
           \/ Chunk1(w) \/ Chunk2(w) \/ StreamCheck(w)
  <2>1. UNCHANGED <<out, tmp, kept>>
    BY <1>4 DEF BeginCompress, BeginDelete, Decide, Open, Read, Check, Chunk1, Chunk2, StreamCheck
  <2> QED
    BY <2>1
<1>5. CASE OpenTmp(w) \/ Unlink(w) \/ Create(w)
  <2>1. /\ UNCHANGED <<out, kept>> /\ pc[w] \in {"write", "unlink", "create"}
        /\ \/ tmp' = tmp \/ tmp' = [tmp EXCEPT ![f] = None]
           \/ tmp' = [tmp EXCEPT ![f] = NewTmp(w)]
    BY <1>5 DEF OpenTmp, Unlink, Create, At
  <2>2. f \in Formats
    BY <1>2, <2>1 DEF HasTodo
  <2> QED
    BY <1>3, <2>1, <2>2, OwnWrites
<1>6. CASE Fill(w) \/ Flush(w)
  <2>1. /\ UNCHANGED kept /\ pc[w] \in {"fill", "flush"}
        /\ tmp' = WriteOwned(w, tmp, f, FullFile(w))
        /\ out' = WriteOwned(w, out, f, FullFile(w))
    BY <1>1, <1>6 DEF Fill, Flush, At, CallFails
  <2>2. f \in Formats
    BY <1>2, <2>1 DEF HasTodo
  <2> QED
    BY <1>3, <2>1, <2>2, OwnWrites
<1>7. CASE Rename(w) \/ Publish(w)
  <2>1. /\ UNCHANGED kept /\ pc[w] \in {"rename", "publish"}
        /\ Move(f) \/ UNCHANGED <<out, tmp>>
    BY <1>7 DEF Rename, Publish, At
  <2>2. f \in Formats
    BY <1>2, <2>1 DEF HasTodo
  <2> QED
    BY <2>1, <2>2, OwnMove
<1>8. CASE Meta(w) \/ StreamMeta(w)
  <2>1. UNCHANGED <<kept, tmp>> /\ pc[w] \in {"meta", "smeta"} /\ CopyMtime(f)
    BY <1>8 DEF Meta, StreamMeta, At
  <2>2. f \in Formats
    BY <1>2, <2>1 DEF HasTodo
  <2> QED
    BY <1>1, <2>1, <2>2, OwnMeta
<1>9. CASE Remove(w)
  BY <1>1, <1>9, OwnRemoval DEF Remove
<1> QED
  BY <1>4, <1>5, <1>6, <1>7, <1>8, <1>9 DEF Step

\* Nothing takes back a failed call, or what an original has been.
LEMMA TroubleStays ==
  ASSUME TInv, [Next]_vars, Trouble
  PROVE  Trouble'
<1>1. errors \in Nat
  BY CompressAssumption DEF TInv, FlagTypes
<1>2. errors' = errors \/ errors' = errors + 1
  <2>1. ASSUME NEW w \in Workers, Step(w) PROVE errors' = errors \/ errors' = errors + 1
    BY <2>1 DEF Step, BeginCompress, BeginDelete, Decide, Open, Read, Check, OpenTmp, Fill, Rename,
       Meta, Unlink, Create, Chunk1, Chunk2, Flush, Publish, StreamCheck, StreamMeta, Remove,
       CallFails, bounds
  <2>2. CASE Modify \/ Replace \/ ReplaceByOlder \/ Delete \/ Crash \/ Restart
    BY <2>2 DEF Modify, Replace, ReplaceByOlder, Delete, NewVersion, Crash, Restart, CallFails, bounds
  <2> QED
    BY <2>1, <2>2 DEF Next, vars
<1>3. \/ hist' = hist
      \/ \E i, m, u : hist' = Append(hist, [ino |-> i, mtime |-> m, uid |-> u])
  <2>1. ASSUME NEW w \in Workers, Step(w) PROVE hist' = hist
    BY <2>1 DEF Step, BeginCompress, BeginDelete, Decide, Open, Read, Check, OpenTmp, Fill, Rename,
       Meta, Unlink, Create, Chunk1, Chunk2, Flush, Publish, StreamCheck, StreamMeta, Remove, files
  <2>2. CASE Crash \/ Restart \/ Delete
    BY <2>2 DEF Crash, Restart, Delete
  <2>3. CASE Modify \/ Replace \/ ReplaceByOlder
    BY <2>3 DEF Modify, Replace, ReplaceByOlder, NewVersion
  <2> QED
    BY <2>1, <2>2, <2>3 DEF Next, vars
<1>4. Now \in Nat /\ Now' \in Nat /\ Now <= Now' /\ \A n \in 1..Now : hist'[n] = hist[n]
  <2>1. hist \in Seq(Version) /\ Len(hist) \in Nat
    BY DEF TInv, HistTypes
  <2>2. ASSUME NEW r PROVE /\ Len(Append(hist, r)) = Len(hist) + 1
                           /\ \A n \in 1..Len(hist) : Append(hist, r)[n] = hist[n]
    BY <2>1
  <2>3. CASE hist' = hist
    BY <2>1, <2>3 DEF Now
  <2>4. CASE \E i, m, u : hist' = Append(hist, [ino |-> i, mtime |-> m, uid |-> u])
    <3>1. PICK r : hist' = Append(hist, r)
      BY <2>4
    <3>2. Len(hist') = Len(hist) + 1 /\ \A n \in 1..Len(hist) : hist'[n] = hist[n]
      BY <2>2, <3>1
    <3> QED
      BY <2>1, <3>2 DEF Now
  <2> QED
    BY <1>3, <2>3, <2>4
<1>5. Stranger => Stranger'
  BY <1>4 DEF Stranger, Uid
<1>6. errors > 0 => errors' > 0
  BY <1>1, <1>2
<1> QED
  BY <1>5, <1>6 DEF Trouble

LEMMA NextKInv == TInv /\ KInv /\ [Next]_vars => KInv'
<1> SUFFICES ASSUME TInv, KInv, [Next]_vars, ~Trouble' PROVE ~kept' /\ OwnDir(out)' /\ OwnDir(tmp)'
  BY DEF KInv
<1>1. ~Trouble
  BY TroubleStays
<1>2. ~kept /\ OwnDir(out) /\ OwnDir(tmp)
  BY <1>1 DEF KInv
<1>3. out \in [Formats -> File \cup {None}] /\ tmp \in [Formats -> File \cup {None}]
  BY DEF TInv, FileTypes
<1>4. CASE UNCHANGED vars
  BY <1>2, <1>4 DEF vars, OwnDir
<1>5. ASSUME NEW w \in Workers, Step(w) PROVE ~kept' /\ OwnDir(out)' /\ OwnDir(tmp)'
  <2>1. errors' = errors
    <3>1. errors' = errors \/ errors' = errors + 1
      BY <1>5, CompressAssumption
      DEF Step, BeginCompress, BeginDelete, Decide, Open, Read, Check, OpenTmp, Fill, Rename,
          Meta, Unlink, Create, Chunk1, Chunk2, Flush, Publish, StreamCheck, StreamMeta, Remove,
          CallFails, bounds, TInv, FlagTypes
    <3>2. errors \in Nat /\ ~(errors' > 0)
      BY CompressAssumption DEF TInv, FlagTypes, Trouble
    <3> QED
      BY <3>1, <3>2
  <2>2. ~kept' /\ OwnDir(out') /\ OwnDir(tmp')
    BY <1>1, <1>2, <1>5, <2>1, WorkerKeepsOwn
  <2> QED
    BY <2>2 DEF OwnDir
<1>6. CASE Modify \/ Replace \/ ReplaceByOlder \/ Delete
  <2>1. UNCHANGED <<out, tmp, kept>>
    BY <1>6 DEF Modify, Replace, ReplaceByOlder, Delete, NewVersion, Disturb
  <2> QED
    BY <1>2, <2>1 DEF OwnDir
<1>7. CASE Crash
  <2>1. ASSUME NEW dir \in [Formats -> File \cup {None}], OwnDir(dir) PROVE OwnDir(Disown(dir))
    <3> SUFFICES ASSUME NEW g \in Formats, Disown(dir)[g] # None
                 PROVE  Disown(dir)[g].uid = Daemon
      BY DEF OwnDir
    <3>1. dir[g] # None /\ Disown(dir)[g] = [dir[g] EXCEPT !.owner = None]
      BY DEF Disown
    <3>2. dir[g] \in File /\ dir[g].uid = Daemon
      BY <2>1, <3>1 DEF OwnDir
    <3> QED
      BY <3>1, <3>2 DEF File
  <2>2. kept' = kept /\ out' = Disown(out) /\ tmp' = Disown(tmp)
    BY <1>7 DEF Crash
  <2>3. OwnDir(out') /\ OwnDir(tmp')
    BY <1>2, <1>3, <2>1, <2>2
  <2> QED
    BY <1>2, <2>2, <2>3 DEF OwnDir
<1>8. CASE Restart
  <2>1. errors \in Nat /\ ~(errors' > 0)
    BY CompressAssumption DEF TInv, FlagTypes, Trouble
  <2>2. errors' # errors + 1
    BY <2>1
  <2>3. /\ kept' = kept /\ tmp' = tmp
        /\ out' = out \/ out' = [f \in Formats |-> None]
    BY <1>8, <2>2 DEF Restart, CallFails
  <2> QED
    BY <1>2, <2>3 DEF OwnDir
<1> QED
  BY <1>4, <1>5, <1>6, <1>7, <1>8 DEF Next

\* A copy outlives its removal only if a call failed, or an original belonged
\* to somebody other than root and the daemon's user (check_file_ownership of
\* safe_remove_compressed, against the owners that write_compressed_output and
\* copy_metadata give the copies).
THEOREM KeptCopiesHaveACause == Spec => []KeptHasACause
<1>1. Init => KInv
  BY DEF Init, KInv, OwnDir
<1>2. KInv => KeptHasACause
  BY DEF KInv, Trouble, Stranger, KeptHasACause
<1> QED BY SpecTypes, NextKInv, <1>1, <1>2, PTL DEF Spec
=============================================================================
