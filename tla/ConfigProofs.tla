---------------------------- MODULE ConfigProofs ----------------------------
(***************************************************************************)
(* Proofs about the configuration: as long as no skipped section has       *)
(* spilled its keys, the parser, line by line, is in the section of the    *)
(* last header, has the settings of [general] as the lines so far give     *)
(* them, and one override for each header that counts, in their order      *)
(* (CInv); and get_folder_override_index finds the first of the deepest.   *)
(*                                                                         *)
(* A definition that looks at the whole file changes with each line that   *)
(* is read, so most lemmas say what one line more changes in it.  The loop *)
(* of the search is a recursion: that it has a solution, and what its      *)
(* solution is, follow from the least number for which they would not hold.*)
(***************************************************************************)
EXTENDS Config, SequenceTheorems, WellFoundedInduction, NaturalsInduction, TLAPS

Lines == Keys \cup Sections \cup FolderSections

\* The header under which the next line will stand.
Current == HeaderOf(Len(lines) + 1)

\* The lines that set the delay under header h: an invalid one does not.
Valid(h) == {i \in GivenUnder(h, "io_delay_us") : lines[i].val # Invalid}

\* The section under header h as it is written.
OverrideOf(h) ==
    [path |-> lines[h].folder,
     enabled |-> LastValue(GivenUnder(h, "enabled"), "true") = "true",
     io_delay_us |-> LastValue(Valid(h), Unset),
     bare |-> LastValue(GivenUnder(h, "bare"), "false") = "true",
     exts |-> {lines[i].val : i \in GivenUnder(h, "ext")}]

TypeInv == TypeOK /\ lines \in Seq(Lines)

InSection ==
    section = IF Current = 0 THEN "general"
              ELSE IF IsSection(lines[Current]) THEN lines[Current].section
              ELSE IF Counts(Current) THEN "folder_override" ELSE ""

AllGiven(k) == {lines[i].val : i \in Given(k)}
GivenTargets == IF Given("target_path") = {} THEN {}
                ELSE {LastValue(Given("target_path"), DefaultDir)}

\* The switch is on at the end of what is read.
Switch == LastValue(Given("enable_folder_overrides"), "true") = "true"

GlobalsRead ==
    /\ cfg.io_delay_us = WrittenDelay
    /\ cfg.bare = (LastValue(Given("bare"), "false") = "true")
    /\ cfg.enable_folder_overrides = Switch
    /\ cfg.exts = IF phase \in {"loaded", "reloaded"} THEN WrittenExts ELSE AllGiven("ext")
    /\ cfg.targets = IF phase \in {"loaded", "reloaded"}
                       THEN IF cli # {} THEN cli ELSE WrittenTargets
                       ELSE GivenTargets

\* at[k] is the header of override k.
HeadersAre(at) ==
    /\ at \in [1..Len(overrides) -> 1..Len(lines)]
    /\ \A j, k \in 1..Len(overrides) : j < k => at[j] < at[k]
    /\ \A h \in 1..Len(lines) : Counts(h) <=> \E k \in 1..Len(overrides) : h = at[k]

OverridesRead ==
    \E at \in [1..Len(overrides) -> 1..Len(lines)] :
       /\ HeadersAre(at)
       /\ \A k \in 1..Len(overrides) : overrides[k] = OverrideOf(at[k])

CInv == Spilled = {} => InSection /\ GlobalsRead /\ OverridesRead
-----------------------------------------------------------------------------
(* The first and the last of a set of numbers *)

LEMMA Least ==
  ASSUME NEW S, S \subseteq Nat, S # {}
  PROVE  \E c \in S : \A x \in S : c <= x
<1>1. PICK c \in S : \A x \in S : ~(<<x, c>> \in OpToRel(<, Nat))
  BY NatLessThanWellFounded, WFMin
<1>2. ASSUME NEW x \in S PROVE c <= x
  <2>1. ~(<<x, c>> \in OpToRel(<, Nat)) /\ x \in Nat /\ c \in Nat
    BY <1>1
  <2> QED
    BY <2>1 DEF OpToRel
<1> QED
  BY <1>2

LEMMA FirstOfIs ==
  ASSUME NEW S, S \subseteq Nat, NEW i \in S, \A j \in S : j >= i
  PROVE  FirstOf(S) = i
<1>1. FirstOf(S) \in S /\ \A j \in S : j >= FirstOf(S)
  BY DEF FirstOf
<1>2. FirstOf(S) \in Nat /\ i \in Nat
  BY <1>1
<1>3. FirstOf(S) >= i /\ i >= FirstOf(S)
  BY <1>1
<1> QED
  BY <1>2, <1>3

LEMMA LastOfIs ==
  ASSUME NEW S, S \subseteq Nat, NEW i \in S, \A j \in S : j <= i
  PROVE  LastOf(S) = i
<1>1. LastOf(S) \in S /\ \A j \in S : j <= LastOf(S)
  BY DEF LastOf
<1>2. LastOf(S) \in Nat /\ i \in Nat
  BY <1>1
<1>3. LastOf(S) <= i /\ i <= LastOf(S)
  BY <1>1
<1> QED
  BY <1>2, <1>3

LEMMA LastOfIn ==
  ASSUME NEW n \in Nat, NEW S, S \subseteq 1..n, S # {}
  PROVE  LastOf(S) \in S /\ \A j \in S : j <= LastOf(S)
<1> DEFINE N == {n - x : x \in S}
<1>1. N \subseteq Nat /\ N # {}
  OBVIOUS
<1>2. PICK d \in N : \A x \in N : d <= x
  BY <1>1, Least
<1>3. PICK c \in S : d = n - c
  BY <1>2
<1>4. ASSUME NEW x \in S PROVE x <= c
  <2>1. n - c <= n - x /\ x \in Nat /\ c \in Nat
    BY <1>2, <1>3
  <2> QED
    BY <2>1
<1> QED
  BY <1>4 DEF LastOf
-----------------------------------------------------------------------------
(* Kinds of lines *)

LEMMA KeyKind == \A l \in Keys : IsKey(l) /\ ~IsSection(l) /\ ~IsFolder(l)
BY DEF Keys, IsKey, IsSection, IsFolder

LEMMA SectionKind == \A l \in Sections : ~IsKey(l) /\ IsSection(l) /\ ~IsFolder(l)
BY DEF Sections, IsKey, IsSection, IsFolder

LEMMA FolderKind == \A l \in FolderSections : ~IsKey(l) /\ ~IsSection(l) /\ IsFolder(l)
BY DEF FolderSections, IsKey, IsSection, IsFolder

\* What the values of a key may be.
LEMMA KeyValues ==
  \A l \in Keys : /\ l.key = "io_delay_us" => l.val \in {"1", "2", Invalid}
                  /\ l.key = "ext" => l.val = "x"
                  /\ l.key = "target_path" => l.val = Dir
BY DEF Keys, Invalid

\* [general] is the section of that name.
LEMMA GeneralLine ==
  \A l \in Lines : l = [section |-> "general"] <=> IsSection(l) /\ l.section = "general"
<1>1. ASSUME NEW l \in Sections
      PROVE  l = [section |-> "general"] <=> IsSection(l) /\ l.section = "general"
  BY <1>1, SectionKind DEF Sections
<1>2. [section |-> "general"] \in Sections
  BY DEF Sections, SectionNames
<1>3. IsSection([section |-> "general"])
  BY <1>2, SectionKind
<1> QED
  BY <1>1, <1>3, KeyKind, FolderKind DEF Lines
-----------------------------------------------------------------------------
(* What a file means does not change for the lines it has when it grows *)

Appended(l) == l \in Lines /\ lines \in Seq(Lines) /\ lines' = Append(lines, l)

LEMMA AppendedLines ==
  ASSUME NEW l, Appended(l)
  PROVE  /\ Len(lines) \in Nat
         /\ Len(lines)' = Len(lines) + 1
         /\ Len(lines) + 1 # 0
         /\ \A i \in 1..Len(lines) : lines[i] \in Lines /\ lines'[i] = lines[i]
         /\ lines'[Len(lines) + 1] = l
         /\ lines' \in Seq(Lines)
<1> USE DEF Appended
<1>1. Len(lines) \in Nat /\ \A i \in 1..Len(lines) : lines[i] \in Lines
  BY LenProperties, ElementOfSeq
<1>2. /\ lines' \in Seq(Lines)
      /\ Len(lines') = Len(lines) + 1
      /\ \A i \in 1..Len(lines) : lines'[i] = lines[i]
      /\ lines'[Len(lines) + 1] = l
  BY AppendProperties
<1> QED
  BY <1>1, <1>2

LEMMA HeaderOfIs ==
  ASSUME Len(lines) \in Nat, NEW i \in 1..(Len(lines) + 1)
  PROVE  /\ HeaderOf(i) \in 0..(i - 1)
         /\ HeaderOf(i) # 0 => ~IsKey(lines[HeaderOf(i)])
         /\ \A h \in 1..(i - 1) : ~IsKey(lines[h]) => h <= HeaderOf(i) /\ HeaderOf(i) # 0
<1> DEFINE above == {h \in 1..(i - 1) : ~IsKey(lines[h])}
<1>1. CASE above = {}
  <2>1. HeaderOf(i) = 0
    BY <1>1 DEF HeaderOf
  <2> QED
    BY <1>1, <2>1
<1>2. CASE above # {}
  <2>1. HeaderOf(i) = LastOf(above)
    BY <1>2 DEF HeaderOf
  <2>2. i - 1 \in Nat /\ above \subseteq 1..(i - 1)
    OBVIOUS
  <2> HIDE DEF above
  <2>3. LastOf(above) \in above /\ \A j \in above : j <= LastOf(above)
    BY <1>2, <2>2, LastOfIn
  <2> QED
    BY <2>1, <2>2, <2>3 DEF above
<1> QED
  BY <1>1, <1>2

LEMMA HeaderKept ==
  ASSUME NEW l, Appended(l), NEW i \in 1..(Len(lines) + 1)
  PROVE  HeaderOf(i)' = HeaderOf(i)
<1>1. \A h \in 1..(i - 1) : lines'[h] = lines[h]
  BY AppendedLines
<1>2. {h \in 1..(i - 1) : ~IsKey(lines'[h])} = {h \in 1..(i - 1) : ~IsKey(lines[h])}
  BY <1>1
<1> QED
  BY <1>2 DEF HeaderOf

LEMMA CurrentMoves ==
  ASSUME NEW l, Appended(l)
  PROVE  Current' = IF IsKey(l) THEN Current ELSE Len(lines) + 1
<1> DEFINE n == Len(lines)
           above == {h \in 1..n : ~IsKey(lines[h])}
           now == {h \in 1..(n + 1) : ~IsKey(lines'[h])}
<1>1. /\ n \in Nat /\ Len(lines') = n + 1
      /\ \A h \in 1..n : lines'[h] = lines[h]
      /\ lines'[n + 1] = l
  BY AppendedLines
<1>2. Current' = IF now = {} THEN 0 ELSE LastOf(now)
  <2>1. 1..((Len(lines') + 1) - 1) = 1..(n + 1)
    BY <1>1
  <2> QED
    BY <2>1 DEF Current, HeaderOf
<1>3. Current = IF above = {} THEN 0 ELSE LastOf(above)
  <2>1. 1..((n + 1) - 1) = 1..n
    BY <1>1
  <2> QED
    BY <2>1 DEF Current, HeaderOf
<1>4. CASE IsKey(l)
  <2>1. now = above
    BY <1>1, <1>4
  <2> QED
    BY <1>2, <1>3, <1>4, <2>1
<1>5. CASE ~IsKey(l)
  <2>1. n + 1 \in now /\ now \subseteq 1..(n + 1)
    BY <1>1, <1>5
  <2>2. now \subseteq Nat /\ \A j \in now : j <= n + 1
    BY <1>1, <2>1
  <2> HIDE DEF now, above
  <2>3. LastOf(now) = n + 1
    BY <2>1, <2>2, LastOfIs
  <2> QED
    BY <1>2, <1>5, <2>1, <2>3
<1> QED
  BY <1>4, <1>5

\* A line that gives key k in [general], or under header h, as it is read.
GivesInGeneral(l, k) == IsKey(l) /\ l.key = k /\ InGeneral(Len(lines) + 1)
GivesUnder(l, h, k) == IsKey(l) /\ l.key = k /\ Current = h

LEMMA InGeneralKept ==
  ASSUME NEW l, Appended(l), NEW i \in 1..(Len(lines) + 1)
  PROVE  InGeneral(i)' = InGeneral(i)
<1>1. HeaderOf(i)' = HeaderOf(i)
  BY HeaderKept
<1>2. HeaderOf(i) \in 0..(i - 1)
  BY AppendedLines, HeaderOfIs
<1>3. HeaderOf(i) # 0 => lines'[HeaderOf(i)] = lines[HeaderOf(i)]
  BY <1>2, AppendedLines
<1> QED
  BY <1>1, <1>3 DEF InGeneral

LEMMA GivenGrows ==
  ASSUME NEW l, Appended(l), NEW k
  PROVE  /\ Given(k)' = Given(k) \cup (IF GivesInGeneral(l, k) THEN {Len(lines) + 1} ELSE {})
         /\ Given(k) \subseteq 1..Len(lines)
<1> DEFINE n == Len(lines)
<1>1. /\ n \in Nat /\ Len(lines') = n + 1
      /\ \A i \in 1..n : lines'[i] = lines[i]
      /\ lines'[n + 1] = l
  BY AppendedLines
<1>2. \A i \in 1..(n + 1) : InGeneral(i)' <=> InGeneral(i)
  BY InGeneralKept
<1>3. Given(k)' = {i \in 1..(n + 1) : IsKey(lines'[i]) /\ lines'[i].key = k /\ InGeneral(i)'}
  BY <1>1 DEF Given
<1>4. ASSUME NEW i PROVE i \in Given(k)' <=> i \in Given(k) \/ (i = n + 1 /\ GivesInGeneral(l, k))
  <2>1. CASE i \in 1..n
    BY <1>1, <1>2, <1>3, <2>1 DEF Given
  <2>2. CASE i = n + 1
    BY <1>1, <1>2, <1>3, <2>2 DEF Given, GivesInGeneral
  <2>3. CASE i \notin 1..(n + 1)
    BY <1>1, <1>3, <2>3 DEF Given
  <2> QED
    BY <1>1, <2>1, <2>2, <2>3
<1>5. Given(k) \subseteq 1..Len(lines)
  BY DEF Given
<1> QED
  BY <1>4, <1>5

LEMMA GivenUnderGrows ==
  ASSUME NEW l, Appended(l), NEW h, NEW k
  PROVE  /\ GivenUnder(h, k)' = GivenUnder(h, k)
                                  \cup (IF GivesUnder(l, h, k) THEN {Len(lines) + 1} ELSE {})
         /\ GivenUnder(h, k) \subseteq 1..Len(lines)
<1> DEFINE n == Len(lines)
<1>1. /\ n \in Nat /\ Len(lines') = n + 1
      /\ \A i \in 1..n : lines'[i] = lines[i]
      /\ lines'[n + 1] = l
  BY AppendedLines
<1>2. \A i \in 1..(n + 1) : HeaderOf(i)' = HeaderOf(i)
  BY HeaderKept
<1>3. GivenUnder(h, k)' = {i \in 1..(n + 1) : IsKey(lines'[i]) /\ lines'[i].key = k
                                              /\ HeaderOf(i)' = h}
  BY <1>1 DEF GivenUnder
<1>4. ASSUME NEW i
      PROVE  i \in GivenUnder(h, k)' <=>
                i \in GivenUnder(h, k) \/ (i = n + 1 /\ GivesUnder(l, h, k))
  <2>1. CASE i \in 1..n
    BY <1>1, <1>2, <1>3, <2>1 DEF GivenUnder
  <2>2. CASE i = n + 1
    BY <1>1, <1>2, <1>3, <2>2 DEF GivenUnder, GivesUnder, Current
  <2>3. CASE i \notin 1..(n + 1)
    BY <1>1, <1>3, <2>3 DEF GivenUnder
  <2> QED
    BY <1>1, <2>1, <2>2, <2>3
<1>5. GivenUnder(h, k) \subseteq 1..Len(lines)
  BY DEF GivenUnder
<1> QED
  BY <1>4, <1>5

\* What a set of lines that grows at its end says.
LEMMA ValueKept ==
  ASSUME NEW l, Appended(l), NEW d, NEW S, S \subseteq 1..Len(lines)
  PROVE  (IF S = {} THEN d ELSE lines'[LastOf(S)].val) = LastValue(S, d)
<1>1. CASE S = {}
  BY <1>1 DEF LastValue
<1>2. CASE S # {}
  <2>1. LastOf(S) \in S
    BY <1>2, AppendedLines, LastOfIn
  <2>2. lines'[LastOf(S)] = lines[LastOf(S)]
    BY <2>1, AppendedLines
  <2> QED
    BY <1>2, <2>2 DEF LastValue
<1> QED
  BY <1>1, <1>2

LEMMA ValueNew ==
  ASSUME NEW l, Appended(l), NEW S, S \subseteq 1..Len(lines)
  PROVE  lines'[LastOf(S \cup {Len(lines) + 1})].val = l.val
<1> DEFINE n == Len(lines)
           T == S \cup {n + 1}
<1>1. n \in Nat /\ lines'[n + 1] = l
  BY AppendedLines
<1>2. \A j \in S : j \in Nat /\ j <= n + 1
  BY <1>1
<1>3. T \subseteq Nat /\ n + 1 \in T /\ \A j \in T : j <= n + 1
  <2>1. n + 1 \in Nat /\ n + 1 <= n + 1
    BY <1>1
  <2> HIDE DEF n
  <2> QED
    BY <1>2, <2>1
<1> HIDE DEF T
<1>4. LastOf(T) = n + 1
  BY <1>3, LastOfIs
<1> QED
  BY <1>1, <1>4 DEF T

LEMMA ValueGrows ==
  ASSUME NEW l, Appended(l), NEW d, NEW S, S \subseteq 1..Len(lines), NEW T
  PROVE  /\ T = S \cup {Len(lines) + 1}
              => (IF T = {} THEN d ELSE lines'[LastOf(T)].val) = l.val
         /\ T = S => (IF T = {} THEN d ELSE lines'[LastOf(T)].val) = LastValue(S, d)
<1>1. T = S \cup {Len(lines) + 1} => T # {}
  OBVIOUS
<1> QED
  BY <1>1, ValueNew, ValueKept

LEMMA GivenValue ==
  ASSUME NEW l, Appended(l), NEW k, NEW d
  PROVE  LastValue(Given(k), d)' = IF GivesInGeneral(l, k) THEN l.val ELSE LastValue(Given(k), d)
<1>1. LastValue(Given(k), d)' = IF Given(k)' = {} THEN d ELSE lines'[LastOf(Given(k)')].val
  BY DEF LastValue, LastOf
<1> DEFINE T == Given(k)'
<1>2. /\ T = Given(k) \cup (IF GivesInGeneral(l, k) THEN {Len(lines) + 1} ELSE {})
      /\ Given(k) \subseteq 1..Len(lines)
  BY GivenGrows
<1> HIDE DEF T
<1>3. CASE GivesInGeneral(l, k)
  <2>1. T = Given(k) \cup {Len(lines) + 1}
    BY <1>2, <1>3
  <2>2. (IF T = {} THEN d ELSE lines'[LastOf(T)].val) = l.val
    BY <1>2, <2>1, ValueGrows
  <2> QED
    BY <1>1, <1>3, <2>2 DEF T
<1>4. CASE ~GivesInGeneral(l, k)
  <2>1. T = Given(k)
    BY <1>2, <1>4
  <2>2. (IF T = {} THEN d ELSE lines'[LastOf(T)].val) = LastValue(Given(k), d)
    BY <1>2, <2>1, ValueGrows
  <2> QED
    BY <1>1, <1>4, <2>2 DEF T
<1> QED
  BY <1>3, <1>4

LEMMA UnderValue ==
  ASSUME NEW l, Appended(l), NEW h, NEW k, NEW d
  PROVE  LastValue(GivenUnder(h, k), d)' =
           IF GivesUnder(l, h, k) THEN l.val ELSE LastValue(GivenUnder(h, k), d)
<1>1. LastValue(GivenUnder(h, k), d)' =
        IF GivenUnder(h, k)' = {} THEN d ELSE lines'[LastOf(GivenUnder(h, k)')].val
  BY DEF LastValue, LastOf
<1> DEFINE T == GivenUnder(h, k)'
<1>2. /\ T = GivenUnder(h, k) \cup (IF GivesUnder(l, h, k) THEN {Len(lines) + 1} ELSE {})
      /\ GivenUnder(h, k) \subseteq 1..Len(lines)
  BY GivenUnderGrows
<1> HIDE DEF T
<1>3. CASE GivesUnder(l, h, k)
  <2>1. T = GivenUnder(h, k) \cup {Len(lines) + 1}
    BY <1>2, <1>3
  <2>2. (IF T = {} THEN d ELSE lines'[LastOf(T)].val) = l.val
    BY <1>2, <2>1, ValueGrows
  <2> QED
    BY <1>1, <1>3, <2>2 DEF T
<1>4. CASE ~GivesUnder(l, h, k)
  <2>1. T = GivenUnder(h, k)
    BY <1>2, <1>4
  <2>2. (IF T = {} THEN d ELSE lines'[LastOf(T)].val) = LastValue(GivenUnder(h, k), d)
    BY <1>2, <2>1, ValueGrows
  <2> QED
    BY <1>1, <1>4, <2>2 DEF T
<1> QED
  BY <1>3, <1>4

\* Valid(h) grows by the delays that are valid.
LEMMA ValidGrows ==
  ASSUME NEW l, Appended(l), NEW h
  PROVE  /\ Valid(h)' = Valid(h) \cup (IF GivesUnder(l, h, "io_delay_us") /\ l.val # Invalid
                                         THEN {Len(lines) + 1} ELSE {})
         /\ Valid(h) \subseteq 1..Len(lines)
<1> DEFINE n == Len(lines)
           U == GivenUnder(h, "io_delay_us")
<1>1. /\ n \in Nat
      /\ \A i \in 1..n : lines'[i] = lines[i]
      /\ lines'[n + 1] = l
  BY AppendedLines
<1>2. /\ U' = U \cup (IF GivesUnder(l, h, "io_delay_us") THEN {n + 1} ELSE {})
      /\ U \subseteq 1..n
  BY GivenUnderGrows
<1>3. Valid(h)' = {i \in U' : lines'[i].val # Invalid}
  BY DEF Valid
<1>4. Valid(h) = {i \in U : lines[i].val # Invalid}
  BY DEF Valid
<1> HIDE DEF U, n
<1>5. Valid(h)' = Valid(h) \cup (IF GivesUnder(l, h, "io_delay_us") /\ l.val # Invalid
                                   THEN {n + 1} ELSE {})
  BY <1>1, <1>2, <1>3, <1>4
<1>6. Valid(h) \subseteq 1..n
  BY <1>2, <1>4
<1> QED
  BY <1>5, <1>6 DEF n

LEMMA ValidValue ==
  ASSUME NEW l, Appended(l), NEW h, NEW d
  PROVE  LastValue(Valid(h), d)' =
           IF GivesUnder(l, h, "io_delay_us") /\ l.val # Invalid THEN l.val
           ELSE LastValue(Valid(h), d)
<1>1. LastValue(Valid(h), d)' = IF Valid(h)' = {} THEN d ELSE lines'[LastOf(Valid(h)')].val
  BY DEF LastValue, LastOf
<1> DEFINE T == Valid(h)'
           new == GivesUnder(l, h, "io_delay_us") /\ l.val # Invalid
<1>2. /\ T = Valid(h) \cup (IF new THEN {Len(lines) + 1} ELSE {})
      /\ Valid(h) \subseteq 1..Len(lines)
  BY ValidGrows
<1> HIDE DEF T, new
<1>3. CASE new
  <2>1. T = Valid(h) \cup {Len(lines) + 1}
    BY <1>2, <1>3
  <2>2. (IF T = {} THEN d ELSE lines'[LastOf(T)].val) = l.val
    BY <1>2, <2>1, ValueGrows
  <2> QED
    BY <1>1, <1>3, <2>2 DEF T, new
<1>4. CASE ~new
  <2>1. T = Valid(h)
    BY <1>2, <1>4
  <2>2. (IF T = {} THEN d ELSE lines'[LastOf(T)].val) = LastValue(Valid(h), d)
    BY <1>2, <2>1, ValueGrows
  <2> QED
    BY <1>1, <1>4, <2>2 DEF T, new
<1> QED
  BY <1>3, <1>4 DEF new

\* The values of an accumulating key.
LEMMA GivenAll ==
  ASSUME NEW l, Appended(l), NEW k
  PROVE  {lines[i].val : i \in Given(k)}' =
           {lines[i].val : i \in Given(k)} \cup (IF GivesInGeneral(l, k) THEN {l.val} ELSE {})
<1> DEFINE n == Len(lines)
           S == Given(k)
<1>1. /\ n \in Nat
      /\ \A i \in 1..n : lines'[i] = lines[i]
      /\ lines'[n + 1] = l
  BY AppendedLines
<1>2. /\ S' = S \cup (IF GivesInGeneral(l, k) THEN {n + 1} ELSE {})
      /\ S \subseteq 1..n
  BY GivenGrows
<1> HIDE DEF S, n
<1>3. {lines'[i].val : i \in S'} =
        {lines[i].val : i \in S} \cup (IF GivesInGeneral(l, k) THEN {l.val} ELSE {})
  BY <1>1, <1>2
<1> QED
  BY <1>3 DEF S

LEMMA UnderAll ==
  ASSUME NEW l, Appended(l), NEW h, NEW k
  PROVE  {lines[i].val : i \in GivenUnder(h, k)}' =
           {lines[i].val : i \in GivenUnder(h, k)}
             \cup (IF GivesUnder(l, h, k) THEN {l.val} ELSE {})
<1> DEFINE n == Len(lines)
           S == GivenUnder(h, k)
<1>1. /\ n \in Nat
      /\ \A i \in 1..n : lines'[i] = lines[i]
      /\ lines'[n + 1] = l
  BY AppendedLines
<1>2. /\ S' = S \cup (IF GivesUnder(l, h, k) THEN {n + 1} ELSE {})
      /\ S \subseteq 1..n
  BY GivenUnderGrows
<1> HIDE DEF S, n
<1>3. {lines'[i].val : i \in S'} =
        {lines[i].val : i \in S} \cup (IF GivesUnder(l, h, k) THEN {l.val} ELSE {})
  BY <1>1, <1>2
<1> QED
  BY <1>3 DEF S

LEMMA SwitchAbove ==
  ASSUME NEW l, Appended(l), NEW h \in 1..(Len(lines) + 1)
  PROVE  /\ h \in 1..Len(lines) => (SwitchedOn(h)' <=> SwitchedOn(h))
         /\ h = Len(lines) + 1 => (SwitchedOn(h)' <=> Switch)
<1> DEFINE n == Len(lines)
           E == Given("enable_folder_overrides")
           now == E'
           S == {i \in E : i < h}
<1>1. n \in Nat /\ h \in 1..(n + 1)
  BY AppendedLines
<1>2. /\ now = E \cup (IF GivesInGeneral(l, "enable_folder_overrides") THEN {n + 1} ELSE {})
      /\ E \subseteq 1..n
  BY GivenGrows
<1>3. SwitchedOn(h)' <=> (IF {i \in now : i < h} = {} THEN "true"
                          ELSE lines'[LastOf({i \in now : i < h})].val) = "true"
  BY DEF SwitchedOn, LastValue, LastOf
<1>4. SwitchedOn(h) <=> LastValue(S, "true") = "true"
  BY DEF SwitchedOn
<1>5. Switch <=> LastValue(E, "true") = "true"
  BY DEF Switch
<1> HIDE DEF E, now, n
<1>6. ASSUME NEW i PROVE i \in now /\ i < h <=> i \in E /\ i < h
  BY <1>1, <1>2
<1>7. {i \in now : i < h} = S /\ S \subseteq 1..n
  BY <1>2, <1>6
<1>8. h = n + 1 => S = E
  <2>1. h = n + 1 => \A i \in E : i < h
    BY <1>1, <1>2
  <2> QED
    BY <2>1
<1> HIDE DEF S
<1>9. (IF S = {} THEN "true" ELSE lines'[LastOf(S)].val) = LastValue(S, "true")
  BY <1>7, ValueKept DEF n
<1> QED
  BY <1>3, <1>4, <1>5, <1>7, <1>8, <1>9 DEF n

LEMMA CountsKept ==
  ASSUME NEW l, Appended(l), NEW h \in 1..Len(lines)
  PROVE  Counts(h)' <=> Counts(h)
<1>1. Len(lines) \in Nat /\ lines'[h] = lines[h]
  BY AppendedLines
<1>2. SwitchedOn(h)' <=> SwitchedOn(h)
  BY <1>1, SwitchAbove
<1> QED
  BY <1>1, <1>2 DEF Counts

LEMMA CountsNew ==
  ASSUME NEW l, Appended(l), NEW h, h = Len(lines) + 1
  PROVE  Counts(h)' <=> IsFolder(l) /\ l.safe /\ Switch
<1>1. Len(lines) \in Nat /\ lines'[h] = l
  BY AppendedLines
<1>2. SwitchedOn(h)' <=> Switch
  BY <1>1, SwitchAbove
<1> QED
  BY <1>1, <1>2 DEF Counts

LEMMA SpilledGrows ==
  ASSUME NEW l, Appended(l)
  PROVE  /\ Spilled \subseteq Spilled'
         /\ IsKey(l) /\ Current # 0 /\ IsFolder(lines[Current]) /\ ~Counts(Current)
               => Spilled' # {}
<1> DEFINE n == Len(lines)
<1>1. /\ n \in Nat /\ Len(lines') = n + 1
      /\ \A i \in 1..n : lines'[i] = lines[i]
      /\ lines'[n + 1] = l
  BY AppendedLines
<1>2. ASSUME NEW i \in 1..(n + 1), HeaderOf(i) # 0
      PROVE  /\ HeaderOf(i)' = HeaderOf(i)
             /\ lines'[HeaderOf(i)] = lines[HeaderOf(i)]
             /\ Counts(HeaderOf(i))' <=> Counts(HeaderOf(i))
  <2>1. HeaderOf(i)' = HeaderOf(i)
    BY HeaderKept
  <2>2. HeaderOf(i) \in 1..n
    BY <1>1, <1>2, HeaderOfIs
  <2>3. PICK h \in 1..n : h = HeaderOf(i)
    BY <2>2
  <2>4. Counts(h)' <=> Counts(h)
    BY <2>3, CountsKept
  <2>5. Counts(HeaderOf(i))' <=> Counts(h)'
    BY <2>1, <2>3
  <2> QED
    BY <1>1, <2>1, <2>2, <2>3, <2>4, <2>5
<1>3. Spilled \subseteq Spilled'
  BY <1>1, <1>2 DEF Spilled
<1>4. ASSUME IsKey(l), Current # 0, IsFolder(lines[Current]), ~Counts(Current)
      PROVE  Spilled' # {}
  <2>1. PICK i \in 1..(n + 1) : i = n + 1
    BY <1>1
  <2>2. HeaderOf(i) = Current
    BY <2>1 DEF Current
  <2>3. /\ IsKey(lines'[i])
        /\ HeaderOf(i)' # 0
        /\ IsFolder(lines'[HeaderOf(i)'])
        /\ ~Counts(HeaderOf(i))'
    BY <1>1, <1>2, <1>4, <2>1, <2>2
  <2>4. i \in Spilled'
    BY <1>1, <2>1, <2>3 DEF Spilled
  <2> QED
    BY <2>4
<1> QED
  BY <1>3, <1>4
-----------------------------------------------------------------------------
(* The section of a header as lines are added to it *)

LEMMA OverrideKept ==
  ASSUME NEW l, Appended(l), NEW h \in 1..Len(lines), ~(IsKey(l) /\ Current = h)
  PROVE  OverrideOf(h)' = OverrideOf(h)
<1>1. lines'[h] = lines[h]
  BY AppendedLines
<1>2. \A k : ~GivesUnder(l, h, k)
  BY DEF GivesUnder
<1>3. \A k, d : LastValue(GivenUnder(h, k), d)' = LastValue(GivenUnder(h, k), d)
  BY <1>2, UnderValue
<1>4. LastValue(Valid(h), Unset)' = LastValue(Valid(h), Unset)
  BY <1>2, ValidValue
<1>5. {lines[i].val : i \in GivenUnder(h, "ext")}' = {lines[i].val : i \in GivenUnder(h, "ext")}
  BY <1>2, UnderAll
<1>6. OverrideOf(h)' =
        [path |-> lines'[h].folder,
         enabled |-> LastValue(GivenUnder(h, "enabled"), "true")' = "true",
         io_delay_us |-> LastValue(Valid(h), Unset)',
         bare |-> LastValue(GivenUnder(h, "bare"), "false")' = "true",
         exts |-> {lines[i].val : i \in GivenUnder(h, "ext")}']
  BY DEF OverrideOf, Unset
<1>7. /\ LastValue(GivenUnder(h, "enabled"), "true")' = LastValue(GivenUnder(h, "enabled"), "true")
      /\ LastValue(GivenUnder(h, "bare"), "false")' = LastValue(GivenUnder(h, "bare"), "false")
  BY <1>3
<1> QED
  BY <1>1, <1>4, <1>5, <1>6, <1>7 DEF OverrideOf

LEMMA OverrideGrows ==
  ASSUME NEW l \in Keys, Appended(l), NEW h \in 1..Len(lines), Current = h
  PROVE  OverrideOf(h)' = OverrideAfter(OverrideOf(h), l)
<1>1. lines'[h] = lines[h] /\ IsKey(l)
  BY AppendedLines, KeyKind
<1>2. \A k : GivesUnder(l, h, k) <=> l.key = k
  BY <1>1 DEF GivesUnder
<1>3. \A k, d : LastValue(GivenUnder(h, k), d)' =
                  IF l.key = k THEN l.val ELSE LastValue(GivenUnder(h, k), d)
  BY <1>2, UnderValue
<1>4. LastValue(Valid(h), Unset)' = IF l.key = "io_delay_us" /\ l.val # Invalid THEN l.val
                                    ELSE LastValue(Valid(h), Unset)
  BY <1>2, ValidValue
<1>5. {lines[i].val : i \in GivenUnder(h, "ext")}' =
        {lines[i].val : i \in GivenUnder(h, "ext")} \cup (IF l.key = "ext" THEN {l.val} ELSE {})
  BY <1>2, UnderAll
<1>6. OverrideOf(h)' =
        [path |-> lines[h].folder,
         enabled |-> (IF l.key = "enabled" THEN l.val
                      ELSE LastValue(GivenUnder(h, "enabled"), "true")) = "true",
         io_delay_us |-> IF l.key = "io_delay_us" /\ l.val # Invalid THEN l.val
                         ELSE LastValue(Valid(h), Unset),
         bare |-> (IF l.key = "bare" THEN l.val
                   ELSE LastValue(GivenUnder(h, "bare"), "false")) = "true",
         exts |-> {lines[i].val : i \in GivenUnder(h, "ext")}
                     \cup (IF l.key = "ext" THEN {l.val} ELSE {})]
  <2>1. OverrideOf(h)' =
          [path |-> lines'[h].folder,
           enabled |-> LastValue(GivenUnder(h, "enabled"), "true")' = "true",
           io_delay_us |-> LastValue(Valid(h), Unset)',
           bare |-> LastValue(GivenUnder(h, "bare"), "false")' = "true",
           exts |-> {lines[i].val : i \in GivenUnder(h, "ext")}']
    BY DEF OverrideOf, Unset
  <2>2. LastValue(GivenUnder(h, "enabled"), "true")' =
          IF l.key = "enabled" THEN l.val ELSE LastValue(GivenUnder(h, "enabled"), "true")
    BY <1>3
  <2>3. LastValue(GivenUnder(h, "bare"), "false")' =
          IF l.key = "bare" THEN l.val ELSE LastValue(GivenUnder(h, "bare"), "false")
    BY <1>3
  <2> QED
    BY <1>1, <1>4, <1>5, <2>1, <2>2, <2>3
<1> DEFINE o == OverrideOf(h)
<1>7. /\ o = [path |-> o.path, enabled |-> o.enabled, io_delay_us |-> o.io_delay_us,
              bare |-> o.bare, exts |-> o.exts]
      /\ o.path = lines[h].folder
      /\ o.enabled = (LastValue(GivenUnder(h, "enabled"), "true") = "true")
      /\ o.io_delay_us = LastValue(Valid(h), Unset)
      /\ o.bare = (LastValue(GivenUnder(h, "bare"), "false") = "true")
      /\ o.exts = {lines[i].val : i \in GivenUnder(h, "ext")}
  BY DEF OverrideOf
<1> HIDE DEF o
<1>8. CASE l.key = "io_delay_us" /\ l.val # Invalid
  BY <1>6, <1>7, <1>8 DEF OverrideAfter, o
<1>9. CASE l.key = "ext"
  BY <1>6, <1>7, <1>9 DEF OverrideAfter, o
<1>10. CASE l.key = "bare"
  BY <1>6, <1>7, <1>10 DEF OverrideAfter, o
<1>11. CASE l.key = "enabled"
  BY <1>6, <1>7, <1>11 DEF OverrideAfter, o
<1>12. CASE /\ ~(l.key = "io_delay_us" /\ l.val # Invalid)
            /\ l.key \notin {"ext", "bare", "enabled"}
  BY <1>6, <1>7, <1>12 DEF OverrideAfter, o
<1> QED
  BY <1>8, <1>9, <1>10, <1>11, <1>12

LEMMA OverrideNew ==
  ASSUME NEW l \in FolderSections, Appended(l), NEW h, h = Len(lines) + 1
  PROVE  OverrideOf(h)' = Override(l.folder)
<1>1. Len(lines) \in Nat /\ lines'[h] = l /\ ~IsKey(l)
  BY AppendedLines, FolderKind
<1>2. ASSUME NEW k PROVE GivenUnder(h, k)' = {}
  <2>1. GivenUnder(h, k) = {}
    BY <1>1, HeaderOfIs DEF GivenUnder
  <2>2. ~GivesUnder(l, h, k)
    BY <1>1 DEF GivesUnder
  <2> QED
    BY <2>1, <2>2, GivenUnderGrows
<1>3. Valid(h)' = {}
  BY <1>2 DEF Valid
<1> QED
  BY <1>1, <1>2, <1>3 DEF OverrideOf, Override, LastValue
-----------------------------------------------------------------------------
(* Types *)

LEMMA ReadingAppends ==
  ASSUME TypeInv, NEW l \in Lines, lines' = Append(lines, l)
  PROVE  Appended(l)
BY DEF TypeInv, Appended

LEMMA GlobalType ==
  Global \in [io_delay_us : {"0", "1", "2"}, bare : BOOLEAN, exts : SUBSET {"x", DefaultExt},
              targets : SUBSET ({Dir, DefaultDir} \cup CliDirs),
              enable_folder_overrides : BOOLEAN]
BY DEF Global

LEMMA TypeStep == TypeInv /\ [Next]_vars => TypeInv'
<1> SUFFICES ASSUME TypeInv, [Next]_vars PROVE TypeInv'
  OBVIOUS
<1> USE DEF TypeInv
<1>1. ASSUME NEW l \in Sections, ReadSection(l) PROVE TypeInv'
  <2>1. lines' \in Seq(Lines)
    BY <1>1, AppendProperties DEF ReadSection, Lines
  <2>2. l.section \in SectionNames
    BY DEF Sections
  <2> QED
    BY <1>1, <2>1, <2>2 DEF ReadSection, TypeOK
<1>2. ASSUME NEW l \in FolderSections, ReadFolder(l) PROVE TypeInv'
  <2>1. lines' \in Seq(Lines)
    BY <1>2, AppendProperties DEF ReadFolder, Lines
  <2> DEFINE O == [path : Folders, enabled : BOOLEAN, bare : BOOLEAN,
                   io_delay_us : {"1", "2", Unset}, exts : SUBSET {"x"}]
  <2>2. Override(l.folder) \in O
    BY DEF FolderSections, Override
  <2> HIDE DEF O
  <2>3. overrides \in Seq(O)
    BY DEF TypeOK, O
  <2>4. overrides' \in Seq(O)
    BY <1>2, <2>2, <2>3, AppendProperties DEF ReadFolder
  <2>5. section' \in {"", "folder_override"}
    BY <1>2 DEF ReadFolder
  <2> QED
    BY <1>2, <2>1, <2>4, <2>5 DEF ReadFolder, TypeOK, O
<1>3. ASSUME NEW l \in Keys, ReadGlobalKey(l) PROVE TypeInv'
  <2>1. lines' \in Seq(Lines)
    BY <1>3, AppendProperties DEF ReadGlobalKey, Lines
  <2> DEFINE C == [io_delay_us : {"0", "1", "2"}, bare : BOOLEAN, exts : SUBSET {"x", DefaultExt},
                   targets : SUBSET ({Dir, DefaultDir} \cup CliDirs),
                   enable_folder_overrides : BOOLEAN]
  <2>2. cfg \in C
    BY DEF TypeOK
  <2>3. GlobalAfter(l) \in C
    BY <2>2, KeyValues DEF GlobalAfter, Global
  <2> QED
    BY <1>3, <2>1, <2>3 DEF ReadGlobalKey, TypeOK
<1>4. ASSUME NEW l \in Keys, ReadOverrideKey(l) PROVE TypeInv'
  <2>1. lines' \in Seq(Lines)
    BY <1>4, AppendProperties DEF ReadOverrideKey, Lines
  <2> DEFINE O == [path : Folders, enabled : BOOLEAN, bare : BOOLEAN,
                   io_delay_us : {"1", "2", Unset}, exts : SUBSET {"x"}]
             m == Len(overrides)
  <2>2. overrides \in Seq(O) /\ m \in Nat
    BY LenProperties DEF TypeOK
  <2>3. CASE m = 0
    <3>1. overrides' = overrides
      <4>1. DOMAIN overrides = {}
        BY <2>2, <2>3, LenProperties
      <4> QED
        BY <1>4, <2>2, <2>3, <4>1, EmptySeq DEF ReadOverrideKey
    <3> QED
      BY <1>4, <2>1, <3>1 DEF ReadOverrideKey, TypeOK
  <2>4. CASE m # 0
    <3>1. m \in 1..m /\ overrides[m] \in O
      <4> HIDE DEF O
      <4> QED
        BY <2>2, <2>4, ElementOfSeq
    <3>2. OverrideAfter(overrides[m], l) \in O
      BY <3>1, KeyValues DEF OverrideAfter
    <3> HIDE DEF O
    <3>3. overrides' \in Seq(O)
      BY <1>4, <2>2, <3>1, <3>2, ExceptSeq DEF ReadOverrideKey
    <3> QED
      BY <1>4, <2>1, <3>3 DEF ReadOverrideKey, TypeOK, O
  <2> QED
    BY <2>3, <2>4
<1>5. ASSUME NEW l \in Keys, ReadOtherKey(l) PROVE TypeInv'
  <2>1. lines' \in Seq(Lines)
    BY <1>5, AppendProperties DEF ReadOtherKey, Lines
  <2> QED
    BY <1>5, <2>1 DEF ReadOtherKey, TypeOK
<1>6. CASE Finish
  BY <1>6 DEF Finish, TypeOK
<1>7. CASE Reload
  <2>1. lines' \in Seq(Lines)
    BY <1>7, EmptySeq DEF Reload
  <2>2. overrides' \in Seq([path : Folders, enabled : BOOLEAN, bare : BOOLEAN,
                            io_delay_us : {"1", "2", Unset}, exts : SUBSET {"x"}])
    BY <1>7, EmptySeq DEF Reload
  <2>3. /\ phase' = "rereading" /\ section' = "general" /\ cli' \in SUBSET CliDirs
        /\ cfg' = Global
    BY <1>7 DEF Reload
  <2>4. cfg' \in [io_delay_us : {"0", "1", "2"}, bare : BOOLEAN, exts : SUBSET {"x", DefaultExt},
                 targets : SUBSET ({Dir, DefaultDir} \cup CliDirs),
                 enable_folder_overrides : BOOLEAN]
    BY <2>3, GlobalType
  <2> QED
    BY <2>1, <2>2, <2>3, <2>4 DEF TypeOK, SectionNames
<1>8. CASE UNCHANGED vars
  BY <1>8 DEF vars, TypeOK
<1> QED
  BY <1>1, <1>2, <1>3, <1>4, <1>5, <1>6, <1>7, <1>8 DEF Next

LEMMA InitType == Init => TypeInv
<1> SUFFICES ASSUME Init PROVE TypeInv
  OBVIOUS
<1>1. lines \in Seq(Lines)
  BY EmptySeq DEF Init
<1>2. overrides \in Seq([path : Folders, enabled : BOOLEAN, bare : BOOLEAN,
                         io_delay_us : {"1", "2", Unset}, exts : SUBSET {"x"}])
  BY EmptySeq DEF Init
<1>3. /\ phase = "reading" /\ section = "general" /\ cli \in SUBSET CliDirs
      /\ cfg = Global
  BY DEF Init
<1>4. cfg \in [io_delay_us : {"0", "1", "2"}, bare : BOOLEAN, exts : SUBSET {"x", DefaultExt},
              targets : SUBSET ({Dir, DefaultDir} \cup CliDirs),
              enable_folder_overrides : BOOLEAN]
  BY <1>3, GlobalType
<1> QED
  BY <1>1, <1>2, <1>3, <1>4 DEF TypeInv, TypeOK, SectionNames

\* Every variable of the parser keeps its type.
THEOREM ConfigTypeCorrect == Spec => []TypeOK
<1>1. TypeInv => TypeOK
  BY DEF TypeInv
<1> QED
  BY InitType, TypeStep, <1>1, PTL DEF Spec
-----------------------------------------------------------------------------
(* The parser keeps what the file says *)

IsReading == phase \in {"reading", "rereading"}

\* A line that says nothing in [general].
LEMMA GlobalsKept ==
  ASSUME NEW l, Appended(l), GlobalsRead, IsReading, UNCHANGED <<phase, cli, cfg>>,
         ~(IsKey(l) /\ InGeneral(Len(lines) + 1))
  PROVE  GlobalsRead'
<1>1. \A k : ~GivesInGeneral(l, k)
  BY DEF GivesInGeneral
<1>2. \A k : Given(k)' = Given(k)
  BY <1>1, GivenGrows
<1>3. \A k, d : LastValue(Given(k), d)' = LastValue(Given(k), d)
  BY <1>1, GivenValue
<1>4. AllGiven("ext")' = AllGiven("ext")
  BY <1>1, GivenAll DEF AllGiven
<1>5. LastValue(Given("target_path"), DefaultDir)' = LastValue(Given("target_path"), DefaultDir)
  BY <1>3
<1>6. GivenTargets' = GivenTargets
  BY <1>2, <1>5 DEF GivenTargets, DefaultDir
<1>7. WrittenDelay' = WrittenDelay
  <2>1. LastValue(Given("io_delay_us"), "0")' = LastValue(Given("io_delay_us"), "0")
    BY <1>3
  <2> QED
    BY <2>1 DEF WrittenDelay, Invalid
<1>8. Switch' <=> Switch
  <2>1. LastValue(Given("enable_folder_overrides"), "true")'
          = LastValue(Given("enable_folder_overrides"), "true")
    BY <1>3
  <2> QED
    BY <2>1 DEF Switch
<1>9. LastValue(Given("bare"), "false")' = LastValue(Given("bare"), "false")
  BY <1>3
<1> QED
  BY <1>4, <1>6, <1>7, <1>8, <1>9 DEF GlobalsRead, IsReading, Switch

\* A key of [general].
LEMMA GlobalsGrow ==
  ASSUME TypeInv, NEW l \in Keys, Appended(l), GlobalsRead, IsReading, UNCHANGED <<phase, cli>>,
         InGeneral(Len(lines) + 1), cfg' = GlobalAfter(l)
  PROVE  GlobalsRead'
<1>1. \A k : GivesInGeneral(l, k) <=> l.key = k
  BY KeyKind DEF GivesInGeneral
<1>2. LastValue(Given("io_delay_us"), "0")' =
        IF l.key = "io_delay_us" THEN l.val ELSE LastValue(Given("io_delay_us"), "0")
  BY <1>1, GivenValue
<1>3. LastValue(Given("bare"), "false")' =
        IF l.key = "bare" THEN l.val ELSE LastValue(Given("bare"), "false")
  BY <1>1, GivenValue
<1>4. LastValue(Given("enable_folder_overrides"), "true")' =
        IF l.key = "enable_folder_overrides" THEN l.val
        ELSE LastValue(Given("enable_folder_overrides"), "true")
  BY <1>1, GivenValue
<1>5. AllGiven("ext")' = AllGiven("ext") \cup (IF l.key = "ext" THEN {l.val} ELSE {})
  BY <1>1, GivenAll DEF AllGiven
<1>6. GivenTargets' = IF l.key = "target_path" THEN {l.val} ELSE GivenTargets
  <2>1. LastValue(Given("target_path"), DefaultDir)' =
          IF l.key = "target_path" THEN l.val ELSE LastValue(Given("target_path"), DefaultDir)
    BY <1>1, GivenValue
  <2>2. Given("target_path")' = Given("target_path")
                                  \cup (IF l.key = "target_path" THEN {Len(lines) + 1} ELSE {})
    BY <1>1, GivenGrows
  <2> QED
    BY <2>1, <2>2 DEF GivenTargets, DefaultDir
<1>7. WrittenDelay' = IF l.key = "io_delay_us" THEN IF l.val = Invalid THEN "0" ELSE l.val
                      ELSE WrittenDelay
  BY <1>2 DEF WrittenDelay, Invalid
<1>8. Switch' <=> IF l.key = "enable_folder_overrides" THEN l.val = "true" ELSE Switch
  BY <1>4 DEF Switch
<1>9. /\ cfg = [io_delay_us |-> WrittenDelay, bare |-> LastValue(Given("bare"), "false") = "true",
                exts |-> AllGiven("ext"), targets |-> GivenTargets,
                enable_folder_overrides |-> Switch]
  BY DEF GlobalsRead, IsReading, TypeInv, TypeOK
<1>10. cfg' = [io_delay_us |-> WrittenDelay', bare |-> LastValue(Given("bare"), "false")' = "true",
               exts |-> AllGiven("ext")', targets |-> GivenTargets',
               enable_folder_overrides |-> Switch']
  <2>1. CASE l.key = "io_delay_us"
    BY <2>1, <1>2, <1>3, <1>5, <1>6, <1>7, <1>8, <1>9 DEF GlobalAfter, Global
  <2>2. CASE l.key = "ext"
    BY <2>2, <1>2, <1>3, <1>5, <1>6, <1>7, <1>8, <1>9 DEF GlobalAfter, Global
  <2>3. CASE l.key = "target_path"
    BY <2>3, <1>2, <1>3, <1>5, <1>6, <1>7, <1>8, <1>9 DEF GlobalAfter, Global
  <2>4. CASE l.key = "bare"
    BY <2>4, <1>2, <1>3, <1>5, <1>6, <1>7, <1>8, <1>9 DEF GlobalAfter, Global
  <2>5. CASE l.key = "enable_folder_overrides"
    BY <2>5, <1>2, <1>3, <1>5, <1>6, <1>7, <1>8, <1>9 DEF GlobalAfter, Global
  <2>6. CASE l.key = "enabled"
    BY <2>6, <1>2, <1>3, <1>5, <1>6, <1>7, <1>8, <1>9 DEF GlobalAfter, Global
  <2> QED
    BY <2>1, <2>2, <2>3, <2>4, <2>5, <2>6 DEF Keys
<1> QED
  BY <1>10 DEF GlobalsRead, IsReading

\* A line that neither opens a section that counts nor is a key of one.
LEMMA OverridesKept ==
  ASSUME TypeInv, NEW l, Appended(l), OverridesRead, UNCHANGED overrides,
         ~(IsFolder(l) /\ l.safe /\ Switch),
         ~(IsKey(l) /\ Current # 0 /\ Counts(Current))
  PROVE  OverridesRead'
<1> DEFINE n == Len(lines)
           m == Len(overrides)
<1>1. /\ n \in Nat /\ Len(lines') = n + 1 /\ m \in Nat
  BY AppendedLines, LenProperties DEF TypeInv, TypeOK
<1>2. PICK at \in [1..m -> 1..n] : /\ HeadersAre(at)
                                   /\ \A k \in 1..m : overrides[k] = OverrideOf(at[k])
  BY DEF OverridesRead
<1>3. at \in [1..m -> 1..(n + 1)]
  BY <1>1
<1>4. ASSUME NEW h \in 1..(n + 1)
      PROVE  Counts(h)' <=> h \in 1..n /\ Counts(h)
  <2>1. CASE h \in 1..n
    BY <2>1, CountsKept
  <2>2. CASE h = n + 1
    BY <1>1, <2>2, CountsNew
  <2> QED
    BY <1>1, <2>1, <2>2
<1>5. ASSUME NEW k \in 1..m PROVE overrides[k] = OverrideOf(at[k])'
  <2>1. at[k] \in 1..n /\ Counts(at[k])
    BY <1>2 DEF HeadersAre
  <2>2. ~(IsKey(l) /\ Current = at[k])
    BY <1>1, <2>1
  <2> QED
    BY <1>2, <2>1, <2>2, OverrideKept
<1>6. HeadersAre(at)'
  <2>1. \A j, k \in 1..m : j < k => at[j] < at[k]
    BY <1>2 DEF HeadersAre
  <2>2. \A h \in 1..n : Counts(h) <=> \E k \in 1..m : h = at[k]
    BY <1>2 DEF HeadersAre
  <2>3. \A h \in 1..(n + 1) : Counts(h)' <=> \E k \in 1..m : h = at[k]
    BY <1>1, <1>4, <2>2
  <2> QED
    BY <1>1, <1>3, <2>1, <2>3 DEF HeadersAre
<1> QED
  BY <1>1, <1>3, <1>5, <1>6 DEF OverridesRead

\* The header of a section that counts.
LEMMA OverridesOpen ==
  ASSUME TypeInv, NEW l \in FolderSections, Appended(l), OverridesRead,
         l.safe, Switch, overrides' = Append(overrides, Override(l.folder))
  PROVE  OverridesRead'
<1> DEFINE n == Len(lines)
           m == Len(overrides)
           O == [path : Folders, enabled : BOOLEAN, bare : BOOLEAN,
                 io_delay_us : {"1", "2", Unset}, exts : SUBSET {"x"}]
<1>1. n \in Nat /\ Len(lines') = n + 1
  BY AppendedLines
<1>2. Override(l.folder) \in O
  BY DEF FolderSections, Override
<1>3. /\ m \in Nat /\ Len(overrides') = m + 1
      /\ \A k \in 1..m : overrides'[k] = overrides[k]
      /\ overrides'[m + 1] = Override(l.folder)
  <2>1. overrides \in Seq(O)
    BY DEF TypeInv, TypeOK
  <2> HIDE DEF O
  <2> QED
    BY <1>2, <2>1, AppendProperties, LenProperties
<1> HIDE DEF O
<1>4. PICK at \in [1..m -> 1..n] : /\ HeadersAre(at)
                                   /\ \A k \in 1..m : overrides[k] = OverrideOf(at[k])
  BY DEF OverridesRead
<1>5. PICK new : /\ new \in [1..(m + 1) -> 1..(n + 1)]
                 /\ new[m + 1] = n + 1
                 /\ \A k \in 1..m : new[k] = at[k] /\ new[k] \in 1..n
  <2> DEFINE longer == [k \in 1..(m + 1) |-> IF k = m + 1 THEN n + 1 ELSE at[k]]
  <2>1. \A k \in 1..m : at[k] \in 1..n /\ k # m + 1 /\ k \in 1..(m + 1)
    BY <1>3, <1>4
  <2>2. m + 1 \in 1..(m + 1) /\ n + 1 \in 1..(n + 1) /\ \A x \in 1..n : x \in 1..(n + 1)
    BY <1>1, <1>3
  <2>3. \A k \in 1..(m + 1) : k = m + 1 \/ k \in 1..m
    BY <1>3
  <2> HIDE DEF n, m
  <2>4. longer \in [1..(m + 1) -> 1..(n + 1)]
    BY <2>1, <2>2, <2>3
  <2>5. longer[m + 1] = n + 1 /\ \A k \in 1..m : longer[k] = at[k]
    BY <2>1, <2>2
  <2> QED
    BY <2>1, <2>4, <2>5
<1>6. /\ \A h \in 1..n : Counts(h)' <=> Counts(h)
      /\ \A h : h = n + 1 => Counts(h)'
  BY CountsKept, CountsNew, FolderKind
<1>7. HeadersAre(new)'
  <2>1. ASSUME NEW j \in 1..(m + 1), NEW k \in 1..(m + 1), j < k
        PROVE  new[j] < new[k]
    <3>1. j \in 1..m
      BY <1>3, <2>1
    <3>2. CASE k = m + 1
      BY <1>1, <1>5, <3>1, <3>2
    <3>3. CASE k \in 1..m
      BY <1>4, <1>5, <2>1, <3>1, <3>3 DEF HeadersAre
    <3> QED
      BY <1>3, <3>2, <3>3
  <2>2. ASSUME NEW h \in 1..(n + 1)
        PROVE  Counts(h)' <=> \E k \in 1..(m + 1) : h = new[k]
    <3>1. CASE h \in 1..n
      <4>1. Counts(h) <=> \E k \in 1..m : h = at[k]
        BY <1>4, <3>1 DEF HeadersAre
      <4>2. (\E k \in 1..m : h = at[k]) <=> \E k \in 1..(m + 1) : h = new[k]
        <5>1. h # n + 1 /\ \A k : k \in 1..(m + 1) <=> k \in 1..m \/ k = m + 1
          BY <1>1, <1>3, <3>1
        <5> HIDE DEF n, m
        <5> QED
          BY <1>5, <5>1
      <4> QED
        BY <1>6, <3>1, <4>1, <4>2
    <3>2. CASE h = n + 1
      BY <1>3, <1>5, <1>6, <3>2
    <3> QED
      BY <1>1, <3>1, <3>2
  <2> QED
    BY <1>1, <1>3, <1>5, <2>1, <2>2 DEF HeadersAre
<1>8. ASSUME NEW k \in 1..(m + 1) PROVE overrides'[k] = OverrideOf(new[k])'
  <2>1. CASE k \in 1..m
    <3>1. OverrideOf(new[k])' = OverrideOf(new[k])
      BY <1>5, <2>1, FolderKind, OverrideKept
    <3> QED
      BY <1>3, <1>4, <1>5, <2>1, <3>1
  <2>2. CASE k = m + 1
    BY <1>3, <1>5, <2>2, OverrideNew
  <2> QED
    BY <1>3, <2>1, <2>2
<1>9. new \in [1..Len(overrides') -> 1..Len(lines')]
  BY <1>1, <1>3, <1>5
<1>10. \A k \in 1..Len(overrides') : overrides'[k] = OverrideOf(new[k])'
  BY <1>3, <1>8
<1> HIDE DEF n, m
<1> QED
  BY <1>7, <1>9, <1>10 DEF OverridesRead
-----------------------------------------------------------------------------
(* The section the parser is in *)

LEMMA LineKinds ==
  \A l \in Lines : \/ IsKey(l) /\ ~IsSection(l) /\ ~IsFolder(l)
                   \/ ~IsKey(l) /\ IsSection(l) /\ ~IsFolder(l) /\ l.section \in SectionNames
                   \/ ~IsKey(l) /\ ~IsSection(l) /\ IsFolder(l)
<1>1. \A l \in Sections : l.section \in SectionNames
  BY DEF Sections
<1> QED
  BY <1>1, KeyKind, SectionKind, FolderKind DEF Lines

LEMMA CurrentIs ==
  ASSUME TypeInv
  PROVE  /\ Len(lines) \in Nat
         /\ Current \in 0..Len(lines)
         /\ Current # 0 => lines[Current] \in Lines /\ ~IsKey(lines[Current])
<1>1. Len(lines) \in Nat /\ \A i \in 1..Len(lines) : lines[i] \in Lines
  BY LenProperties, ElementOfSeq DEF TypeInv
<1>2. PICK i \in 1..(Len(lines) + 1) : i = Len(lines) + 1
  BY <1>1
<1>3. Current = HeaderOf(i)
  BY <1>2 DEF Current
<1> QED
  BY <1>1, <1>2, <1>3, HeaderOfIs

LEMMA KeyKeepsSection ==
  ASSUME TypeInv, NEW l \in Keys, Appended(l), InSection, UNCHANGED section
  PROVE  InSection'
<1>1. Current' = Current
  BY CurrentMoves, KeyKind
<1>2. CASE Current = 0
  BY <1>1, <1>2 DEF InSection
<1>3. CASE Current # 0
  <2>1. PICK c \in 1..Len(lines) : c = Current
    BY <1>3, CurrentIs
  <2>2. lines'[c] = lines[c] /\ (Counts(c)' <=> Counts(c))
    BY AppendedLines, CountsKept
  <2>3. section' = IF IsSection(lines'[c]) THEN lines'[c].section
                   ELSE IF Counts(c)' THEN "folder_override" ELSE ""
    BY <1>3, <2>1, <2>2 DEF InSection
  <2>4. c = Current'
    BY <1>1, <2>1
  <2>5. Counts(Current)' <=> Counts(c)'
    BY <2>4
  <2> QED
    BY <1>3, <2>1, <2>3, <2>4, <2>5 DEF InSection
<1> QED
  BY <1>2, <1>3

\* The line that opens a section.
LEMMA HeaderMoves ==
  ASSUME TypeInv, NEW l \in Lines, ~IsKey(l), Appended(l),
         section' = IF IsSection(l) THEN l.section
                    ELSE IF l.safe /\ Switch THEN "folder_override" ELSE ""
  PROVE  InSection'
<1>1. PICK c : c = Len(lines) + 1
  OBVIOUS
<1>2. c = Current' /\ c # 0 /\ lines'[c] = l
  <2>1. Current' = Len(lines) + 1
    BY CurrentMoves
  <2>2. Len(lines) + 1 # 0 /\ lines'[Len(lines) + 1] = l
    BY AppendedLines
  <2> QED
    BY <1>1, <2>1, <2>2
<1>3. ~IsSection(l) => (Counts(c)' <=> l.safe /\ Switch)
  BY <1>1, CountsNew, LineKinds
<1>4. Counts(Current)' <=> Counts(c)'
  BY <1>2
<1> QED
  BY <1>2, <1>3, <1>4 DEF InSection
-----------------------------------------------------------------------------
(* The steps *)

LEMMA SameLines ==
  ASSUME UNCHANGED lines
  PROVE  /\ Current' = Current
         /\ \A k : Given(k)' = Given(k)
         /\ Spilled' = Spilled
         /\ \A h : Counts(h)' <=> Counts(h)
         /\ \A h : OverrideOf(h)' = OverrideOf(h)
         /\ \A k, d : LastValue(Given(k), d)' = LastValue(Given(k), d)
<1>1. \A i : HeaderOf(i)' = HeaderOf(i)
  BY DEF HeaderOf
<1>2. Current' = Current
  BY DEF Current, HeaderOf
<1>3. \A k : Given(k)' = Given(k)
  BY <1>1 DEF Given, InGeneral
<1>4. \A h, k : GivenUnder(h, k)' = GivenUnder(h, k)
  BY <1>1 DEF GivenUnder
<1>5. \A k, d : LastValue(Given(k), d)' = LastValue(Given(k), d)
  BY <1>3 DEF LastValue
<1>6. \A h : SwitchedOn(h)' <=> SwitchedOn(h)
  BY <1>3 DEF SwitchedOn, LastValue
<1>7. \A h : Counts(h)' <=> Counts(h)
  BY <1>6 DEF Counts
<1>8. Spilled' = Spilled
  BY DEF Spilled, Counts, SwitchedOn, LastValue, Given, InGeneral, HeaderOf
<1>9. \A h : OverrideOf(h)' = OverrideOf(h)
  BY <1>4 DEF OverrideOf, Valid, LastValue
<1> QED
  BY <1>2, <1>3, <1>5, <1>7, <1>8, <1>9

\* A state in which the file does not change keeps what was read.
LEMMA SameOverrides ==
  ASSUME UNCHANGED <<lines, overrides>>, OverridesRead
  PROVE  OverridesRead'
<1>1. PICK at \in [1..Len(overrides) -> 1..Len(lines)] :
        /\ HeadersAre(at)
        /\ \A k \in 1..Len(overrides) : overrides[k] = OverrideOf(at[k])
  BY DEF OverridesRead
<1>2. HeadersAre(at)'
  BY <1>1, SameLines DEF HeadersAre
<1>3. \A k \in 1..Len(overrides) : overrides[k] = OverrideOf(at[k])'
  BY <1>1, SameLines
<1> QED
  BY <1>1, <1>2, <1>3 DEF OverridesRead

LEMMA SameGlobals ==
  ASSUME UNCHANGED <<lines, cfg, phase, cli>>, GlobalsRead
  PROVE  GlobalsRead'
<1>1. /\ \A k : Given(k)' = Given(k)
      /\ \A k, d : LastValue(Given(k), d)' = LastValue(Given(k), d)
  BY SameLines
<1>2. /\ WrittenDelay' = WrittenDelay
      /\ Switch' <=> Switch
      /\ WrittenExts' = WrittenExts
      /\ WrittenTargets' = WrittenTargets
      /\ AllGiven("ext")' = AllGiven("ext")
      /\ GivenTargets' = GivenTargets
  BY <1>1 DEF WrittenDelay, Switch, WrittenExts, WrittenTargets, AllGiven, GivenTargets, LastValue
<1>3. LastValue(Given("bare"), "false")' = LastValue(Given("bare"), "false")
  BY <1>1
<1> QED
  BY <1>2, <1>3 DEF GlobalsRead

LEMMA SameSection ==
  ASSUME UNCHANGED <<lines, section>>, InSection
  PROVE  InSection'
<1>1. Current' = Current
  BY SameLines
<1>2. Counts(Current)' <=> Counts(Current)
  BY <1>1, SameLines
<1> QED
  BY <1>1, <1>2 DEF InSection

Start == /\ lines = <<>> /\ overrides = <<>>
         /\ section = "general" /\ cfg = Global /\ IsReading

LEMMA StartCInv == Start => CInv
<1> SUFFICES ASSUME Start PROVE CInv
  OBVIOUS
<1> USE DEF Start
<1>1. Len(lines) = 0 /\ Len(overrides) = 0
  OBVIOUS
<1>2. Current = 0
  BY <1>1 DEF Current, HeaderOf
<1>3. \A k : Given(k) = {}
  BY <1>1 DEF Given
<1>4. InSection
  BY <1>2 DEF InSection
<1>5. GlobalsRead
  BY <1>3 DEF GlobalsRead, IsReading, WrittenDelay, LastValue, Switch, AllGiven, GivenTargets,
              Global, Invalid
<1>6. OverridesRead
  <2> DEFINE at == [k \in 1..0 |-> 0]
  <2>1. at \in [1..Len(overrides) -> 1..Len(lines)]
    BY <1>1
  <2>2. HeadersAre(at)
    BY <1>1, <2>1 DEF HeadersAre
  <2>3. \A k \in 1..Len(overrides) : overrides[k] = OverrideOf(at[k])
    BY <1>1
  <2> HIDE DEF at
  <2> QED
    BY <2>1, <2>2, <2>3 DEF OverridesRead
<1> QED
  BY <1>4, <1>5, <1>6 DEF CInv

LEMMA FinishKeepsCInv ==
  ASSUME TypeInv, CInv, Finish
  PROVE  CInv'
<1> USE DEF Finish
<1>1. Spilled' = Spilled /\ \A k : Given(k)' = Given(k)
  BY SameLines
<1> SUFFICES ASSUME Spilled = {} PROVE InSection' /\ GlobalsRead' /\ OverridesRead'
  BY <1>1 DEF CInv
<1>2. InSection /\ GlobalsRead /\ OverridesRead
  BY DEF CInv
<1>3. InSection'
  BY <1>2, SameSection
<1>4. OverridesRead'
  BY <1>2, SameOverrides
<1>5. \A k, d : LastValue(Given(k), d)' = LastValue(Given(k), d)
  BY SameLines
<1>6. /\ WrittenDelay' = WrittenDelay
      /\ Switch' <=> Switch
      /\ WrittenExts' = WrittenExts
      /\ WrittenTargets' = WrittenTargets
  BY <1>1, <1>5 DEF WrittenDelay, Switch, WrittenExts, WrittenTargets, LastValue
<1>7. /\ WrittenExts = IF AllGiven("ext") = {} THEN {DefaultExt} ELSE AllGiven("ext")
      /\ WrittenTargets = IF GivenTargets = {} THEN {DefaultDir} ELSE GivenTargets
  BY DEF WrittenExts, AllGiven, WrittenTargets, GivenTargets, LastValue
<1>8. LastValue(Given("bare"), "false")' = LastValue(Given("bare"), "false")
  BY <1>5
<1>9. /\ phase \in {"reading", "rereading"} /\ phase' \in {"loaded", "reloaded"}
      /\ cli' = cli
      /\ cfg' = [cfg EXCEPT !.exts = WrittenExts,
                            !.targets = IF cli # {} THEN cli ELSE WrittenTargets]
  BY <1>2, <1>7 DEF GlobalsRead
<1>10. GlobalsRead'
  BY <1>2, <1>6, <1>8, <1>9 DEF GlobalsRead, TypeInv, TypeOK
<1> QED
  BY <1>3, <1>4, <1>10

\* What holds before a line is read, and what of the line.
LEMMA LineRead ==
  ASSUME CInv, NEW l, Appended(l), Spilled' = {}
  PROVE  /\ InSection /\ GlobalsRead /\ OverridesRead
         /\ ~(IsKey(l) /\ Current # 0 /\ IsFolder(lines[Current]) /\ ~Counts(Current))
<1>1. Spilled = {}
  BY SpilledGrows
<1> QED
  BY <1>1, SpilledGrows DEF CInv

LEMMA SectionKeepsCInv ==
  ASSUME TypeInv, CInv, NEW l \in Sections, ReadSection(l)
  PROVE  CInv'
<1> SUFFICES ASSUME Spilled' = {} PROVE InSection' /\ GlobalsRead' /\ OverridesRead'
  BY DEF CInv
<1> USE DEF ReadSection, Reading
<1>1. l \in Lines /\ Appended(l)
  BY ReadingAppends DEF Lines
<1>2. ~IsKey(l) /\ IsSection(l) /\ ~IsFolder(l)
  BY SectionKind
<1>3. InSection /\ GlobalsRead /\ OverridesRead
  BY <1>1, LineRead
<1>4. InSection'
  BY <1>1, <1>2, HeaderMoves
<1>5. GlobalsRead'
  BY <1>1, <1>2, <1>3, GlobalsKept DEF IsReading
<1>6. OverridesRead'
  BY <1>1, <1>2, <1>3, OverridesKept
<1> QED
  BY <1>4, <1>5, <1>6

LEMMA FolderKeepsCInv ==
  ASSUME TypeInv, CInv, NEW l \in FolderSections, ReadFolder(l)
  PROVE  CInv'
<1> SUFFICES ASSUME Spilled' = {} PROVE InSection' /\ GlobalsRead' /\ OverridesRead'
  BY DEF CInv
<1> USE DEF ReadFolder, Reading
<1>1. l \in Lines /\ Appended(l)
  BY ReadingAppends DEF Lines
<1>2. ~IsKey(l) /\ ~IsSection(l) /\ IsFolder(l)
  BY FolderKind
<1>3. InSection /\ GlobalsRead /\ OverridesRead
  BY <1>1, LineRead
<1>4. cfg.enable_folder_overrides <=> Switch
  BY <1>3 DEF GlobalsRead
<1>5. InSection'
  BY <1>1, <1>2, <1>4, HeaderMoves
<1>6. GlobalsRead'
  BY <1>1, <1>2, <1>3, GlobalsKept DEF IsReading
<1>7. OverridesRead'
  <2>1. CASE l.safe /\ Switch
    BY <1>1, <1>3, <1>4, <2>1, OverridesOpen
  <2>2. CASE ~(l.safe /\ Switch)
    BY <1>1, <1>2, <1>3, <1>4, <2>2, OverridesKept
  <2> QED
    BY <2>1, <2>2
<1> QED
  BY <1>5, <1>6, <1>7

\* A section that counts is a folder's.
LEMMA FolderCounts == \A h : Counts(h) => IsFolder(lines[h])
BY DEF Counts

LEMMA GlobalKeyKeepsCInv ==
  ASSUME TypeInv, CInv, NEW l \in Keys, ReadGlobalKey(l)
  PROVE  CInv'
<1> SUFFICES ASSUME Spilled' = {} PROVE InSection' /\ GlobalsRead' /\ OverridesRead'
  BY DEF CInv
<1> USE DEF ReadGlobalKey, Reading
<1>1. l \in Lines /\ Appended(l) /\ IsKey(l) /\ ~IsFolder(l)
  BY ReadingAppends, KeyKind DEF Lines
<1>2. /\ InSection /\ GlobalsRead /\ OverridesRead
      /\ ~(Current # 0 /\ IsFolder(lines[Current]) /\ ~Counts(Current))
  BY <1>1, LineRead
<1>3. Current # 0 => IsSection(lines[Current]) /\ lines[Current].section = "general"
  <2>1. Current # 0 => lines[Current] \in Lines /\ ~IsKey(lines[Current])
    BY CurrentIs
  <2>2. Current # 0 /\ ~IsSection(lines[Current]) => Counts(Current)
    BY <1>2, <2>1, LineKinds
  <2>3. Current # 0 /\ IsSection(lines[Current]) => lines[Current].section \in {"general", "other"}
    BY <2>1, LineKinds DEF SectionNames
  <2> QED
    BY <1>2, <2>2, <2>3 DEF InSection
<1>4. InGeneral(Len(lines) + 1)
  <2>1. Current # 0 => lines[Current] = [section |-> "general"]
    BY <1>3, CurrentIs, GeneralLine
  <2> QED
    BY <2>1 DEF InGeneral, Current
<1>5. ~(Current # 0 /\ Counts(Current))
  BY <1>3, CurrentIs, LineKinds, FolderCounts
<1>6. InSection'
  BY <1>1, <1>2, KeyKeepsSection
<1>7. GlobalsRead'
  BY <1>1, <1>2, <1>4, GlobalsGrow DEF IsReading
<1>8. OverridesRead'
  BY <1>1, <1>2, <1>5, OverridesKept
<1> QED
  BY <1>6, <1>7, <1>8

LEMMA OtherKeyKeepsCInv ==
  ASSUME TypeInv, CInv, NEW l \in Keys, ReadOtherKey(l)
  PROVE  CInv'
<1> SUFFICES ASSUME Spilled' = {} PROVE InSection' /\ GlobalsRead' /\ OverridesRead'
  BY DEF CInv
<1> USE DEF ReadOtherKey, Reading
<1>1. l \in Lines /\ Appended(l) /\ IsKey(l) /\ ~IsFolder(l)
  BY ReadingAppends, KeyKind DEF Lines
<1>2. InSection /\ GlobalsRead /\ OverridesRead
  BY <1>1, LineRead
<1>3. Current # 0 /\ IsSection(lines[Current]) /\ lines[Current].section = "other"
  BY <1>2 DEF InSection
<1>4. ~InGeneral(Len(lines) + 1)
  <2>1. lines[Current] # [section |-> "general"]
    BY <1>3, CurrentIs, GeneralLine
  <2> QED
    BY <1>3, <2>1 DEF InGeneral, Current
<1>5. ~Counts(Current)
  BY <1>3, CurrentIs, LineKinds, FolderCounts
<1>6. InSection'
  BY <1>1, <1>2, KeyKeepsSection
<1>7. GlobalsRead'
  BY <1>1, <1>2, <1>4, GlobalsKept DEF IsReading
<1>8. OverridesRead'
  BY <1>1, <1>2, <1>5, OverridesKept
<1> QED
  BY <1>6, <1>7, <1>8

\* The key goes to the last override, and this is that of the current header.
LEMMA OverrideKeyKeepsCInv ==
  ASSUME TypeInv, CInv, NEW l \in Keys, ReadOverrideKey(l)
  PROVE  CInv'
<1> SUFFICES ASSUME Spilled' = {} PROVE InSection' /\ GlobalsRead' /\ OverridesRead'
  BY DEF CInv
<1> USE DEF ReadOverrideKey, Reading
<1> DEFINE n == Len(lines)
           m == Len(overrides)
<1>1. l \in Lines /\ Appended(l) /\ IsKey(l) /\ ~IsFolder(l)
  BY ReadingAppends, KeyKind DEF Lines
<1>2. InSection /\ GlobalsRead /\ OverridesRead
  BY <1>1, LineRead
<1>3. /\ n \in Nat /\ Len(lines') = n + 1 /\ m \in Nat
  BY <1>1, AppendedLines, LenProperties DEF TypeInv, TypeOK
<1>4. Current # 0 /\ ~IsSection(lines[Current]) /\ Counts(Current)
  <2>1. Current # 0
    BY <1>2 DEF InSection
  <2>2. IsSection(lines[Current]) => lines[Current].section \in {"general", "other"}
    BY <2>1, CurrentIs, LineKinds DEF SectionNames
  <2> QED
    BY <1>2, <2>1, <2>2 DEF InSection
<1>5. ~InGeneral(n + 1)
  <2>1. lines[Current] # [section |-> "general"]
    BY <1>4, CurrentIs, GeneralLine
  <2> QED
    BY <1>4, <2>1 DEF InGeneral, Current
<1>6. PICK c \in 1..n : c = Current
  BY <1>4, CurrentIs
<1>7. PICK at \in [1..m -> 1..n] : /\ HeadersAre(at)
                                   /\ \A k \in 1..m : overrides[k] = OverrideOf(at[k])
  BY <1>2 DEF OverridesRead
<1>8. m \in 1..m /\ at[m] = c /\ \A k \in 1..m : k # m => at[k] # c
  <2>1. PICK k \in 1..m : c = at[k]
    BY <1>4, <1>6, <1>7 DEF HeadersAre
  <2>2. m \in 1..m
    BY <1>3, <2>1
  <2>3. at[m] \in 1..n /\ Counts(at[m])
    BY <1>7, <2>2 DEF HeadersAre
  <2>4. lines[at[m]] \in Lines /\ ~IsKey(lines[at[m]])
    <3>1. lines[at[m]] \in Lines
      BY <2>3, ElementOfSeq DEF TypeInv
    <3> QED
      BY <2>3, <3>1, FolderCounts, LineKinds
  <2>5. at[m] <= c
    <3>1. PICK i \in 1..(n + 1) : i = n + 1
      BY <1>3
    <3>2. c = HeaderOf(i)
      BY <1>6, <3>1 DEF Current
    <3>3. at[m] \in 1..(i - 1)
      BY <1>3, <2>3, <3>1
    <3>4. \A h \in 1..(i - 1) : ~IsKey(lines[h]) => h <= HeaderOf(i)
      BY <1>3, HeaderOfIs
    <3> QED
      BY <2>4, <3>2, <3>3, <3>4
  <2>6. \A j \in 1..m : j # m => at[j] < at[m]
    BY <1>3, <1>7, <2>2 DEF HeadersAre
  <2>7. k = m
    BY <1>3, <2>1, <2>3, <2>5, <2>6
  <2> QED
    BY <1>7, <2>1, <2>2, <2>3, <2>6, <2>7
<1>9. /\ Len(overrides') = m
      /\ \A k \in 1..m : overrides'[k] = IF k = m THEN OverrideAfter(overrides[m], l)
                                         ELSE overrides[k]
  <2> DEFINE O == [path : Folders, enabled : BOOLEAN, bare : BOOLEAN,
                   io_delay_us : {"1", "2", Unset}, exts : SUBSET {"x"}]
             x == OverrideAfter(overrides[m], l)
  <2>1. overrides \in Seq(O)
    BY DEF TypeInv, TypeOK
  <2> HIDE DEF O, x
  <2>2. overrides \in Seq(O \cup {x})
    BY <2>1, SeqMonotonic
  <2>3. overrides' = [overrides EXCEPT ![m] = x]
    BY DEF x
  <2> QED
    BY <1>8, <2>2, <2>3, ExceptSeq DEF x
<1>10. InSection'
  BY <1>1, <1>2, KeyKeepsSection
<1>11. GlobalsRead'
  BY <1>1, <1>2, <1>5, GlobalsKept DEF IsReading
<1>12. ASSUME NEW k \in 1..m PROVE overrides'[k] = OverrideOf(at[k])'
  <2>1. CASE k = m
    <3>1. OverrideOf(c)' = OverrideAfter(OverrideOf(c), l)
      BY <1>1, <1>6, OverrideGrows
    <3> QED
      BY <1>7, <1>8, <1>9, <2>1, <3>1
  <2>2. CASE k # m
    <3>1. at[k] \in 1..n /\ at[k] # Current
      BY <1>6, <1>7, <1>8, <2>2
    <3>2. OverrideOf(at[k])' = OverrideOf(at[k])
      BY <1>1, <3>1, OverrideKept
    <3> QED
      BY <1>7, <1>9, <2>2, <3>2
  <2> QED
    BY <2>1, <2>2
<1>13. at \in [1..m -> 1..(n + 1)]
  BY <1>3, <1>7
<1>14. HeadersAre(at)'
  <2>1. \A j, k \in 1..m : j < k => at[j] < at[k]
    BY <1>7 DEF HeadersAre
  <2>2. \A h \in 1..n : Counts(h) <=> \E k \in 1..m : h = at[k]
    BY <1>7 DEF HeadersAre
  <2>3. \A h \in 1..n : Counts(h)' <=> Counts(h)
    BY <1>1, CountsKept
  <2>4. \A h : h = n + 1 => ~Counts(h)'
    BY <1>1, CountsNew
  <2>5. \A k \in 1..m : at[k] # n + 1
    BY <1>3, <1>7
  <2>6. \A h \in 1..(n + 1) : Counts(h)' <=> \E k \in 1..m : h = at[k]
    <3>1. \A h \in 1..(n + 1) : h \in 1..n \/ h = n + 1
      BY <1>3
    <3> HIDE DEF n, m
    <3> QED
      BY <2>2, <2>3, <2>4, <2>5, <3>1
  <2> QED
    BY <1>3, <1>9, <1>13, <2>1, <2>6 DEF HeadersAre
<1>15. OverridesRead'
  <2>1. at \in [1..Len(overrides') -> 1..Len(lines')]
    BY <1>3, <1>9, <1>13
  <2>2. \A k \in 1..Len(overrides') : overrides'[k] = OverrideOf(at[k])'
    BY <1>9, <1>12
  <2> QED
    BY <1>14, <2>1, <2>2 DEF OverridesRead
<1> QED
  BY <1>10, <1>11, <1>15

LEMMA CStep == TypeInv /\ CInv /\ [Next]_vars => CInv'
<1> SUFFICES ASSUME TypeInv, CInv, [Next]_vars PROVE CInv'
  OBVIOUS
<1>1. CASE Reload
  <2>1. Start'
    BY <1>1 DEF Reload, Start, IsReading, Global
  <2>2. Start' => CInv'
    BY StartCInv, PTL
  <2> QED
    BY <2>1, <2>2
<1>2. CASE UNCHANGED vars
  <2>1. Spilled' = Spilled /\ UNCHANGED <<lines, overrides, section, cfg, phase, cli>>
    BY <1>2, SameLines DEF vars
  <2> QED
    BY <2>1, SameSection, SameOverrides, SameGlobals DEF CInv
<1> QED
  BY <1>1, <1>2, SectionKeepsCInv, FolderKeepsCInv, GlobalKeyKeepsCInv, OtherKeyKeepsCInv,
     OverrideKeyKeepsCInv, FinishKeepsCInv DEF Next

\* The defaults and the command line are applied to the targets as asked.
THEOREM TargetsAreAsAsked == Spec => []TargetsAsAsked
<1>1. Init => TypeInv /\ CInv
  <2>1. Init => Start
    BY DEF Init, Start, IsReading
  <2> QED
    BY <2>1, InitType, StartCInv
<1>2. TypeInv /\ CInv /\ [Next]_vars => TypeInv' /\ CInv'
  BY TypeStep, CStep
<1>3. CInv => TargetsAsAsked
  BY DEF CInv, GlobalsRead, TargetsAsAsked
<1> QED
  BY <1>1, <1>2, <1>3, PTL DEF Spec
-----------------------------------------------------------------------------
(* What get_folder_override_index finds *)

\* An enabled override that covers p.
Serves(p, i) == overrides[i].enabled /\ Covers(overrides[i].path, p)

\* One step of the loop, and the loop.
Choice(p, i, b) == IF Serves(p, i) /\ (b = 0 \/ Better(overrides[i], overrides[b])) THEN i ELSE b
Loop(p, f) == [i \in 0..Len(overrides) |-> IF i = 0 THEN 0 ELSE Choice(p, i, f[i - 1])]

\* b is the first of the deepest of the first i overrides, if one serves p.
Best(p, i, b) ==
    /\ b \in 0..i
    /\ b = 0 => \A j \in 1..i : ~Serves(p, j)
    /\ b # 0 => /\ Serves(p, b)
                /\ \A j \in 1..i : Serves(p, j) =>
                     /\ Len(overrides[j].path) <= Len(overrides[b].path)
                     /\ j < b => Len(overrides[j].path) < Len(overrides[b].path)

LEMMA PathLengths ==
  ASSUME TypeInv
  PROVE  /\ Len(overrides) \in Nat
         /\ \A i \in 1..Len(overrides) : /\ overrides[i].path \in Folders
                                         /\ Len(overrides[i].path) \in Nat
<1> DEFINE O == [path : Folders, enabled : BOOLEAN, bare : BOOLEAN,
                 io_delay_us : {"1", "2", Unset}, exts : SUBSET {"x"}]
<1>1. overrides \in Seq(O)
  BY DEF TypeInv, TypeOK
<1>2. \A o \in O : o.path \in Folders
  OBVIOUS
<1> HIDE DEF O
<1>3. Len(overrides) \in Nat /\ \A i \in 1..Len(overrides) : overrides[i] \in O
  BY <1>1, LenProperties, ElementOfSeq
<1> QED
  BY <1>2, <1>3, PathsAssumption

LEMMA BestStep ==
  ASSUME TypeInv, NEW p, NEW i \in 1..Len(overrides), NEW b, Best(p, i - 1, b)
  PROVE  Best(p, i, Choice(p, i, b))
<1>1. /\ Len(overrides) \in Nat
      /\ \A j \in 1..Len(overrides) : Len(overrides[j].path) \in Nat
  BY PathLengths
<1>2. b \in 0..(i - 1) /\ i \in Nat /\ i # 0
  BY <1>1 DEF Best
<1>3. \A j \in 1..i : j = i \/ j \in 1..(i - 1)
  BY <1>1
<1>4. CASE ~Serves(p, i)
  <2>1. Choice(p, i, b) = b
    BY <1>4 DEF Choice
  <2> QED
    BY <1>2, <1>3, <1>4, <2>1 DEF Best
<1>5. CASE Serves(p, i) /\ b = 0
  <2>1. Choice(p, i, b) = i
    BY <1>5 DEF Choice
  <2>2. \A j \in 1..i : Serves(p, j) => j = i
    BY <1>3, <1>5 DEF Best
  <2>3. Len(overrides[i].path) <= Len(overrides[i].path)
    BY <1>1
  <2> QED
    BY <1>1, <1>2, <1>5, <2>1, <2>2, <2>3 DEF Best
<1>6. CASE Serves(p, i) /\ b # 0
  <2>1. b \in 1..Len(overrides) /\ b < i
    BY <1>1, <1>2, <1>6
  <2>2. Len(overrides[b].path) \in Nat /\ Len(overrides[i].path) \in Nat
    BY <1>1, <2>1
  <2>3. /\ Serves(p, b)
        /\ \A j \in 1..(i - 1) : Serves(p, j) =>
             /\ Len(overrides[j].path) <= Len(overrides[b].path)
             /\ j < b => Len(overrides[j].path) < Len(overrides[b].path)
    BY <1>6 DEF Best
  <2>4. CASE Better(overrides[i], overrides[b])
    <3>1. Choice(p, i, b) = i
      BY <1>6, <2>4 DEF Choice
    <3>2. Len(overrides[i].path) > Len(overrides[b].path)
      BY <2>4 DEF Better
    <3>3. ASSUME NEW j \in 1..i, Serves(p, j)
          PROVE  /\ Len(overrides[j].path) <= Len(overrides[i].path)
                 /\ j < i => Len(overrides[j].path) < Len(overrides[i].path)
      <4>1. Len(overrides[j].path) \in Nat
        BY <1>1
      <4>2. CASE j = i
        BY <1>1, <2>2, <4>2
      <4>3. CASE j \in 1..(i - 1)
        BY <2>2, <2>3, <3>2, <3>3, <4>1, <4>3
      <4> QED
        BY <1>3, <4>2, <4>3
    <3> QED
      BY <1>1, <1>2, <1>6, <3>1, <3>3 DEF Best
  <2>5. CASE ~Better(overrides[i], overrides[b])
    <3>1. Choice(p, i, b) = b
      BY <1>6, <2>5 DEF Choice
    <3>2. Len(overrides[i].path) <= Len(overrides[b].path)
      BY <2>2, <2>5 DEF Better
    <3>3. ~(i < b)
      BY <1>1, <2>1
    <3>4. b \in 0..i
      BY <1>1, <1>2
    <3> QED
      BY <1>3, <1>6, <2>3, <3>1, <3>2, <3>3, <3>4 DEF Best
  <2> QED
    BY <2>4, <2>5
<1> QED
  BY <1>4, <1>5, <1>6

\* The recursion of the loop has a solution.
LEMMA LoopExists ==
  ASSUME TypeInv, NEW p
  PROVE  \E f : f = Loop(p, f)
<1> DEFINE N == Len(overrides)
           Solves(f, m) == /\ f = [i \in 0..m |-> f[i]]
                           /\ f[0] = 0
                           /\ \A i \in 1..m : f[i] = Choice(p, i, f[i - 1])
           Bad == {m \in 0..N : ~\E f : Solves(f, m)}
<1>1. N \in Nat
  BY PathLengths
<1>2. Bad = {}
  <2> SUFFICES ASSUME Bad # {} PROVE FALSE
    OBVIOUS
  <2>1. PICK m \in Bad : \A x \in Bad : m <= x
    <3>1. Bad \subseteq Nat
      BY <1>1
    <3> HIDE DEF Bad
    <3> QED
      BY <3>1, Least
  <2>2. m \in 0..N /\ ~\E f : Solves(f, m)
    BY <2>1
  <2>3. m # 0
    <3>1. Solves([i \in 0..0 |-> 0], 0)
      OBVIOUS
    <3> QED
      BY <2>2, <3>1
  <2>4. m - 1 \in 0..N /\ m - 1 \notin Bad
    BY <1>1, <2>1, <2>2, <2>3
  <2>5. PICK f : Solves(f, m - 1)
    BY <2>4
  <2> DEFINE g == [i \in 0..m |-> IF i = m THEN Choice(p, m, f[m - 1]) ELSE f[i]]
  <2>6. /\ g = [i \in 0..m |-> g[i]]
        /\ g[m] = Choice(p, m, f[m - 1])
        /\ \A i \in 0..(m - 1) : g[i] = f[i]
    BY <1>1, <2>2, <2>3
  <2> HIDE DEF g
  <2>7. \A i \in 1..m : g[i] = Choice(p, i, g[i - 1])
    <3>1. ASSUME NEW i \in 1..m PROVE g[i] = Choice(p, i, g[i - 1])
      <4>1. i - 1 \in 0..(m - 1) /\ m \in Nat
        BY <1>1, <2>2
      <4>2. g[i - 1] = f[i - 1]
        BY <2>6, <4>1
      <4>3. CASE i = m
        BY <2>6, <4>2, <4>3
      <4>4. CASE i # m
        <5>1. i \in 1..(m - 1) /\ i \in 0..(m - 1)
          BY <4>1, <4>4
        <5> QED
          BY <2>5, <2>6, <4>2, <5>1
      <4> QED
        BY <4>3, <4>4
    <3> QED
      BY <3>1
  <2>8. g[0] = 0
    <3>1. 0 \in 0..(m - 1)
      BY <1>1, <2>2, <2>3
    <3> QED
      BY <2>5, <2>6, <3>1
  <2> QED
    BY <2>2, <2>6, <2>7, <2>8
<1>3. PICK f : Solves(f, N)
  <2>1. N \in 0..N
    BY <1>1
  <2> QED
    BY <1>2, <2>1
<1>4. Loop(p, f) = f
  <2>1. \A i \in 0..N : f[i] = IF i = 0 THEN 0 ELSE Choice(p, i, f[i - 1])
    <3>1. \A i \in 0..N : i = 0 \/ i \in 1..N
      BY <1>1
    <3> QED
      BY <1>3, <3>1
  <2>2. Loop(p, f) = [i \in 0..N |-> f[i]]
    BY <2>1 DEF Loop
  <2> QED
    BY <1>3, <2>2
<1> QED
  BY <1>4

LEMMA OverrideIndexIsLoop ==
  ASSUME NEW p, \E f : f = Loop(p, f)
  PROVE  \E f : f = Loop(p, f) /\ OverrideIndex(p) = f[Len(overrides)]
<1> DEFINE best == CHOOSE f : f = Loop(p, f)
<1>1. best = Loop(p, best)
  OBVIOUS
<1>2. OverrideIndex(p) = best[Len(overrides)]
  BY DEF OverrideIndex, Loop, Choice, Serves
<1> QED
  BY <1>1, <1>2

\* The first of the deepest of the enabled overrides that cover p is found.
LEMMA OverrideIndexIsBest ==
  ASSUME TypeInv, NEW p
  PROVE  Best(p, Len(overrides), OverrideIndex(p))
<1> DEFINE N == Len(overrides)
<1>1. N \in Nat
  BY PathLengths
<1>2. PICK f : f = Loop(p, f) /\ OverrideIndex(p) = f[N]
  BY LoopExists, OverrideIndexIsLoop
<1>3. \A i \in 0..N : f[i] = IF i = 0 THEN 0 ELSE Choice(p, i, f[i - 1])
  BY <1>2 DEF Loop
<1> DEFINE Bad == {i \in 0..N : ~Best(p, i, f[i])}
<1>4. Bad = {}
  <2> SUFFICES ASSUME Bad # {} PROVE FALSE
    OBVIOUS
  <2>1. PICK i \in Bad : \A x \in Bad : i <= x
    <3>1. Bad \subseteq Nat
      BY <1>1
    <3> HIDE DEF Bad
    <3> QED
      BY <3>1, Least
  <2>2. i \in 0..N /\ ~Best(p, i, f[i])
    BY <2>1
  <2>3. i # 0
    <3>1. f[0] = 0 /\ 0 \in 0..N
      BY <1>1, <1>3
    <3>2. Best(p, 0, 0)
      BY DEF Best
    <3> QED
      BY <2>2, <3>1, <3>2
  <2>4. i - 1 \in 0..N /\ i - 1 \notin Bad /\ i \in 1..N
    BY <1>1, <2>1, <2>2, <2>3
  <2>5. Best(p, i - 1, f[i - 1])
    BY <2>4
  <2>6. Best(p, i, Choice(p, i, f[i - 1]))
    BY <2>4, <2>5, BestStep
  <2> QED
    BY <1>3, <2>2, <2>3, <2>6
<1>5. N \in 0..N
  BY <1>1
<1> QED
  BY <1>2, <1>4, <1>5
-----------------------------------------------------------------------------
(* The settings of a path *)

LEMMA ValidValues ==
  ASSUME TypeInv, NEW h, Valid(h) # {}
  PROVE  lines[LastOf(Valid(h))].val \in {"1", "2"}
<1>1. Len(lines) \in Nat /\ \A i \in 1..Len(lines) : lines[i] \in Lines
  BY LenProperties, ElementOfSeq DEF TypeInv
<1>2. Valid(h) \subseteq 1..Len(lines)
  BY DEF Valid, GivenUnder
<1>3. PICK i \in Valid(h) : i = LastOf(Valid(h))
  BY <1>1, <1>2, LastOfIn
<1>4. /\ lines[i] \in Lines /\ IsKey(lines[i]) /\ lines[i].key = "io_delay_us"
      /\ lines[i].val # Invalid
  BY <1>1, <1>2 DEF Valid, GivenUnder
<1>5. lines[i] \in Keys
  BY <1>4, SectionKind, FolderKind DEF Lines
<1> QED
  BY <1>3, <1>4, <1>5, KeyValues

LEMMA SettingsAre ==
  ASSUME TypeInv, CInv, Spilled = {}, phase \in {"loaded", "reloaded"}, NEW p
  PROVE  Settings(p) = WrittenSettings(p)
<1> DEFINE n == Len(lines)
           m == Len(overrides)
           b == OverrideIndex(p)
<1>1. /\ m \in Nat
      /\ \A k \in 1..m : Len(overrides[k].path) \in Nat
  BY PathLengths
<1>2. n \in Nat
  BY LenProperties DEF TypeInv
<1>3. /\ cfg.io_delay_us = WrittenDelay
      /\ cfg.bare = (LastValue(Given("bare"), "false") = "true")
      /\ cfg.exts = WrittenExts
  BY DEF CInv, GlobalsRead
<1>4. PICK at \in [1..m -> 1..n] : /\ HeadersAre(at)
                                   /\ \A k \in 1..m : overrides[k] = OverrideOf(at[k])
  BY DEF CInv, OverridesRead
<1>5. Best(p, m, b)
  BY OverrideIndexIsBest
<1>6. ASSUME NEW k \in 1..m
      PROVE  /\ overrides[k].path = lines[at[k]].folder
             /\ Serves(p, k) <=> at[k] \in Applying(p)
  <2>1. at[k] \in 1..n /\ Counts(at[k]) /\ overrides[k] = OverrideOf(at[k])
    BY <1>4 DEF HeadersAre
  <2>2. /\ overrides[k].path = lines[at[k]].folder
        /\ overrides[k].enabled = (LastValue(GivenUnder(at[k], "enabled"), "true") = "true")
    BY <2>1 DEF OverrideOf
  <2> QED
    BY <2>1, <2>2 DEF Serves, Applying
<1>7. \A h \in Applying(p) : \E k \in 1..m : h = at[k] /\ Serves(p, k)
  <2>1. \A h \in Applying(p) : h \in 1..n /\ Counts(h)
    BY DEF Applying
  <2>2. \A h \in Applying(p) : \E k \in 1..m : h = at[k]
    BY <1>4, <2>1 DEF HeadersAre
  <2> QED
    BY <1>6, <2>2
<1> DEFINE general == [delay |-> WrittenDelay, bare |-> LastValue(Given("bare"), "false") = "true",
                       exts |-> WrittenExts]
<1>8. CASE b = 0
  <2>1. \A k \in 1..m : ~Serves(p, k)
    BY <1>5, <1>8 DEF Best
  <2>2. Applying(p) = {}
    BY <1>7, <2>1
  <2>3. WrittenSettings(p) = general
    BY <2>2 DEF WrittenSettings
  <2>4. Settings(p) = [delay |-> cfg.io_delay_us, bare |-> cfg.bare, exts |-> cfg.exts]
    BY <1>8 DEF Settings
  <2> QED
    BY <1>3, <2>3, <2>4
<1>9. CASE b # 0
  <2> DEFINE h == at[b]
             D == {x \in Applying(p) :
                     \A g \in Applying(p) : Len(lines[g].folder) <= Len(lines[x].folder)}
  <2>1. b \in 1..m /\ Serves(p, b)
    BY <1>1, <1>5, <1>9 DEF Best
  <2>2. h \in Applying(p) /\ h \in 1..n
    BY <1>4, <1>6, <2>1
  <2>3. \A j \in 1..m : Serves(p, j) =>
          /\ Len(overrides[j].path) <= Len(overrides[b].path)
          /\ j < b => Len(overrides[j].path) < Len(overrides[b].path)
    BY <1>5, <1>9 DEF Best
  <2>4. h \in D
    <3>1. ASSUME NEW g \in Applying(p) PROVE Len(lines[g].folder) <= Len(lines[h].folder)
      <4>1. PICK k \in 1..m : g = at[k] /\ Serves(p, k)
        BY <1>7
      <4> QED
        BY <1>6, <2>1, <2>3, <4>1
    <3> QED
      BY <2>2, <3>1
  <2>5. ASSUME NEW x \in D PROVE x >= h
    <3>1. PICK k \in 1..m : x = at[k] /\ Serves(p, k)
      BY <1>7
    <3>2. Len(lines[h].folder) <= Len(lines[x].folder)
      BY <2>2
    <3>3. Len(overrides[b].path) <= Len(overrides[k].path)
      BY <1>6, <2>1, <3>1, <3>2
    <3>4. Len(overrides[k].path) \in Nat /\ Len(overrides[b].path) \in Nat
      BY <1>1, <2>1
    <3>5. ~(k < b)
      BY <2>3, <3>1, <3>3, <3>4
    <3>6. k = b \/ at[b] < at[k]
      BY <1>1, <1>4, <2>1, <3>5 DEF HeadersAre
    <3>7. at[b] \in 1..n /\ at[k] \in 1..n
      BY <1>4, <2>1
    <3> QED
      BY <1>2, <3>1, <3>6, <3>7
  <2>6. D \subseteq Nat
    BY <1>2 DEF Applying
  <2> HIDE DEF D, h
  <2>7. FirstOf(D) = h
    BY <2>4, <2>5, <2>6, FirstOfIs
  <2>8. Nearest(p) = h
    BY <2>7 DEF Nearest, D
  <2>9. overrides[b] = OverrideOf(h)
    BY <1>4, <2>1 DEF h
  <2> DEFINE o == OverrideOf(h)
  <2>10. /\ o.io_delay_us = LastValue(Valid(h), Unset)
         /\ o.bare = (LastValue(GivenUnder(h, "bare"), "false") = "true")
         /\ o.exts = {lines[i].val : i \in GivenUnder(h, "ext")}
    BY DEF OverrideOf
  <2> HIDE DEF o
  <2>11. Settings(p) = [delay |-> IF o.io_delay_us = Unset THEN WrittenDelay ELSE o.io_delay_us,
                        bare |-> o.bare,
                        exts |-> IF o.exts = {} THEN WrittenExts ELSE o.exts]
    BY <1>3, <1>9, <2>9 DEF Settings, o
  <2>12. WrittenSettings(p) =
           [delay |-> LastValue(Valid(h), WrittenDelay),
            bare |-> LastValue(GivenUnder(h, "bare"), "false") = "true",
            exts |-> IF GivenUnder(h, "ext") = {} THEN WrittenExts
                     ELSE {lines[i].val : i \in GivenUnder(h, "ext")}]
    BY <2>2, <2>8 DEF WrittenSettings, Valid
  <2>13. (IF o.io_delay_us = Unset THEN WrittenDelay ELSE o.io_delay_us)
           = LastValue(Valid(h), WrittenDelay)
    BY <2>10, ValidValues DEF LastValue, Unset
  <2>14. o.exts = {} <=> GivenUnder(h, "ext") = {}
    BY <2>10
  <2> QED
    BY <2>10, <2>11, <2>12, <2>13, <2>14
<1> QED
  BY <1>8, <1>9

\* Every path gets the settings of its nearest section as the file says.
THEOREM SettingsAreAsWritten == Spec => []SettingsAsWritten
<1>1. Init => TypeInv /\ CInv
  <2>1. Init => Start
    BY DEF Init, Start, IsReading
  <2> QED
    BY <2>1, InitType, StartCInv
<1>2. TypeInv /\ CInv /\ [Next]_vars => TypeInv' /\ CInv'
  BY TypeStep, CStep
<1>3. TypeInv /\ CInv => SettingsAsWritten
  BY SettingsAre DEF SettingsAsWritten
<1> QED
  BY <1>1, <1>2, <1>3, PTL DEF Spec
=============================================================================
