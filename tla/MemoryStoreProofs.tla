-------------------------- MODULE MemoryStoreProofs --------------------------
(* Proofs about MemoryStore, for any facts, labels, thresholds and bounds:   *)
(* what its recursive definitions compute, and what one task may rely on.    *)
EXTENDS MemoryStore, SequenceTheorems, FiniteSetTheorems, WellFoundedInduction,
        TLAPS

-----------------------------------------------------------------------------
(* Induction, over sets of numbers instead of predicates.                    *)

LEMMA LeastExists ==
  ASSUME NEW S, S \subseteq Nat, S # {}
  PROVE  \E i \in S : \A j \in S : i <= j
<1> DEFINE R == OpToRel(<, Nat)
<1>1. IsWellFoundedOn(R, Nat)
  BY NatLessThanWellFounded, Zenon
<1>2. PICK i \in S : \A j \in S : ~(<<j, i>> \in R)
  <2> HIDE DEF R
  <2> QED BY <1>1, WFMin
<1>3. \A j \in S : <<j, i>> \in R <=> j < i
  BY Zenon DEF OpToRel
<1>4. \A j \in S : ~(j < i)
  <2> HIDE DEF R
  <2> QED BY <1>2, <1>3
<1>5. i \in Nat /\ \A j \in S : j \in Nat
  OBVIOUS
<1> QED BY <1>4, <1>5

\* What holds of 0, and of each number with its predecessor, holds up to n.
LEMMA UpTo ==
  ASSUME NEW n \in Nat, NEW good, 0 \in good,
         \A i \in 1..n : i - 1 \in good => i \in good
  PROVE  \A i \in 0..n : i \in good
<1> DEFINE bad == {i \in 0..n : i \notin good}
<1> SUFFICES ASSUME bad # {} PROVE FALSE
  OBVIOUS
<1>1. bad \subseteq Nat
  OBVIOUS
<1>2. PICK i \in bad : \A j \in bad : i <= j
  <2> HIDE DEF bad
  <2> QED BY <1>1, LeastExists
<1>3. i \in 1..n /\ i - 1 \in 0..n
  BY <1>2
<1>4. i - 1 \notin bad
  BY <1>2, <1>3
<1> QED BY <1>2, <1>3, <1>4

-----------------------------------------------------------------------------
(* Sets of elements.                                                         *)

LEMMA ToSetAppend ==
  ASSUME NEW S, NEW s \in Seq(S), NEW e \in S
  PROVE  Append(s, e) \in Seq(S) /\ ToSet(Append(s, e)) = ToSet(s) \cup {e}
<1>1. /\ Append(s, e) \in Seq(S)
      /\ Len(Append(s, e)) = Len(s) + 1
      /\ \A i \in 1..Len(s) : Append(s, e)[i] = s[i]
      /\ Append(s, e)[Len(s) + 1] = e
  BY AppendProperties
<1>2. /\ Len(s) \in Nat
      /\ DOMAIN s = 1..Len(s)
      /\ DOMAIN Append(s, e) = 1..(Len(s) + 1)
  BY <1>1, LenProperties
<1> QED BY <1>1, <1>2 DEF ToSet

LEMMA ToSetSeq ==
  ASSUME NEW S, NEW s \in Seq(S)
  PROVE  ToSet(s) \subseteq S
<1>1. DOMAIN s = 1..Len(s) /\ \A i \in 1..Len(s) : s[i] \in S
  BY LenProperties, ElementOfSeq
<1> QED BY <1>1 DEF ToSet

LEMMA ToSetEmpty == ToSet(<<>>) = {}
BY DEF ToSet

-----------------------------------------------------------------------------
(* What reading a file yields.                                               *)

Lines == Items \cup {Torn}

Reads(file, read, n) ==
  read = [i \in 0..n |-> IF i = 0 THEN <<>> ELSE WithLine(read[i - 1], file[i])]

LEMMA ReadsExist ==
  ASSUME NEW file, NEW n \in Nat
  PROVE  \E read : Reads(file, read, n)
<1> DEFINE good == {m \in Nat : \E read : Reads(file, read, m)}
<1>1. 0 \in good
  <2>1. Reads(file, [i \in 0..0 |-> <<>>], 0)
    BY DEF Reads
  <2> QED BY <2>1
<1>2. ASSUME NEW m \in 1..n, m - 1 \in good
      PROVE  m \in good
  <2>1. PICK r : Reads(file, r, m - 1)
    BY <1>2
  <2> DEFINE s == [i \in 0..m |-> IF i = m THEN WithLine(r[m - 1], file[m]) ELSE r[i]]
  <2>2. ASSUME NEW i \in 0..m
        PROVE  s[i] = IF i = 0 THEN <<>> ELSE WithLine(s[i - 1], file[i])
    <3>1. CASE i = m
      <4>1. s[i - 1] = r[m - 1]
        BY <3>1
      <4> QED BY <4>1, <3>1
    <3>2. CASE i # m
      <4>1. i \in 0..(m - 1)
        BY <3>2
      <4>2. r[i] = IF i = 0 THEN <<>> ELSE WithLine(r[i - 1], file[i])
        BY <2>1, <4>1 DEF Reads
      <4>3. i # 0 => s[i - 1] = r[i - 1]
        BY <4>1
      <4> QED BY <4>2, <4>3, <3>2
    <3> QED BY <3>1, <3>2
  <2>3. s = [i \in 0..m |-> IF i = 0 THEN <<>> ELSE WithLine(s[i - 1], file[i])]
    BY <2>2
  <2>4. Reads(file, s, m)
    BY <2>3 DEF Reads
  <2> QED BY <2>4
<1>3. \A m \in 0..n : m \in good
  <2> HIDE DEF good
  <2> QED BY <1>1, <1>2, UpTo
<1> QED BY <1>3

LEMMA CurrentReads ==
  ASSUME NEW file, Len(file) \in Nat
  PROVE  \E read : Reads(file, read, Len(file)) /\ Current(file) = read[Len(file)]
<1> DEFINE r == CHOOSE f : f = [i \in 0..Len(file) |->
                  IF i = 0 THEN <<>> ELSE WithLine(f[i - 1], file[i])]
<1>1. PICK f : Reads(file, f, Len(file))
  BY ReadsExist
<1>2. Reads(file, r, Len(file))
  BY <1>1 DEF Reads
<1>3. Current(file) = r[Len(file)]
  BY DEF Current
<1> QED BY <1>2, <1>3

\* A line replaces what its id said before, or adds it.
After(S, line) ==
  IF line = Torn THEN S ELSE {m \in S : m.id # line.id} \cup {line}

LEMMA WithLineSet ==
  ASSUME NEW list \in Seq(Items), NEW line \in Lines
  PROVE  /\ WithLine(list, line) \in Seq(Items)
         /\ ToSet(WithLine(list, line)) = After(ToSet(list), line)
<1>1. /\ Len(list) \in Nat
      /\ DOMAIN list = 1..Len(list)
      /\ \A i \in 1..Len(list) : list[i] \in Items
  BY LenProperties, ElementOfSeq
<1>2. CASE line = Torn
  BY <1>2 DEF WithLine, After
<1>3. CASE line # Torn /\ \E i \in DOMAIN list : list[i].id = line.id
  <2> DEFINE new == [i \in DOMAIN list |-> IF list[i].id = line.id THEN line ELSE list[i]]
  <2>1. WithLine(list, line) = new
    BY <1>3 DEF WithLine
  <2>2. line \in Items
    BY <1>3 DEF Lines
  <2>3. \A i \in 1..Len(list) : new[i] \in Items
    BY <1>1, <2>2
  <2>4. new = [i \in 1..Len(list) |-> new[i]]
    BY <1>1
  <2>5. new \in Seq(Items)
    BY <1>1, <2>3, <2>4, IsASeq
  <2>6. DOMAIN new = DOMAIN list
    OBVIOUS
  <2>7. ToSet(new) = {m \in ToSet(list) : m.id # line.id} \cup {line}
    <3>1. \A m \in ToSet(new) : m \in {k \in ToSet(list) : k.id # line.id} \cup {line}
      BY <2>6 DEF ToSet
    <3>2. ASSUME NEW m \in ToSet(list), m.id # line.id
          PROVE  m \in ToSet(new)
      BY <2>6, <3>2 DEF ToSet
    <3>3. line \in ToSet(new)
      BY <1>3, <2>6 DEF ToSet
    <3> QED BY <3>1, <3>2, <3>3
  <2> QED BY <2>1, <2>5, <2>7, <1>3 DEF After
<1>4. CASE line # Torn /\ \A i \in DOMAIN list : list[i].id # line.id
  <2>1. WithLine(list, line) = Append(list, line)
    BY <1>4 DEF WithLine
  <2>2. line \in Items
    BY <1>4 DEF Lines
  <2>3. /\ Append(list, line) \in Seq(Items)
        /\ ToSet(Append(list, line)) = ToSet(list) \cup {line}
    BY <2>2, ToSetAppend
  <2>4. ToSet(list) = {m \in ToSet(list) : m.id # line.id}
    BY <1>4 DEF ToSet
  <2> QED BY <2>1, <2>3, <2>4, <1>4 DEF After
<1> QED BY <1>2, <1>3, <1>4

\* The lines among the first n that no later one of them replaces.
Last_(file, n, k) ==
  file[k] # Torn /\ \A j \in (k + 1)..n : file[j] # Torn => file[j].id # file[k].id
LastLines(file, n) == {file[k] : k \in {i \in 1..n : Last_(file, n, i)}}

LEMMA LastLinesStep ==
  ASSUME NEW file \in Seq(Lines), NEW n \in 1..Len(file)
  PROVE  LastLines(file, n) = After(LastLines(file, n - 1), file[n])
<1>1. Len(file) \in Nat /\ n \in Nat /\ n - 1 \in Nat
  BY LenProperties
<1>2. Last_(file, n, n) <=> file[n] # Torn
  BY <1>1 DEF Last_
<1>3. \A k \in 1..(n - 1) : Last_(file, n, k) <=>
        Last_(file, n - 1, k) /\ (file[n] # Torn => file[n].id # file[k].id)
  <2> TAKE k \in 1..(n - 1)
  <2>1. (k + 1)..n = ((k + 1)..(n - 1)) \cup {n}
    BY <1>1
  <2> QED BY <2>1 DEF Last_
<1>4. 1..n = (1..(n - 1)) \cup {n}
  BY <1>1
<1>5. CASE file[n] = Torn
  <2>1. {i \in 1..n : Last_(file, n, i)} = {i \in 1..(n - 1) : Last_(file, n - 1, i)}
    BY <1>2, <1>3, <1>4, <1>5
  <2> QED BY <2>1, <1>5 DEF LastLines, After
<1>6. CASE file[n] # Torn
  <2>1. {i \in 1..n : Last_(file, n, i)} =
          {i \in 1..(n - 1) : Last_(file, n - 1, i) /\ file[n].id # file[i].id} \cup {n}
    BY <1>2, <1>3, <1>4, <1>6
  <2> DEFINE old == {i \in 1..(n - 1) : Last_(file, n - 1, i)}
  <2>2. LastLines(file, n) = {file[k] : k \in {i \in old : file[n].id # file[i].id}} \cup {file[n]}
    BY <2>1 DEF LastLines
  <2>3. {file[k] : k \in {i \in old : file[n].id # file[i].id}}
          = {m \in {file[k] : k \in old} : m.id # file[n].id}
    <3> HIDE DEF old
    <3> QED OBVIOUS
  <2> QED BY <2>2, <2>3, <1>6 DEF LastLines, After
<1> QED BY <1>5, <1>6

\* Reading a file yields the last line of each id.
LEMMA CurrentLast ==
  ASSUME NEW file \in Seq(Lines)
  PROVE  /\ Current(file) \in Seq(Items)
         /\ ToSet(Current(file)) = LastLines(file, Len(file))
<1>1. Len(file) \in Nat /\ \A i \in 1..Len(file) : file[i] \in Lines
  BY LenProperties, ElementOfSeq
<1>2. PICK r : Reads(file, r, Len(file)) /\ Current(file) = r[Len(file)]
  BY <1>1, CurrentReads
<1> DEFINE good == {i \in 0..Len(file) :
                      r[i] \in Seq(Items) /\ ToSet(r[i]) = LastLines(file, i)}
<1>3. 0 \in good
  <2>1. r[0] = <<>>
    BY <1>1, <1>2 DEF Reads
  <2>2. LastLines(file, 0) = {}
    BY DEF LastLines
  <2>3. <<>> \in Seq(Items)
    BY EmptySeq
  <2>4. ToSet(r[0]) = LastLines(file, 0)
    BY <2>1, <2>2, ToSetEmpty
  <2>5. 0 \in 0..Len(file)
    BY <1>1
  <2> QED BY <2>1, <2>3, <2>4, <2>5
<1>4. ASSUME NEW i \in 1..Len(file), i - 1 \in good
      PROVE  i \in good
  <2>1. r[i] = WithLine(r[i - 1], file[i])
    BY <1>1, <1>2 DEF Reads
  <2>2. r[i - 1] \in Seq(Items) /\ ToSet(r[i - 1]) = LastLines(file, i - 1)
    BY <1>4
  <2>3. /\ r[i] \in Seq(Items)
        /\ ToSet(r[i]) = After(LastLines(file, i - 1), file[i])
    BY <2>1, <2>2, <1>1, WithLineSet
  <2> QED BY <1>1, <2>3, LastLinesStep
<1>5. \A i \in 0..Len(file) : i \in good
  <2> HIDE DEF good
  <2> QED BY <1>1, <1>3, <1>4, UpTo
<1> QED BY <1>1, <1>2, <1>5

OwnIds(S) == \A m, n \in S : m.id = n.id => m = n

\* What is read has one version of each memory, and only lines of the file.
LEMMA CurrentOwn ==
  ASSUME NEW file \in Seq(Lines)
  PROVE  /\ OwnIds(ToSet(Current(file)))
         /\ ToSet(Current(file)) \subseteq Items
         /\ ToSet(Current(file)) \subseteq ToSet(file) \ {Torn}
<1>1. Len(file) \in Nat /\ DOMAIN file = 1..Len(file)
  BY LenProperties
<1>2. ToSet(Current(file)) = LastLines(file, Len(file)) /\ Current(file) \in Seq(Items)
  BY CurrentLast
<1>3. ToSet(Current(file)) \subseteq ToSet(file) \ {Torn}
  BY <1>1, <1>2 DEF LastLines, Last_, ToSet
<1>4. ASSUME NEW i \in 1..Len(file), NEW j \in 1..Len(file), Last_(file, Len(file), i),
             Last_(file, Len(file), j), file[i].id = file[j].id
      PROVE  i = j
  <2>1. CASE i < j
    <3>1. j \in (i + 1)..Len(file)
      BY <1>1, <2>1
    <3> QED BY <3>1, <1>4 DEF Last_
  <2>2. CASE j < i
    <3>1. i \in (j + 1)..Len(file)
      BY <1>1, <2>2
    <3> QED BY <3>1, <1>4 DEF Last_
  <2> QED BY <1>1, <2>1, <2>2
<1>5. OwnIds(LastLines(file, Len(file)))
  BY <1>4 DEF OwnIds, LastLines
<1> QED BY <1>2, <1>3, <1>5, ToSetSeq

\* Appending a line replaces or adds a memory.
LEMMA CurrentAppend ==
  ASSUME NEW file \in Seq(Lines), NEW line \in Lines
  PROVE  /\ Append(file, line) \in Seq(Lines)
         /\ ToSet(Current(Append(file, line))) = After(ToSet(Current(file)), line)
<1> DEFINE new == Append(file, line)
<1>1. /\ new \in Seq(Lines)
      /\ Len(new) = Len(file) + 1
      /\ \A i \in 1..Len(file) : new[i] = file[i]
      /\ new[Len(file) + 1] = line
  BY AppendProperties
<1>2. Len(file) \in Nat
  BY LenProperties
<1>3. LastLines(new, Len(file)) = LastLines(file, Len(file))
  <2>1. \A k \in 1..Len(file) : Last_(new, Len(file), k) <=> Last_(file, Len(file), k)
    BY <1>1, <1>2 DEF Last_
  <2>2. {i \in 1..Len(file) : Last_(new, Len(file), i)}
          = {i \in 1..Len(file) : Last_(file, Len(file), i)}
    BY <2>1
  <2> QED BY <2>2, <1>1 DEF LastLines
<1>4. LastLines(new, Len(file) + 1) = After(LastLines(new, Len(file)), line)
  <2>1. Len(file) + 1 \in 1..Len(new) /\ (Len(file) + 1) - 1 = Len(file)
    BY <1>1, <1>2
  <2> HIDE DEF new
  <2> QED BY <2>1, <1>1, LastLinesStep
<1> QED BY <1>1, <1>3, <1>4, CurrentLast

\* A file whose lines have an id each says what its lines say.
LEMMA CurrentWhole ==
  ASSUME NEW file \in Seq(Lines), OwnIds(ToSet(file) \ {Torn})
  PROVE  ToSet(Current(file)) = ToSet(file) \ {Torn}
<1>1. Len(file) \in Nat /\ DOMAIN file = 1..Len(file)
  BY LenProperties
<1> SUFFICES ASSUME NEW m \in ToSet(file), m # Torn
             PROVE  m \in LastLines(file, Len(file))
  BY CurrentOwn, CurrentLast
<1> DEFINE S == {i \in 1..Len(file) : file[i] = m}
           T == {Len(file) - i : i \in S}
<1>2. T \subseteq Nat /\ T # {}
  BY <1>1 DEF ToSet
<1>3. PICK t \in T : \A u \in T : t <= u
  <2> HIDE DEF T
  <2> QED BY <1>2, LeastExists
<1>4. PICK k \in S : t = Len(file) - k
  BY <1>3
<1>5. ASSUME NEW i \in S
      PROVE  i <= k
  <2>1. Len(file) - i \in T
    OBVIOUS
  <2>2. t <= Len(file) - i
    BY <2>1, <1>3
  <2> QED BY <1>1, <1>4, <2>2
<1>6. ASSUME NEW j \in (k + 1)..Len(file), file[j] # Torn, file[j].id = file[k].id
      PROVE  FALSE
  <2>1. j \in 1..Len(file) /\ j > k
    BY <1>1
  <2>2. file[j] \in ToSet(file) \ {Torn}
    BY <1>1, <1>6, <2>1 DEF ToSet
  <2>3. file[j] = m
    BY <2>2, <1>4, <1>6 DEF OwnIds
  <2> QED BY <2>1, <2>3, <1>5, <1>1
<1>7. Last_(file, Len(file), k)
  BY <1>4, <1>6 DEF Last_
<1> QED BY <1>4, <1>7 DEF LastLines

-----------------------------------------------------------------------------
(* What a selection from a list yields.                                      *)

Firsts(list, n) == {list[k] : k \in 1..n}

LEMMA FirstsStep ==
  ASSUME NEW list, NEW n \in Nat \ {0}
  PROVE  Firsts(list, n) = Firsts(list, n - 1) \cup {list[n]}
<1>1. 1..n = (1..(n - 1)) \cup {n}
  OBVIOUS
<1> QED BY <1>1 DEF Firsts

LEMMA FirstsAll ==
  ASSUME NEW S, NEW list \in Seq(S)
  PROVE  Firsts(list, Len(list)) = ToSet(list) /\ Firsts(list, 0) = {}
<1>1. DOMAIN list = 1..Len(list)
  BY LenProperties
<1> QED BY <1>1 DEF Firsts, ToSet

Selects(list, S, only, n) ==
  only = [i \in 0..n |->
            IF i = 0 THEN <<>>
            ELSE IF list[i] \in S THEN Append(only[i - 1], list[i]) ELSE only[i - 1]]

LEMMA SelectsExist ==
  ASSUME NEW list, NEW S, NEW n \in Nat
  PROVE  \E only : Selects(list, S, only, n)
<1> DEFINE good == {m \in Nat : \E only : Selects(list, S, only, m)}
           With(acc, e) == IF e \in S THEN Append(acc, e) ELSE acc
<1>1. 0 \in good
  <2>1. Selects(list, S, [i \in 0..0 |-> <<>>], 0)
    BY DEF Selects
  <2> QED BY <2>1
<1>2. ASSUME NEW m \in 1..n, m - 1 \in good
      PROVE  m \in good
  <2>1. PICK r : Selects(list, S, r, m - 1)
    BY <1>2
  <2> DEFINE s == [i \in 0..m |-> IF i = m THEN With(r[m - 1], list[m]) ELSE r[i]]
  <2>2. ASSUME NEW i \in 0..m
        PROVE  s[i] = IF i = 0 THEN <<>> ELSE With(s[i - 1], list[i])
    <3>1. CASE i = m
      <4>1. s[i - 1] = r[m - 1]
        BY <3>1
      <4> QED BY <4>1, <3>1
    <3>2. CASE i # m
      <4>1. i \in 0..(m - 1)
        BY <3>2
      <4>2. r[i] = IF i = 0 THEN <<>> ELSE With(r[i - 1], list[i])
        BY <2>1, <4>1 DEF Selects
      <4>3. i # 0 => s[i - 1] = r[i - 1]
        BY <4>1
      <4> QED BY <4>2, <4>3, <3>2
    <3> QED BY <3>1, <3>2
  <2>3. Selects(list, S, s, m)
    BY <2>2 DEF Selects
  <2> QED BY <2>3
<1>3. \A m \in 0..n : m \in good
  <2> HIDE DEF good
  <2> QED BY <1>1, <1>2, UpTo
<1> QED BY <1>3

\* No two places of a list say the same.
FactsApart(list) == \A i, j \in DOMAIN list : list[i].fact = list[j].fact => i = j

\* A selection has the members of S, and none twice if the list had none twice.
LEMMA OnlySet ==
  ASSUME NEW T, NEW list \in Seq(T), NEW S
  PROVE  /\ Only(list, S) \in Seq(T)
         /\ ToSet(Only(list, S)) = ToSet(list) \cap S
         /\ FactsApart(list) => FactsApart(Only(list, S))
<1>1. Len(list) \in Nat /\ \A i \in 1..Len(list) : list[i] \in T
  BY LenProperties, ElementOfSeq
<1> DEFINE r == CHOOSE f : f = [i \in 0..Len(list) |->
                  IF i = 0 THEN <<>>
                  ELSE IF list[i] \in S THEN Append(f[i - 1], list[i]) ELSE f[i - 1]]
<1>2. PICK f : Selects(list, S, f, Len(list))
  BY <1>1, SelectsExist
<1>3. Selects(list, S, r, Len(list))
  BY <1>2 DEF Selects
<1>4. Only(list, S) = r[Len(list)]
  BY DEF Only
<1> HIDE DEF r
<1> DEFINE good == {i \in 0..Len(list) :
                      /\ r[i] \in Seq(T) /\ ToSet(r[i]) = Firsts(list, i) \cap S
                      /\ FactsApart(list) => FactsApart(r[i])}
<1>5. 0 \in good
  <2>1. r[0] = <<>> /\ <<>> \in Seq(T)
    BY <1>1, <1>3, EmptySeq DEF Selects
  <2>2. ToSet(r[0]) = Firsts(list, 0) \cap S
    BY <2>1, ToSetEmpty, FirstsAll
  <2>3. 0 \in 0..Len(list)
    BY <1>1
  <2>4. FactsApart(r[0])
    BY <2>1 DEF FactsApart
  <2> QED BY <2>1, <2>2, <2>3, <2>4
<1>6. ASSUME NEW i \in 1..Len(list), i - 1 \in good
      PROVE  i \in good
  <2>0. i \in 0..Len(list) /\ i # 0
    BY <1>1
  <2>1. r[i] = IF list[i] \in S THEN Append(r[i - 1], list[i]) ELSE r[i - 1]
    <3>1. r[i] = IF i = 0 THEN <<>>
                 ELSE IF list[i] \in S THEN Append(r[i - 1], list[i]) ELSE r[i - 1]
      BY <2>0, <1>3, Zenon DEF Selects
    <3> QED BY <3>1, <2>0
  <2>2. /\ r[i - 1] \in Seq(T) /\ ToSet(r[i - 1]) = Firsts(list, i - 1) \cap S
        /\ FactsApart(list) => FactsApart(r[i - 1])
    BY <1>6
  <2>3. Firsts(list, i) = Firsts(list, i - 1) \cup {list[i]} /\ list[i] \in T
    BY <1>1, FirstsStep
  <2>4. CASE list[i] \in S
    <3>1. r[i] \in Seq(T) /\ ToSet(r[i]) = ToSet(r[i - 1]) \cup {list[i]}
      BY <2>1, <2>2, <2>3, <2>4, ToSetAppend
    <3>2. ASSUME FactsApart(list)
          PROVE  FactsApart(r[i])
      <4> DEFINE s == r[i - 1]
      <4>1. /\ Len(s) \in Nat /\ DOMAIN s = 1..Len(s)
            /\ r[i] = Append(s, list[i])
            /\ Len(r[i]) = Len(s) + 1
            /\ \A k \in 1..Len(s) : r[i][k] = s[k]
            /\ r[i][Len(s) + 1] = list[i]
        BY <2>1, <2>2, <2>3, <2>4, LenProperties, AppendProperties
      <4>2. DOMAIN r[i] = 1..(Len(s) + 1)
        BY <3>1, <4>1, LenProperties
      <4>3. ASSUME NEW k \in 1..Len(s)
            PROVE  s[k].fact # list[i].fact
        <5>1. s[k] \in Firsts(list, i - 1)
          BY <2>2, <4>1 DEF ToSet
        <5>2. PICK n \in 1..(i - 1) : s[k] = list[n]
          BY <5>1 DEF Firsts
        <5>3. n \in DOMAIN list /\ i \in DOMAIN list /\ n # i
          BY <1>1, <5>2, LenProperties
        <5> QED BY <5>2, <5>3, <3>2 DEF FactsApart
      <4>4. \A k \in DOMAIN r[i] : k \in 1..Len(s) \/ k = Len(s) + 1
        BY <4>1, <4>2
      <4>5. \A k, n \in 1..Len(s) : s[k].fact = s[n].fact => k = n
        BY <2>2, <3>2, <4>1 DEF FactsApart
      <4> HIDE DEF s
      <4> QED BY <4>1, <4>3, <4>4, <4>5 DEF FactsApart
    <3> QED BY <3>1, <3>2, <2>2, <2>3, <2>4, <1>1
  <2>5. CASE list[i] \notin S
    BY <2>1, <2>2, <2>3, <2>5, <1>1
  <2> QED BY <2>4, <2>5
<1>7. \A i \in 0..Len(list) : i \in good
  <2> HIDE DEF good
  <2> QED BY <1>1, <1>5, <1>6, UpTo
<1>8. /\ r[Len(list)] \in Seq(T) /\ ToSet(r[Len(list)]) = Firsts(list, Len(list)) \cap S
      /\ FactsApart(list) => FactsApart(r[Len(list)])
  BY <1>1, <1>7
<1> QED BY <1>4, <1>8, FirstsAll

-----------------------------------------------------------------------------
(* What merging the memories that say the same yields.                       *)

Merges(list, later, merged, n) ==
  merged = [i \in 0..n |->
              IF i = 0 THEN <<>> ELSE MergedWith(merged[i - 1], list[i], later)]

LEMMA MergesExist ==
  ASSUME NEW list, NEW later, NEW n \in Nat
  PROVE  \E merged : Merges(list, later, merged, n)
<1> DEFINE good == {m \in Nat : \E merged : Merges(list, later, merged, m)}
<1>1. 0 \in good
  <2>1. Merges(list, later, [i \in 0..0 |-> <<>>], 0)
    BY DEF Merges
  <2> QED BY <2>1
<1>2. ASSUME NEW m \in 1..n, m - 1 \in good
      PROVE  m \in good
  <2>1. PICK r : Merges(list, later, r, m - 1)
    BY <1>2
  <2> DEFINE s == [i \in 0..m |->
                     IF i = m THEN MergedWith(r[m - 1], list[m], later) ELSE r[i]]
  <2>2. ASSUME NEW i \in 0..m
        PROVE  s[i] = IF i = 0 THEN <<>> ELSE MergedWith(s[i - 1], list[i], later)
    <3>1. CASE i = m
      <4>1. s[i - 1] = r[m - 1]
        BY <3>1
      <4> QED BY <4>1, <3>1
    <3>2. CASE i # m
      <4>1. i \in 0..(m - 1)
        BY <3>2
      <4>2. r[i] = IF i = 0 THEN <<>> ELSE MergedWith(r[i - 1], list[i], later)
        BY <2>1, <4>1 DEF Merges
      <4>3. i # 0 => s[i - 1] = r[i - 1]
        BY <4>1
      <4> QED BY <4>2, <4>3, <3>2
    <3> QED BY <3>1, <3>2
  <2>3. Merges(list, later, s, m)
    BY <2>2 DEF Merges
  <2> QED BY <2>3
<1>3. \A m \in 0..n : m \in good
  <2> HIDE DEF good
  <2> QED BY <1>1, <1>2, UpTo
<1> QED BY <1>3

\* A list in which the living of S are merged: each of its memories is the
\* first of S that says so, with the count of one of S, none is said twice.
MergeOf(S, acc) ==
  /\ acc \in Seq(Items)
  /\ \A i \in DOMAIN acc :
       /\ ~acc[i].gone
       /\ \E m \in S : ~m.gone /\ m.id = acc[i].id /\ m.fact = acc[i].fact
       /\ \E m \in S : m.access = acc[i].access
  /\ \A m \in S : ~m.gone => \E i \in DOMAIN acc : acc[i].fact = m.fact
  /\ FactsApart(acc)

LEMMA MergeStep ==
  ASSUME NEW S, NEW acc, MergeOf(S, acc), NEW m \in Items, NEW later \in BOOLEAN
  PROVE  MergeOf(S \cup {m}, MergedWith(acc, m, later))
<1>1. /\ acc \in Seq(Items)
      /\ Len(acc) \in Nat
      /\ DOMAIN acc = 1..Len(acc)
      /\ \A i \in 1..Len(acc) : acc[i] \in Items
  BY LenProperties, ElementOfSeq DEF MergeOf, FactsApart
<1>2. m.gone \in BOOLEAN
  BY DEF Items
<1>3. CASE m.gone
  BY <1>3 DEF MergedWith, MergeOf
<1>4. CASE ~m.gone /\ \E i \in DOMAIN acc : acc[i].fact = m.fact
  <2> DEFINE both(i) == [acc[i] EXCEPT !.access = IF m.access > @ THEN m.access ELSE @,
                                       !.label = IF later THEN m.label ELSE @]
             new == [i \in DOMAIN acc |-> IF acc[i].fact # m.fact THEN acc[i] ELSE both(i)]
  <2>1. MergedWith(acc, m, later) = new
    BY <1>4 DEF MergedWith
  <2>2. ASSUME NEW i \in 1..Len(acc)
        PROVE  /\ new[i] \in Items
               /\ new[i].id = acc[i].id /\ new[i].fact = acc[i].fact
               /\ new[i].gone = acc[i].gone
               /\ new[i].access \in {acc[i].access, m.access}
    <3>1. acc[i] \in Items /\ new[i] = IF acc[i].fact # m.fact THEN acc[i] ELSE both(i)
      BY <1>1
    <3>2. /\ both(i) \in Items
          /\ both(i).id = acc[i].id /\ both(i).fact = acc[i].fact
          /\ both(i).gone = acc[i].gone
          /\ both(i).access \in {acc[i].access, m.access}
      BY <3>1 DEF Items
    <3> HIDE DEF new, both
    <3> QED BY <3>1, <3>2
  <2>3. DOMAIN new = 1..Len(acc)
    BY <1>1
  <2>4. new \in Seq(Items)
    <3>1. new \in [1..Len(acc) -> Items]
      BY <2>2, <1>1
    <3> HIDE DEF new
    <3> QED BY <3>1, <1>1, SeqDef
  <2> HIDE DEF new
  <2>5. \A i \in DOMAIN new :
          /\ ~new[i].gone
          /\ \E k \in S \cup {m} : ~k.gone /\ k.id = new[i].id /\ k.fact = new[i].fact
          /\ \E k \in S \cup {m} : k.access = new[i].access
    <3> TAKE i \in DOMAIN new
    <3>1. /\ ~acc[i].gone
          /\ \E k \in S : ~k.gone /\ k.id = acc[i].id /\ k.fact = acc[i].fact
          /\ \E k \in S : k.access = acc[i].access
      BY <2>3, <1>1 DEF MergeOf, FactsApart
    <3> QED BY <3>1, <2>2, <2>3
  <2>6. \A k \in S \cup {m} : ~k.gone => \E i \in DOMAIN new : new[i].fact = k.fact
    <3> SUFFICES ASSUME NEW k \in S \cup {m}, ~k.gone
                 PROVE  \E i \in DOMAIN new : new[i].fact = k.fact
      OBVIOUS
    <3>1. PICK i \in DOMAIN acc : acc[i].fact = k.fact
      BY <1>4 DEF MergeOf, FactsApart
    <3> QED BY <3>1, <2>2, <2>3, <1>1
  <2>7. \A i, j \in DOMAIN new : new[i].fact = new[j].fact => i = j
    <3> TAKE i, j \in DOMAIN new
    <3>1. new[i].fact = acc[i].fact /\ new[j].fact = acc[j].fact
      BY <2>2, <2>3
    <3> QED BY <3>1, <2>3, <1>1 DEF MergeOf, FactsApart
  <2> QED BY <2>1, <2>4, <2>5, <2>6, <2>7 DEF MergeOf, FactsApart
<1>5. CASE ~m.gone /\ \A i \in DOMAIN acc : acc[i].fact # m.fact
  <2> DEFINE new == Append(acc, m)
  <2>1. MergedWith(acc, m, later) = new
    BY <1>5 DEF MergedWith
  <2>2. /\ new \in Seq(Items)
        /\ Len(new) = Len(acc) + 1
        /\ \A i \in 1..Len(acc) : new[i] = acc[i]
        /\ new[Len(acc) + 1] = m
    BY <1>1, AppendProperties
  <2>3. DOMAIN new = 1..(Len(acc) + 1)
    BY <2>2, LenProperties
  <2> HIDE DEF new
  <2>4. ASSUME NEW i \in DOMAIN new
        PROVE  (i \in DOMAIN acc /\ new[i] = acc[i]) \/ (i = Len(acc) + 1 /\ new[i] = m)
    <3>1. i \in 1..Len(acc) \/ i = Len(acc) + 1
      BY <2>3, <1>1
    <3> QED BY <3>1, <2>2, <1>1
  <2>5. \A i \in DOMAIN acc : i \in DOMAIN new /\ new[i] = acc[i]
    BY <2>2, <2>3, <1>1
  <2>6. \A i \in DOMAIN new :
          /\ ~new[i].gone
          /\ \E k \in S \cup {m} : ~k.gone /\ k.id = new[i].id /\ k.fact = new[i].fact
          /\ \E k \in S \cup {m} : k.access = new[i].access
    BY <2>4, <1>5 DEF MergeOf, FactsApart
  <2>7. \A k \in S \cup {m} : ~k.gone => \E i \in DOMAIN new : new[i].fact = k.fact
    <3>1. Len(acc) + 1 \in DOMAIN new
      BY <2>3, <1>1
    <3> QED BY <3>1, <2>2, <2>5 DEF MergeOf, FactsApart
  <2>8. \A i, j \in DOMAIN new : new[i].fact = new[j].fact => i = j
    BY <2>4, <1>5 DEF MergeOf, FactsApart
  <2> QED BY <2>1, <2>2, <2>6, <2>7, <2>8 DEF MergeOf, FactsApart
<1> QED BY <1>2, <1>3, <1>4, <1>5

LEMMA MergedList ==
  ASSUME NEW list \in Seq(Items), NEW later \in BOOLEAN
  PROVE  MergeOf(ToSet(list), Merged(list, later))
<1>1. Len(list) \in Nat /\ \A i \in 1..Len(list) : list[i] \in Items
  BY LenProperties, ElementOfSeq
<1> DEFINE r == CHOOSE f : f = [i \in 0..Len(list) |->
                  IF i = 0 THEN <<>> ELSE MergedWith(f[i - 1], list[i], later)]
<1>2. PICK f : Merges(list, later, f, Len(list))
  BY <1>1, MergesExist
<1>3. Merges(list, later, r, Len(list))
  BY <1>2 DEF Merges
<1>4. Merged(list, later) = r[Len(list)]
  BY DEF Merged
<1> HIDE DEF r
<1> DEFINE good == {i \in 0..Len(list) : MergeOf(Firsts(list, i), r[i])}
<1>5. 0 \in good
  <2>1. 0 \in 0..Len(list)
    BY <1>1
  <2>2. r[0] = <<>>
    BY <2>1, <1>3 DEF Merges
  <2>3. <<>> \in Seq(Items) /\ DOMAIN <<>> = {}
    BY EmptySeq
  <2>4. MergeOf({}, r[0])
    BY <2>2, <2>3 DEF MergeOf, FactsApart
  <2> QED BY <2>1, <2>4, FirstsAll
<1>6. ASSUME NEW i \in 1..Len(list), i - 1 \in good
      PROVE  i \in good
  <2>1. i \in 0..Len(list) /\ i # 0 /\ i \in Nat \ {0}
    BY <1>1
  <2>2. r[i] = MergedWith(r[i - 1], list[i], later)
    <3>1. r[i] = IF i = 0 THEN <<>> ELSE MergedWith(r[i - 1], list[i], later)
      BY <2>1, <1>3, Zenon DEF Merges
    <3> QED BY <3>1, <2>1
  <2>3. MergeOf(Firsts(list, i - 1) \cup {list[i]}, r[i])
    BY <2>2, <1>1, <1>6, MergeStep
  <2> QED BY <2>1, <2>3, FirstsStep
<1>7. \A i \in 0..Len(list) : i \in good
  <2> HIDE DEF good
  <2> QED BY <1>1, <1>5, <1>6, UpTo
<1>8. MergeOf(Firsts(list, Len(list)), r[Len(list)])
  BY <1>1, <1>7
<1> QED BY <1>4, <1>8, FirstsAll

-----------------------------------------------------------------------------
(* What the operations on an index do.                                       *)

\* Every label has an id of its own, below the next one.
GoodIndex(idx) ==
  /\ idx \in Indexes
  /\ \A l \in DOMAIN idx.sums : idx.sums[l].sid < idx.next
  /\ \A l, k \in DOMAIN idx.sums : idx.sums[l].sid = idx.sums[k].sid => l = k

Summaries == [sid : Nat, refs : Nat]

LEMMA CatalogType ==
  ASSUME NEW sums
  PROVE  sums \in Catalogs <=>
           DOMAIN sums \subseteq Labels /\ sums \in [DOMAIN sums -> Summaries]
BY DEF Catalogs, Summaries

LEMMA IndexType ==
  ASSUME NEW idx \in Indexes
  PROVE  /\ idx.next \in Nat /\ idx.mark \in Nat
         /\ idx.sums \in Catalogs
         /\ DOMAIN idx.sums \subseteq Labels
         /\ \A l \in DOMAIN idx.sums : idx.sums[l] \in Summaries
         /\ \A l \in DOMAIN idx.sums : idx.sums[l].sid \in Nat /\ idx.sums[l].refs \in Nat
<1>1. idx.next \in Nat /\ idx.mark \in Nat /\ idx.sums \in Catalogs
  BY DEF Indexes
<1>2. DOMAIN idx.sums \subseteq Labels /\ idx.sums \in [DOMAIN idx.sums -> Summaries]
  BY <1>1, CatalogType
<1>3. \A l \in DOMAIN idx.sums : idx.sums[l] \in Summaries
  BY <1>2
<1> QED BY <1>1, <1>2, <1>3 DEF Summaries

LEMMA NewIndexGood ==
  /\ GoodIndex(NewIndex)
  /\ DOMAIN NewIndex.sums = {}
  /\ NewIndex.mark = 0 /\ NewIndex.next = 1
<1>1. NewIndex.sums = << >> /\ NewIndex.mark = 0 /\ NewIndex.next = 1
  BY DEF NewIndex
<1>2. DOMAIN NewIndex.sums = {}
  BY <1>1
<1>3. NewIndex.sums \in Catalogs
  <2>1. NewIndex.sums = [l \in {} |-> [sid |-> 0, refs |-> 0]]
    BY <1>1
  <2> QED BY <2>1, <1>2, CatalogType DEF Summaries
<1>4. NewIndex \in Indexes
  BY <1>1, <1>3 DEF NewIndex, Indexes
<1> QED BY <1>1, <1>2, <1>4 DEF GoodIndex

LabelAdded(idx, label, new) ==
  /\ GoodIndex(new)
  /\ new.mark = idx.mark
  /\ DOMAIN new.sums = DOMAIN idx.sums \cup {label}
  /\ \A l \in DOMAIN idx.sums : new.sums[l] = idx.sums[l]
  /\ label \notin DOMAIN idx.sums => new.sums[label].refs = 0

LEMMA WithLabelGood ==
  ASSUME NEW idx, GoodIndex(idx), NEW label \in Labels, NEW preferred \in Nat
  PROVE  LabelAdded(idx, label, WithLabel(idx, label, preferred))
<1> SUFFICES ASSUME NEW new, new = WithLabel(idx, label, preferred)
             PROVE  /\ GoodIndex(new)
                    /\ new.mark = idx.mark
                    /\ DOMAIN new.sums = DOMAIN idx.sums \cup {label}
                    /\ \A l \in DOMAIN idx.sums : new.sums[l] = idx.sums[l]
                    /\ label \notin DOMAIN idx.sums => new.sums[label].refs = 0
  BY DEF LabelAdded
<1> DEFINE D == DOMAIN idx.sums
<1>1. /\ idx \in Indexes /\ idx.next \in Nat /\ idx.mark \in Nat /\ D \subseteq Labels
      /\ \A l \in D : idx.sums[l] \in Summaries
      /\ \A l \in D : idx.sums[l].sid \in Nat /\ idx.sums[l].refs \in Nat
  BY IndexType DEF GoodIndex
<1>2. CASE label \in D
  <2>1. new = idx
    BY <1>2 DEF WithLabel
  <2> QED BY <2>1, <1>2
<1>3. CASE label \notin D
  <2> DEFINE taken == {idx.sums[l].sid : l \in D}
             sid == IF preferred > 0 /\ preferred \notin taken THEN preferred ELSE idx.next
             sums == [l \in D \cup {label} |->
                        IF l = label THEN [sid |-> sid, refs |-> 0] ELSE idx.sums[l]]
             next == IF sid >= idx.next THEN sid + 1 ELSE idx.next
  <2>1. new = [idx EXCEPT !.sums = sums, !.next = next]
    BY <1>3 DEF WithLabel
  <2>2. sid \in Nat /\ next \in Nat /\ next >= idx.next /\ sid < next
    BY <1>1
  <2>3. \A l \in D : idx.sums[l].sid # sid
    <3>1. \A l \in D : idx.sums[l].sid \in taken /\ idx.sums[l].sid < idx.next
      BY DEF GoodIndex
    <3> QED BY <3>1, <1>1
  <2> HIDE DEF sid, next
  <2>4. /\ DOMAIN sums = D \cup {label}
        /\ sums[label] = [sid |-> sid, refs |-> 0]
        /\ \A l \in D : sums[l] = idx.sums[l]
    BY <1>3
  <2>5. sums \in Catalogs
    <3>1. sums \in [D \cup {label} -> Summaries]
      BY <1>1, <2>2 DEF Summaries
    <3>2. D \cup {label} \subseteq Labels
      BY <1>1
    <3> QED BY <3>1, <3>2, <2>4, CatalogType
  <2> HIDE DEF sums
  <2>6. /\ new \in Indexes
        /\ new.sums = sums /\ new.next = next /\ new.mark = idx.mark
    BY <2>1, <2>2, <2>5, <1>1 DEF Indexes
  <2>7. \A l \in D \cup {label} : sums[l].sid < next
    BY <2>2, <2>4, <1>1 DEF GoodIndex
  <2>8. \A l, k \in D \cup {label} : sums[l].sid = sums[k].sid => l = k
    BY <2>3, <2>4 DEF GoodIndex
  <2>9. GoodIndex(new)
    BY <2>4, <2>6, <2>7, <2>8 DEF GoodIndex
  <2> QED BY <2>4, <2>6, <2>9
<1> QED BY <1>2, <1>3

RefsMoved(idx, sid, delta, new) ==
  /\ GoodIndex(new)
  /\ new.mark = idx.mark
  /\ DOMAIN new.sums = DOMAIN idx.sums
  /\ \A l \in DOMAIN idx.sums :
       /\ new.sums[l].sid = idx.sums[l].sid
       /\ new.sums[l].refs =
            IF idx.sums[l].sid = sid
            THEN IF idx.sums[l].refs + delta < 0 THEN 0 ELSE idx.sums[l].refs + delta
            ELSE idx.sums[l].refs

LEMMA WithRefsGood ==
  ASSUME NEW idx, GoodIndex(idx), NEW sid \in Nat, NEW delta \in Int
  PROVE  RefsMoved(idx, sid, delta, WithRefs(idx, sid, delta))
<1> SUFFICES ASSUME NEW new, new = WithRefs(idx, sid, delta)
             PROVE  /\ GoodIndex(new)
                    /\ new.mark = idx.mark
                    /\ DOMAIN new.sums = DOMAIN idx.sums
                    /\ \A l \in DOMAIN idx.sums :
                         /\ new.sums[l].sid = idx.sums[l].sid
                         /\ new.sums[l].refs =
                              IF idx.sums[l].sid = sid
                              THEN IF idx.sums[l].refs + delta < 0 THEN 0
                                   ELSE idx.sums[l].refs + delta
                              ELSE idx.sums[l].refs
  BY DEF RefsMoved
<1> DEFINE D == DOMAIN idx.sums
           refs(l) == IF idx.sums[l].refs + delta < 0 THEN 0 ELSE idx.sums[l].refs + delta
           sums == [l \in D |-> IF idx.sums[l].sid = sid
                                THEN [sid |-> sid, refs |-> refs(l)]
                                ELSE idx.sums[l]]
<1>1. /\ idx \in Indexes /\ idx.next \in Nat /\ idx.mark \in Nat /\ D \subseteq Labels
      /\ \A l \in D : idx.sums[l] \in Summaries
      /\ \A l \in D : idx.sums[l].sid \in Nat /\ idx.sums[l].refs \in Nat
  BY IndexType DEF GoodIndex
<1>2. new = [idx EXCEPT !.sums = sums]
  BY DEF WithRefs
<1>3. ASSUME NEW l \in D
      PROVE  /\ sums[l] \in Summaries
             /\ sums[l].sid = idx.sums[l].sid
             /\ sums[l].refs = IF idx.sums[l].sid = sid THEN refs(l) ELSE idx.sums[l].refs
  <2>1. refs(l) \in Nat
    BY <1>1
  <2>2. [sid |-> sid, refs |-> refs(l)] \in Summaries
    BY <2>1 DEF Summaries
  <2> HIDE DEF refs
  <2> QED BY <2>2, <1>1
<1>4. DOMAIN sums = D /\ sums \in [D -> Summaries]
  BY <1>3
<1> HIDE DEF sums
<1>5. sums \in Catalogs
  BY <1>1, <1>4, CatalogType
<1>6. /\ new \in Indexes
      /\ new.sums = sums /\ new.next = idx.next /\ new.mark = idx.mark
  BY <1>1, <1>2, <1>5 DEF Indexes
<1>7. GoodIndex(new)
  BY <1>3, <1>4, <1>6 DEF GoodIndex
<1> QED BY <1>3, <1>4, <1>6, <1>7

UnusedDropped(idx, new) ==
  /\ GoodIndex(new)
  /\ new.mark = idx.mark
  /\ DOMAIN new.sums = {l \in DOMAIN idx.sums : idx.sums[l].refs > 0}
  /\ \A l \in DOMAIN new.sums : new.sums[l] = idx.sums[l]

LEMMA WithoutUnusedGood ==
  ASSUME NEW idx, GoodIndex(idx)
  PROVE  UnusedDropped(idx, WithoutUnused(idx))
<1> SUFFICES ASSUME NEW new, new = WithoutUnused(idx)
             PROVE  /\ GoodIndex(new)
                    /\ new.mark = idx.mark
                    /\ DOMAIN new.sums = {l \in DOMAIN idx.sums : idx.sums[l].refs > 0}
                    /\ \A l \in DOMAIN new.sums : new.sums[l] = idx.sums[l]
  BY DEF UnusedDropped
<1> DEFINE D == {l \in DOMAIN idx.sums : idx.sums[l].refs > 0}
           sums == [l \in D |-> idx.sums[l]]
<1>1. /\ idx \in Indexes /\ idx.next \in Nat /\ idx.mark \in Nat /\ D \subseteq Labels
      /\ \A l \in D : idx.sums[l] \in Summaries
  BY IndexType DEF GoodIndex
<1>2. new = [idx EXCEPT !.sums = sums]
  BY DEF WithoutUnused, Restrict
<1>3. DOMAIN sums = D /\ sums \in [D -> Summaries] /\ \A l \in D : sums[l] = idx.sums[l]
  BY <1>1
<1> HIDE DEF sums
<1>4. sums \in Catalogs
  BY <1>1, <1>3, CatalogType
<1>5. /\ new \in Indexes
      /\ new.sums = sums /\ new.next = idx.next /\ new.mark = idx.mark
  BY <1>1, <1>2, <1>4 DEF Indexes
<1>6. GoodIndex(new)
  BY <1>3, <1>5 DEF GoodIndex
<1> QED BY <1>3, <1>5, <1>6

-----------------------------------------------------------------------------
(* What labelling the memories of a compaction anew yields.                  *)

Relabels(list, old, new, n) ==
  new = [i \in 0..n |->
           IF i = 0
           THEN [list |-> <<>>, idx |-> [NewIndex EXCEPT !.mark = Len(digest)]]
           ELSE RelabelledWith(new[i - 1], list[i], old)]

LEMMA RelabelsExist ==
  ASSUME NEW list, NEW old, NEW n \in Nat
  PROVE  \E new : Relabels(list, old, new, n)
<1> DEFINE good == {m \in Nat : \E new : Relabels(list, old, new, m)}
           none == [list |-> <<>>, idx |-> [NewIndex EXCEPT !.mark = Len(digest)]]
<1>1. 0 \in good
  <2>1. Relabels(list, old, [i \in 0..0 |-> none], 0)
    BY DEF Relabels
  <2> QED BY <2>1
<1>2. ASSUME NEW m \in 1..n, m - 1 \in good
      PROVE  m \in good
  <2>1. PICK r : Relabels(list, old, r, m - 1)
    BY <1>2
  <2> DEFINE s == [i \in 0..m |->
                     IF i = m THEN RelabelledWith(r[m - 1], list[m], old) ELSE r[i]]
  <2>2. ASSUME NEW i \in 0..m
        PROVE  s[i] = IF i = 0 THEN none ELSE RelabelledWith(s[i - 1], list[i], old)
    <3> HIDE DEF none
    <3>1. CASE i = m
      <4>1. s[i - 1] = r[m - 1]
        BY <3>1
      <4> QED BY <4>1, <3>1
    <3>2. CASE i # m
      <4>1. i \in 0..(m - 1)
        BY <3>2
      <4>2. r[i] = IF i = 0 THEN none ELSE RelabelledWith(r[i - 1], list[i], old)
        BY <2>1, <4>1 DEF Relabels, none
      <4>3. i # 0 => s[i - 1] = r[i - 1]
        BY <4>1
      <4> QED BY <4>2, <4>3, <3>2
    <3> QED BY <3>1, <3>2
  <2>3. Relabels(list, old, s, m)
    BY <2>2 DEF Relabels
  <2> QED BY <2>3
<1>3. \A m \in 0..n : m \in good
  <2> HIDE DEF good
  <2> QED BY <1>1, <1>2, UpTo
<1> QED BY <1>3

\* The number of the first n that have the label.
Count(list, n, l) == Cardinality({k \in 1..n : list[k].label = l})

\* The first n of the list with the ids of a catalog that counts exactly them.
RelabelOf(list, n, acc) ==
  /\ acc.list \in Seq(Items) /\ Len(acc.list) = n
  /\ GoodIndex(acc.idx) /\ acc.idx.mark = Len(digest)
  /\ DOMAIN acc.idx.sums = {list[k].label : k \in 1..n}
  /\ \A k \in 1..n :
       acc.list[k] = [list[k] EXCEPT !.sid = acc.idx.sums[list[k].label].sid]
  /\ \A l \in DOMAIN acc.idx.sums :
       acc.idx.sums[l].refs = Count(list, n, l)

LEMMA CountStep ==
  ASSUME NEW list, NEW n \in Nat \ {0}, NEW l
  PROVE  /\ Count(list, n - 1, l) \in Nat
         /\ list[n].label = l => Count(list, n, l) = Count(list, n - 1, l) + 1
         /\ list[n].label # l => Count(list, n, l) = Count(list, n - 1, l)
<1> DEFINE before == {k \in 1..(n - 1) : list[k].label = l}
           now == {k \in 1..n : list[k].label = l}
<1>1. IsFiniteSet(before)
  <2>1. IsFiniteSet(1..(n - 1))
    BY FS_Interval
  <2>2. before \subseteq 1..(n - 1)
    OBVIOUS
  <2> QED BY <2>1, <2>2, FS_Subset
<1>2. now = before \cup (IF list[n].label = l THEN {n} ELSE {}) /\ n \notin before
  <2>1. 1..n = (1..(n - 1)) \cup {n} /\ n \notin 1..(n - 1)
    OBVIOUS
  <2> QED BY <2>1
<1>3. Cardinality(before) \in Nat
  BY <1>1, FS_CardinalityType
<1>4. list[n].label = l => Cardinality(now) = Cardinality(before) + 1
  <2> HIDE DEF now, before
  <2>1. list[n].label = l => now = before \cup {n}
    BY <1>2
  <2> QED BY <1>1, <1>2, <2>1, FS_AddElement
<1>5. list[n].label # l => now = before
  <2> HIDE DEF now, before
  <2> QED BY <1>2
<1>6. Count(list, n, l) = Cardinality(now) /\ Count(list, n - 1, l) = Cardinality(before)
  BY DEF Count
<1> QED
  <2> HIDE DEF now, before
  <2> QED BY <1>3, <1>4, <1>5, <1>6

LEMMA RelabelStep ==
  ASSUME NEW list \in Seq(Items), NEW n \in 1..Len(list), NEW old \in Indexes,
         NEW acc, RelabelOf(list, n - 1, acc)
  PROVE  RelabelOf(list, n, RelabelledWith(acc, list[n], old))
<1>1. /\ Len(list) \in Nat /\ n \in Nat \ {0} /\ n - 1 \in Nat
      /\ \A k \in 1..Len(list) : list[k] \in Items
  BY LenProperties, ElementOfSeq
<1> DEFINE m == list[n]
           preferred == IF m.label \in DOMAIN old.sums THEN old.sums[m.label].sid ELSE 0
           X == WithLabel(acc.idx, m.label, preferred)
           sid == X.sums[m.label].sid
           Y == WithRefs(X, sid, 1)
           item == [m EXCEPT !.sid = sid]
           new == RelabelledWith(acc, m, old)
           D == DOMAIN acc.idx.sums
<1>2. m \in Items /\ m.label \in Labels
  BY <1>1 DEF Items
<1>3. preferred \in Nat
  BY IndexType
<1>4. GoodIndex(acc.idx) /\ acc.idx.mark = Len(digest)
  BY DEF RelabelOf
<1>5. /\ GoodIndex(X)
      /\ X.mark = acc.idx.mark
      /\ DOMAIN X.sums = D \cup {m.label}
      /\ \A l \in D : X.sums[l] = acc.idx.sums[l]
      /\ m.label \notin D => X.sums[m.label].refs = 0
  <2> HIDE DEF preferred, X
  <2>1. X = WithLabel(acc.idx, m.label, preferred)
    BY DEF X
  <2> HIDE DEF m, D
  <2>2. LabelAdded(acc.idx, m.label, X)
    BY <2>1, <1>2, <1>3, <1>4, WithLabelGood
  <2> QED BY <2>2 DEF LabelAdded, D
<1>6. sid \in Nat
  <2> HIDE DEF X
  <2>1. X \in Indexes /\ m.label \in DOMAIN X.sums
    BY <1>5 DEF GoodIndex
  <2> HIDE DEF m
  <2> QED BY <2>1, IndexType
<1>7. /\ GoodIndex(Y)
      /\ Y.mark = X.mark
      /\ DOMAIN Y.sums = DOMAIN X.sums
      /\ \A l \in DOMAIN X.sums :
           /\ Y.sums[l].sid = X.sums[l].sid
           /\ Y.sums[l].refs =
                IF X.sums[l].sid = sid
                THEN IF X.sums[l].refs + 1 < 0 THEN 0 ELSE X.sums[l].refs + 1
                ELSE X.sums[l].refs
  <2> HIDE DEF X, sid, Y
  <2>1. Y = WithRefs(X, sid, 1)
    BY DEF Y
  <2>2. GoodIndex(X) /\ 1 \in Int
    BY <1>5
  <2>3. RefsMoved(X, sid, 1, Y)
    BY <2>1, <2>2, <1>6, WithRefsGood
  <2> QED BY <2>3 DEF RefsMoved
<1>8. new = [list |-> Append(acc.list, item), idx |-> Y]
  BY DEF RelabelledWith
<1>9. \A l \in DOMAIN X.sums : X.sums[l].sid = sid => l = m.label
  <2> HIDE DEF X, m
  <2> QED BY <1>5 DEF GoodIndex, sid
<1>10. item \in Items
  BY <1>2, <1>6 DEF Items
<1> HIDE DEF X, Y, sid, item, new, preferred
<1>11. /\ Append(acc.list, item) \in Seq(Items)
       /\ Len(Append(acc.list, item)) = n
       /\ \A k \in 1..(n - 1) : Append(acc.list, item)[k] = acc.list[k]
       /\ Append(acc.list, item)[n] = item
  <2>1. acc.list \in Seq(Items) /\ Len(acc.list) = n - 1
    BY DEF RelabelOf
  <2> QED BY <2>1, <1>1, <1>10, AppendProperties
<1>12. new.list \in Seq(Items) /\ Len(new.list) = n /\ new.idx = Y
  BY <1>8, <1>11
<1>13. 1..n = (1..(n - 1)) \cup {n}
  BY <1>1
<1>14. DOMAIN new.idx.sums = {list[k].label : k \in 1..n}
  <2>1. D = {list[k].label : k \in 1..(n - 1)}
    BY DEF RelabelOf
  <2>2. {list[k].label : k \in 1..n} = {list[k].label : k \in 1..(n - 1)} \cup {m.label}
    BY <1>13
  <2> QED BY <2>1, <2>2, <1>5, <1>7, <1>12
<1>15. ASSUME NEW k \in 1..n
       PROVE  new.list[k] = [list[k] EXCEPT !.sid = new.idx.sums[list[k].label].sid]
  <2>1. CASE k = n
    <3>1. new.list[n] = item
      BY <1>8, <1>11
    <3>2. new.idx.sums[m.label].sid = sid
      BY <1>5, <1>7, <1>12 DEF sid
    <3> QED BY <3>1, <3>2, <2>1 DEF item
  <2>2. CASE k # n
    <3>1. k \in 1..(n - 1)
      BY <1>13, <2>2
    <3>2. new.list[k] = acc.list[k]
      BY <1>8, <1>11, <3>1
    <3>3. /\ acc.list[k] = [list[k] EXCEPT !.sid = acc.idx.sums[list[k].label].sid]
          /\ list[k].label \in D
      BY <3>1 DEF RelabelOf
    <3>4. new.idx.sums[list[k].label].sid = acc.idx.sums[list[k].label].sid
      BY <3>3, <1>5, <1>7, <1>12
    <3> QED BY <3>2, <3>3, <3>4
  <2> QED BY <2>1, <2>2
<1>16. ASSUME NEW l \in DOMAIN new.idx.sums
       PROVE  new.idx.sums[l].refs = Count(list, n, l)
  <2>1. l \in D \cup {m.label}
    BY <1>5, <1>7, <1>12
  <2>2. /\ Count(list, n - 1, l) \in Nat
        /\ m.label = l => Count(list, n, l) = Count(list, n - 1, l) + 1
        /\ m.label # l => Count(list, n, l) = Count(list, n - 1, l)
    BY <1>1, CountStep
  <2>3. X.sums[l].refs = Count(list, n - 1, l)
    <3>1. CASE l \in D
      BY <3>1, <1>5 DEF RelabelOf
    <3>2. CASE l \notin D
      <4>1. {k \in 1..(n - 1) : list[k].label = l} = {}
        BY <3>2 DEF RelabelOf
      <4>2. Cardinality({}) = 0
        BY FS_EmptySet
      <4>3. Count(list, n - 1, l) = 0
        BY <4>1, <4>2 DEF Count
      <4> QED BY <4>3, <3>2, <2>1, <1>5
    <3> QED BY <3>1, <3>2
  <2>5. CASE l = m.label
    <3>1. Y.sums[l].refs = X.sums[l].refs + 1
      <4>1. X.sums[l].sid = sid
        BY <2>5 DEF sid
      <4> QED BY <4>1, <1>5, <1>7, <2>1, <2>2, <2>3
    <3> QED BY <3>1, <2>2, <2>3, <2>5, <1>12
  <2>6. CASE l # m.label
    <3>1. Y.sums[l].refs = X.sums[l].refs
      BY <1>5, <1>7, <1>9, <2>1, <2>6
    <3> QED BY <3>1, <2>2, <2>3, <2>6, <1>12
  <2> QED BY <2>5, <2>6
<1>17. GoodIndex(new.idx) /\ new.idx.mark = Len(digest)
  BY <1>4, <1>5, <1>7, <1>12
<1> QED BY <1>12, <1>14, <1>15, <1>16, <1>17 DEF RelabelOf, new

LEMMA RelabelledList ==
  ASSUME NEW list \in Seq(Items), NEW old \in Indexes, Len(digest) \in Nat
  PROVE  RelabelOf(list, Len(list), Relabelled(list, old))
<1>1. Len(list) \in Nat
  BY LenProperties
<1> DEFINE none == [list |-> <<>>, idx |-> [NewIndex EXCEPT !.mark = Len(digest)]]
           r == CHOOSE f : f = [i \in 0..Len(list) |->
                  IF i = 0
                  THEN [list |-> <<>>, idx |-> [NewIndex EXCEPT !.mark = Len(digest)]]
                  ELSE RelabelledWith(f[i - 1], list[i], old)]
<1>2. PICK f : Relabels(list, old, f, Len(list))
  BY <1>1, RelabelsExist
<1>3. Relabels(list, old, r, Len(list))
  BY <1>2 DEF Relabels
<1>4. Relabelled(list, old) = r[Len(list)]
  BY DEF Relabelled
<1> HIDE DEF r
<1> DEFINE good == {i \in 0..Len(list) : RelabelOf(list, i, r[i])}
<1>5. 0 \in good
  <2>1. 0 \in 0..Len(list)
    BY <1>1
  <2>2. r[0] = none
    BY <2>1, <1>3 DEF Relabels
  <2>3. none.list = <<>> /\ none.list \in Seq(Items) /\ Len(none.list) = 0
    BY EmptySeq
  <2>4. NewIndex \in Indexes /\ DOMAIN NewIndex.sums = {} /\ NewIndex.next = 1
    BY NewIndexGood DEF GoodIndex
  <2>5. /\ none.idx.sums = NewIndex.sums /\ none.idx.mark = Len(digest)
        /\ none.idx \in Indexes
    BY <2>4 DEF Indexes
  <2>6. GoodIndex(none.idx)
    BY <2>4, <2>5 DEF GoodIndex
  <2> HIDE DEF none
  <2>7. RelabelOf(list, 0, r[0])
    BY <2>2, <2>3, <2>4, <2>5, <2>6 DEF RelabelOf
  <2> QED BY <2>1, <2>7
<1>6. ASSUME NEW i \in 1..Len(list), i - 1 \in good
      PROVE  i \in good
  <2>1. i \in 0..Len(list) /\ i # 0
    BY <1>1
  <2>2. r[i] = RelabelledWith(r[i - 1], list[i], old)
    <3>1. r[i] = IF i = 0 THEN none ELSE RelabelledWith(r[i - 1], list[i], old)
      BY <2>1, <1>3, Zenon DEF Relabels
    <3> QED BY <3>1, <2>1
  <2> QED BY <2>1, <2>2, <1>6, RelabelStep
<1>7. \A i \in 0..Len(list) : i \in good
  <2> HIDE DEF good
  <2> QED BY <1>1, <1>5, <1>6, UpTo
<1> QED BY <1>1, <1>4, <1>7

-----------------------------------------------------------------------------
(* What a compaction has in hand.                                            *)

\* The list with at most d recalls more for each memory.
CountedOf(list, d, new) ==
  /\ new \in Seq(Items) /\ DOMAIN new = DOMAIN list
  /\ \A k \in DOMAIN list :
       /\ new[k].id = list[k].id /\ new[k].fact = list[k].fact
       /\ new[k].gone = list[k].gone
       /\ new[k].access <= list[k].access + d

LEMMA CountedList ==
  ASSUME NEW list \in Seq(Items), digest \in Seq(Nat), NEW mark \in Nat,
         mark <= Len(digest)
  PROVE  CountedOf(list, Len(digest) - mark, Counted(list, mark))
<1> DEFINE seen(id) == {n \in DOMAIN digest : n > mark /\ digest[n] = id}
           rest == (mark + 1)..Len(digest)
           one(k) == [list[k] EXCEPT !.access = @ + Cardinality(seen(list[k].id))]
           new == [k \in DOMAIN list |-> one(k)]
<1>1. /\ Len(list) \in Nat /\ DOMAIN list = 1..Len(list)
      /\ \A k \in 1..Len(list) : list[k] \in Items
      /\ Len(digest) \in Nat /\ DOMAIN digest = 1..Len(digest)
  BY LenProperties, ElementOfSeq
<1>2. IsFiniteSet(rest) /\ Cardinality(rest) = Len(digest) - mark
  <2>1. mark + 1 \in Int /\ Len(digest) \in Int
    BY <1>1
  <2>2. /\ IsFiniteSet(rest)
        /\ Cardinality(rest) = IF mark + 1 > Len(digest) THEN 0 ELSE Len(digest) - (mark + 1) + 1
    BY <2>1, FS_Interval
  <2> QED BY <2>2, <1>1
<1>3. ASSUME NEW id
      PROVE  Cardinality(seen(id)) \in Nat /\ Cardinality(seen(id)) <= Len(digest) - mark
  <2>1. seen(id) \subseteq rest
    BY <1>1
  <2> HIDE DEF seen, rest
  <2> QED BY <2>1, <1>2, FS_Subset, FS_CardinalityType
<1>4. Counted(list, mark) = new
  BY DEF Counted
<1>5. ASSUME NEW k \in 1..Len(list)
      PROVE  /\ one(k) \in Items
             /\ one(k).id = list[k].id /\ one(k).fact = list[k].fact
             /\ one(k).gone = list[k].gone
             /\ one(k).access <= list[k].access + (Len(digest) - mark)
  <2> DEFINE c == Cardinality(seen(list[k].id))
  <2>1. c \in Nat /\ c <= Len(digest) - mark
    BY <1>3
  <2>2. list[k] \in Items
    BY <1>1
  <2> HIDE DEF c
  <2>3. one(k) = [list[k] EXCEPT !.access = @ + c]
    BY DEF c
  <2>4. list[k].access \in Nat /\ Len(digest) - mark \in Int
    BY <2>2, <1>1 DEF Items
  <2>5. /\ one(k) \in Items /\ one(k).access = list[k].access + c
        /\ one(k).id = list[k].id /\ one(k).fact = list[k].fact
        /\ one(k).gone = list[k].gone
    <3> HIDE DEF one
    <3>1. list[k].access + c \in Nat
      BY <2>1, <2>4
    <3>2. one(k) = [list[k] EXCEPT !.access = list[k].access + c]
      BY <2>3, <2>2 DEF Items
    <3> DEFINE a == list[k].access + c
    <3> HIDE DEF a
    <3>3. a \in Nat /\ one(k) = [list[k] EXCEPT !.access = a]
      BY <3>1, <3>2 DEF a
    <3>4. /\ one(k) \in Items /\ one(k).access = a
          /\ one(k).id = list[k].id /\ one(k).fact = list[k].fact
          /\ one(k).gone = list[k].gone
      BY <2>2, <3>3 DEF Items
    <3> QED BY <3>4 DEF a
  <2> HIDE DEF one
  <2> QED BY <2>1, <2>4, <2>5
<1> HIDE DEF one
<1>6. new \in Seq(Items) /\ DOMAIN new = DOMAIN list
  <2>1. \A k \in 1..Len(list) : one(k) \in Items
    BY <1>5
  <2> QED BY <1>1, <2>1, IsASeq
<1>7. \A k \in DOMAIN list : new[k] = one(k)
  OBVIOUS
<1> HIDE DEF new
<1> QED BY <1>1, <1>4, <1>5, <1>6, <1>7 DEF CountedOf

LEMMA CountedTyped ==
  ASSUME NEW list \in Seq(Items), digest \in Seq(Nat), NEW mark \in Nat
  PROVE  Counted(list, mark) \in Seq(Items)
<1> DEFINE seen(id) == {n \in DOMAIN digest : n > mark /\ digest[n] = id}
           one(k) == [list[k] EXCEPT !.access = @ + Cardinality(seen(list[k].id))]
<1>1. /\ Len(list) \in Nat /\ DOMAIN list = 1..Len(list)
      /\ \A k \in 1..Len(list) : list[k] \in Items
      /\ Len(digest) \in Nat /\ DOMAIN digest = 1..Len(digest)
  BY LenProperties, ElementOfSeq
<1>2. ASSUME NEW k \in 1..Len(list)
      PROVE  one(k) \in Items
  <2> DEFINE c == Cardinality(seen(list[k].id))
  <2>1. c \in Nat
    <3>1. IsFiniteSet(1..Len(digest))
      BY <1>1, FS_Interval
    <3>2. seen(list[k].id) \subseteq 1..Len(digest)
      BY <1>1
    <3> HIDE DEF seen
    <3> QED BY <3>1, <3>2, FS_Subset, FS_CardinalityType
  <2>2. list[k] \in Items
    BY <1>1
  <2> HIDE DEF c
  <2> DEFINE a == list[k].access + c
  <2>3. a \in Nat
    BY <2>1, <2>2 DEF Items
  <2>4. one(k) = [list[k] EXCEPT !.access = a]
    BY <2>2 DEF Items, c
  <2> HIDE DEF a, one
  <2> QED BY <2>2, <2>3, <2>4 DEF Items
<1>3. Counted(list, mark) = [k \in 1..Len(list) |-> one(k)]
  BY <1>1 DEF Counted
<1> HIDE DEF one
<1> QED BY <1>1, <1>2, <1>3, IsASeq

LEMMA TrimmedList ==
  ASSUME NEW T, NEW list \in Seq(T), NEW new \in Trims(list)
  PROVE  /\ new \in Seq(T)
         /\ ToSet(new) \subseteq ToSet(list)
         /\ FactsApart(list) => FactsApart(new)
<1>1. PICK out : new = Only(list, ToSet(list) \ out)
  BY DEF Trims
<1> QED BY <1>1, OnlySet

\* The list of a compaction: living memories of S, each with its fact and the
\* count of one of S, at most d more; no fact is there twice.
CompactionOf(S, d, list) ==
  /\ list \in Seq(Items)
  /\ \A m \in ToSet(list) :
       /\ ~m.gone
       /\ \E n \in S : ~n.gone /\ n.id = m.id /\ n.fact = m.fact
       /\ \E n \in S : m.access <= n.access + d
  /\ FactsApart(list)

LEMMA CompactedList ==
  ASSUME NEW file \in Seq(Lines), digest \in Seq(Nat), NEW mark \in Nat,
         mark <= Len(digest), NEW later \in BOOLEAN,
         NEW merged, merged = Merged(Counted(Current(file), mark), later),
         NEW list \in Trims(merged), NEW old \in Indexes
  PROVE  /\ CompactionOf(ToSet(Current(file)), Len(digest) - mark, Relabelled(list, old).list)
         /\ FactsOf(Relabelled(list, old).list) = FactsOf(list)
         /\ FactsOf(merged) = FactsOf(Current(file))
         /\ list \in Seq(Items)
         /\ RelabelOf(list, Len(list), Relabelled(list, old))
<1> DEFINE S == ToSet(Current(file))
           c == Counted(Current(file), mark)
           d == Len(digest) - mark
           new == Relabelled(list, old)
<1>1. Current(file) \in Seq(Items) /\ DOMAIN Current(file) = 1..Len(Current(file))
  BY CurrentLast, LenProperties
<1>2. CountedOf(Current(file), d, c)
  BY <1>1, CountedList
<1>3. c \in Seq(Items)
  BY <1>2 DEF CountedOf
<1>4. MergeOf(ToSet(c), merged)
  BY <1>3, MergedList
<1>5. merged \in Seq(Items) /\ FactsApart(merged)
  BY <1>4 DEF MergeOf
<1>6. list \in Seq(Items) /\ ToSet(list) \subseteq ToSet(merged) /\ FactsApart(list)
  BY <1>5, TrimmedList
<1>7. Len(digest) \in Nat /\ Len(list) \in Nat
  BY <1>6, LenProperties
<1>8. RelabelOf(list, Len(list), new)
  BY <1>6, <1>7, RelabelledList
<1>9. /\ new.list \in Seq(Items) /\ Len(new.list) = Len(list)
      /\ \A k \in 1..Len(list) :
           new.list[k] = [list[k] EXCEPT !.sid = new.idx.sums[list[k].label].sid]
  BY <1>8 DEF RelabelOf
<1> HIDE DEF new, c, d
<1>10. DOMAIN new.list = 1..Len(list) /\ DOMAIN list = 1..Len(list)
  BY <1>6, <1>9, LenProperties
<1>11. ASSUME NEW k \in 1..Len(list)
       PROVE  /\ new.list[k].id = list[k].id /\ new.list[k].fact = list[k].fact
              /\ new.list[k].gone = list[k].gone /\ new.list[k].access = list[k].access
  <2>1. list[k] \in Items
    BY <1>6, ElementOfSeq
  <2> QED BY <2>1, <1>9 DEF Items
<1>12. ASSUME NEW m \in ToSet(merged)
       PROVE  /\ ~m.gone
              /\ \E n \in S : ~n.gone /\ n.id = m.id /\ n.fact = m.fact
              /\ \E n \in S : m.access <= n.access + d
  <2>1. PICK i \in DOMAIN merged : m = merged[i]
    BY DEF ToSet
  <2>2. /\ ~m.gone
        /\ \E n \in ToSet(c) : ~n.gone /\ n.id = m.id /\ n.fact = m.fact
        /\ \E n \in ToSet(c) : n.access = m.access
    BY <2>1, <1>4 DEF MergeOf
  <2>3. \A n \in ToSet(c) : \E o \in S :
           o.gone = n.gone /\ o.id = n.id /\ o.fact = n.fact /\ n.access <= o.access + d
    BY <1>2 DEF CountedOf, ToSet
  <2> HIDE DEF S
  <2> QED BY <2>2, <2>3
<1>13. FactsApart(new.list)
  BY <1>6, <1>10, <1>11 DEF FactsApart
<1>14. \A m \in ToSet(new.list) : \E n \in ToSet(list) :
          /\ m.id = n.id /\ m.fact = n.fact /\ m.gone = n.gone /\ m.access = n.access
  BY <1>10, <1>11 DEF ToSet
<1>15. \A n \in ToSet(list) : \E m \in ToSet(new.list) :
          /\ m.id = n.id /\ m.fact = n.fact /\ m.gone = n.gone /\ m.access = n.access
  BY <1>10, <1>11 DEF ToSet
<1>16. CompactionOf(S, d, new.list)
  <2> HIDE DEF S
  <2> QED BY <1>6, <1>9, <1>12, <1>13, <1>14 DEF CompactionOf
<1>17. FactsOf(new.list) = FactsOf(list)
  BY <1>14, <1>15 DEF FactsOf, Living
<1>18. FactsOf(merged) = FactsOf(Current(file))
  <2>1. FactsOf(merged) \subseteq FactsOf(Current(file))
    BY <1>12 DEF FactsOf, Living
  <2>2. ASSUME NEW m \in S, ~m.gone
        PROVE  \E n \in ToSet(merged) : ~n.gone /\ n.fact = m.fact
    <3>1. PICK k \in DOMAIN Current(file) : m = Current(file)[k]
      BY DEF ToSet
    <3>2. c[k] \in ToSet(c) /\ ~c[k].gone /\ c[k].fact = m.fact
      BY <3>1, <2>2, <1>2 DEF CountedOf, ToSet
    <3>3. PICK i \in DOMAIN merged : merged[i].fact = m.fact
      BY <3>2, <1>4 DEF MergeOf
    <3>4. merged[i] \in ToSet(merged)
      BY DEF ToSet
    <3> QED BY <3>3, <3>4, <1>12
  <2>3. FactsOf(Current(file)) \subseteq FactsOf(merged)
    BY <2>2 DEF FactsOf, Living
  <2> QED BY <2>1, <2>3
<1> QED BY <1>6, <1>8, <1>16, <1>17, <1>18 DEF new, d

-----------------------------------------------------------------------------
(* What a write leaves in a file.                                            *)

LEMMA RecordWritten ==
  ASSUME NEW file \in Seq(Lines), NEW m \in Lines
  PROVE  /\ WithRecord(file, m) \in Seq(Lines)
         /\ ToSet(WithRecord(file, m)) \subseteq ToSet(file) \cup {m}
         /\ Unfinished(file) => WithRecord(file, m) = file
         /\ ~Unfinished(file) =>
              ToSet(Current(WithRecord(file, m))) = After(ToSet(Current(file)), m)
<1>1. CASE Unfinished(file)
  BY <1>1 DEF WithRecord
<1>2. CASE ~Unfinished(file)
  <2>1. WithRecord(file, m) = Append(file, m)
    BY <1>2 DEF WithRecord
  <2>2. ToSet(Append(file, m)) = ToSet(file) \cup {m}
    BY ToSetAppend
  <2> QED BY <1>2, <2>1, <2>2, CurrentAppend
<1> QED BY <1>1, <1>2

LEMMA FirstPart ==
  ASSUME NEW S, NEW file \in Seq(S), NEW n \in 0..Len(file)
  PROVE  SubSeq(file, 1, n) \in Seq(S) /\ ToSet(SubSeq(file, 1, n)) \subseteq ToSet(file)
<1>1. /\ Len(file) \in Nat /\ DOMAIN file = 1..Len(file)
      /\ \A i \in 1..Len(file) : file[i] \in S
  BY LenProperties, ElementOfSeq
<1> DEFINE part == SubSeq(file, 1, n)
<1>2. part \in Seq(S) /\ Len(part) = n /\ \A i \in 1..n : part[i] = file[i]
  <2>1. \A i \in 1..n : file[i] \in S
    BY <1>1
  <2>2. part = [i \in 1..n |-> file[i]]
    BY <1>1
  <2>3. part \in Seq(S) /\ \A i \in 1..n : part[i] = file[i]
    <3> HIDE DEF part
    <3> QED BY <1>1, <2>1, <2>2, IsASeq
  <2>4. Len(part) = n
    <3> HIDE DEF part
    <3> QED BY <1>1, <2>2, <2>3, LenProperties
  <2> QED BY <2>3, <2>4
<1> HIDE DEF part
<1>3. DOMAIN part = 1..n
  BY <1>2, LenProperties
<1>4. ToSet(part) \subseteq ToSet(file)
  BY <1>1, <1>2, <1>3 DEF ToSet
<1> QED BY <1>2, <1>4 DEF part

LEMMA PartWritten ==
  ASSUME NEW lines \in Seq(Lines), NEW part \in Parts(lines)
  PROVE  part \in Seq(Lines) /\ ToSet(part) \ {Torn} \subseteq ToSet(lines)
<1>1. Len(lines) \in Nat
  BY LenProperties
<1>2. PICK n \in 0..Len(lines) :
        part = SubSeq(lines, 1, n) \/ part = Append(SubSeq(lines, 1, n), Torn)
  BY <1>1 DEF Parts
<1> DEFINE first == SubSeq(lines, 1, n)
<1>3. first \in Seq(Lines) /\ ToSet(first) \subseteq ToSet(lines)
  BY FirstPart
<1> HIDE DEF first
<1>4. Append(first, Torn) \in Seq(Lines) /\ ToSet(Append(first, Torn)) = ToSet(first) \cup {Torn}
  BY <1>3, ToSetAppend DEF Lines
<1>5. part = first \/ part = Append(first, Torn)
  BY <1>2 DEF first
<1> QED BY <1>3, <1>4, <1>5

LEMMA ListWritten ==
  ASSUME NEW list \in Seq(Items)
  PROVE  /\ Written(list) \in Seq(Lines)
         /\ ToSet(Written(list)) \ {Torn} \subseteq ToSet(list)
         /\ Long = {} => Written(list) = list
<1> DEFINE size(n) == n + 2 * Cardinality({i \in 1..n : list[i].fact \in Long})
           whole == {n \in 0..Len(list) : size(n) <= 2 * Len(list)}
<1>1. list \in Seq(Lines) /\ Len(list) \in Nat
  BY LenProperties DEF Lines
<1>2. Written(list) = IF Len(list) \in whole THEN list
                      ELSE Append(SubSeq(list, 1, Max(whole)), Torn)
  BY DEF Written
<1>3. 0 \in whole
  <2>1. {i \in 1..0 : list[i].fact \in Long} = {}
    OBVIOUS
  <2>2. size(0) = 0
    BY <2>1, FS_EmptySet
  <2> QED BY <2>2, <1>1
<1>4. Long = {} => Len(list) \in whole
  <2>1. SUFFICES ASSUME Long = {} PROVE size(Len(list)) <= 2 * Len(list)
    BY <1>1
  <2>2. {i \in 1..Len(list) : list[i].fact \in Long} = {}
    BY <2>1
  <2>3. Cardinality({i \in 1..Len(list) : list[i].fact \in Long}) = 0
    BY <2>2, FS_EmptySet
  <2> DEFINE n == Cardinality({i \in 1..Len(list) : list[i].fact \in Long})
  <2>4. n = 0
    BY <2>3
  <2> HIDE DEF n
  <2>5. Len(list) + 2 * n <= 2 * Len(list)
    BY <2>4, <1>1
  <2> QED BY <2>5 DEF n
<1>5. Max(whole) \in whole
  <2>1. whole \subseteq 0..Len(list)
    OBVIOUS
  <2> HIDE DEF whole
  <2> DEFINE left == {Len(list) - i : i \in whole}
  <2>2. left \subseteq Nat /\ left # {}
    BY <1>1, <1>3, <2>1
  <2>3. PICK i \in left : \A j \in left : i <= j
    <3> HIDE DEF left
    <3> QED BY <2>2, LeastExists
  <2>4. PICK n \in whole : i = Len(list) - n
    BY <2>3
  <2>5. ASSUME NEW k \in whole
        PROVE  n >= k
    <3>1. Len(list) - k \in left
      OBVIOUS
    <3>2. i <= Len(list) - k
      BY <3>1, <2>3
    <3>3. k \in Nat /\ n \in Nat
      BY <2>1, <1>1
    <3> QED BY <3>2, <3>3, <2>4, <1>1
  <2> QED BY <2>5 DEF Max
<1>6. Max(whole) \in 0..Len(list)
  BY <1>5
<1> HIDE DEF whole
<1> DEFINE first == SubSeq(list, 1, Max(whole))
<1>7. first \in Seq(Lines) /\ ToSet(first) \subseteq ToSet(list)
  BY <1>1, <1>6, FirstPart
<1> HIDE DEF first
<1>8. Append(first, Torn) \in Seq(Lines) /\ ToSet(Append(first, Torn)) = ToSet(first) \cup {Torn}
  BY <1>7, ToSetAppend DEF Lines
<1>9. Written(list) = list \/ Written(list) = Append(first, Torn)
  BY <1>2 DEF first
<1> QED BY <1>1, <1>2, <1>4, <1>7, <1>8, <1>9

-----------------------------------------------------------------------------
(* Types, and the order of the steps of a call.                              *)

Stores == {"store", "update"}

\* What the stage of a call tells of what it holds.
GoodJob(j) ==
  /\ j \in Jobs
  /\ GoodIndex(j.idx)
  /\ j.promise => j.kind \in Stores
  /\ j.kind \in Stores => j.fact \in Facts /\ j.label \in Labels
  /\ j.pc = "check" => j.kind \in Stores /\ j.part = "store"
  /\ j.pc = "append" => j.part \in {"store", "forget"}
  /\ j.pc \in {"find", "reload"} => j.part = "forget"
  /\ j.pc = "append" /\ j.part = "store" => j.list # <<>>
  /\ j.pc \in {"append", "reload"} /\ j.part = "forget" =>
       \E m \in ToSet(j.list) : m.id = j.id

BootStages == {"create", "compact", "newRecords", "newIndex", "newMarkdown", "up"}

\* The index is there once the boot has created it, and no call is under way
\* before the boot has come to its end.
Ordered ==
  /\ \A p \in Procs : GoodJob(job[p])
  /\ job[Main].pc \in BootStages /\ job[Main].part = "none" /\ job[Main].kind = "none"
  /\ \A w \in Writers : job[w].pc \notin {"create", "up"}
  /\ ~Up => \A w \in Writers : job[w] = Quiet
  /\ index = Missing => At(Main, "create")
  /\ index \in Indexes => GoodIndex(index)

Shaped == TypeOK /\ Ordered

LEMMA JobFields ==
  ASSUME NEW j \in Jobs
  PROVE  /\ j.pc \in Stages
         /\ j.kind \in {"none", "store", "update", "forget"}
         /\ j.fact \in Facts \cup {NoFact} /\ j.label \in Labels \cup {NoLabel}
         /\ j.id \in Nat
         /\ j.part \in {"none", "store", "forget", "missed", "last"}
         /\ j.doomed \subseteq Nat
         /\ j.replace \in BOOLEAN /\ j.promise \in BOOLEAN /\ j.joined \in BOOLEAN
         /\ j.list \in Seq(Items) /\ j.idx \in Indexes
BY DEF Jobs

LEMMA QuietGood == GoodJob(Quiet) /\ GoodJob([Quiet EXCEPT !.pc = "create"])
<1>1. GoodIndex(NewIndex) /\ NewIndex \in Indexes
  BY NewIndexGood DEF GoodIndex
<1>2. <<>> \in Seq(Items)
  BY EmptySeq
<1> HIDE DEF NewIndex
<1>3. Quiet \in Jobs /\ [Quiet EXCEPT !.pc = "create"] \in Jobs
  BY <1>1, <1>2 DEF Quiet, Jobs, Stages
<1> QED BY <1>1, <1>3 DEF Quiet, GoodJob, Stores

LEMMA ShapedInit == Init => Shaped
<1> SUFFICES ASSUME Init PROVE Shaped
  OBVIOUS
<1>1. <<>> \in Seq(Lines) /\ <<>> \in Seq(Nat)
  BY EmptySeq
<1>2. Main \in Procs /\ \A w \in Writers : w \in Procs /\ w # Main
  BY MemoryAssumption DEF Procs
<1>3. /\ job[Main] = [Quiet EXCEPT !.pc = "create"]
      /\ \A w \in Writers : job[w] = Quiet
      /\ \A p \in Procs : GoodJob(job[p])
      /\ job \in [Procs -> Jobs]
  <2> HIDE DEF Quiet
  <2> QED BY <1>2, QuietGood DEF Init, GoodJob
<1>4. TypeOK
  BY <1>1, <1>3 DEF Init, TypeOK, Lines
<1>5. Ordered
  <2>1. index \notin Indexes
    BY MemoryAssumption DEF Init
  <2> QED BY <1>2, <1>3, <2>1 DEF Init, Ordered, At, Quiet, BootStages
<1> QED BY <1>4, <1>5 DEF Shaped

LEMMA NextCases ==
  ASSUME Next
  PROVE  \/ Create
         \/ \E p \in Procs :
              \/ CheckKnown(p) \/ IndexUnread(p) \/ AppendRecord(p) \/ SaveIndex(p)
              \/ SyncMarkdown(p) \/ Find(p) \/ NotFound(p) \/ Conflicts(p)
              \/ ForgetNext(p) \/ Finish(p) \/ RewriteRecords(p) \/ CompactEnd(p)
              \/ \E old \in {index, NewIndex} :
                   CheckNew(p, old) \/ Reload(p, old) \/ Compact(p, old)
         \/ \E p \in Procs : Cut(p)
         \/ \E w \in Writers :
              \/ \E fact \in Facts, label \in Labels, replace \in BOOLEAN :
                   BeginStore(w, fact, label, replace)
              \/ \E fact \in Facts, label \in Labels, id \in 1..lastId :
                   BeginUpdate(w, id, fact, label)
              \/ \E id \in 1..lastId : BeginForget(w, id)
              \/ \E label \in Labels : Recall(w, label)
              \/ Return(w)
              \/ OpenFails(w)
BY Zenon DEF Next, Step, Call

\* What is to show of a step of p that only changes what p holds.
LEMMA OneJob ==
  ASSUME Shaped, NEW p \in Procs, NEW j, GoodJob(j), job' = [job EXCEPT ![p] = j],
         p = Main => j.pc \in BootStages /\ j.part = "none" /\ j.kind = "none",
         p # Main => j.pc \notin {"create", "up"},
         p # Main => Up,
         p = Main => ~Up,
         index' = Missing => index = Missing /\ p # Main,
         index' \in Indexes => GoodIndex(index')
  PROVE  job' \in [Procs -> Jobs] /\ Ordered'
<1>1. job \in [Procs -> Jobs] /\ j \in Jobs
  BY DEF Shaped, TypeOK, GoodJob
<1>2. job' \in [Procs -> Jobs] /\ job'[p] = j /\ \A q \in Procs : q # p => job'[q] = job[q]
  BY <1>1
<1>3. Main \in Procs /\ \A w \in Writers : w \in Procs /\ w # Main
  BY MemoryAssumption DEF Procs
<1> DEFINE old == job
           new == job'
<1> HIDE DEF old, new
<1>4. /\ new[p] = j /\ \A q \in Procs : q # p => new[q] = old[q]
      /\ \A q \in Procs : GoodJob(old[q])
      /\ old[Main].pc \in BootStages /\ old[Main].part = "none" /\ old[Main].kind = "none"
      /\ \A w \in Writers : old[w].pc \notin {"create", "up"}
      /\ old[Main].pc # "up" => \A w \in Writers : old[w] = Quiet
      /\ index = Missing => old[Main].pc = "create"
      /\ p # Main => old[Main].pc = "up"
      /\ p = Main => old[Main].pc # "up"
  BY <1>2 DEF old, new, Shaped, Ordered, At, Up
<1>5. \A q \in Procs : GoodJob(new[q])
  BY <1>4
<1>6. CASE p = Main
  <2>1. \A w \in Writers : new[w] = Quiet
    BY <1>3, <1>4, <1>6
  <2>2. Quiet.pc \notin {"create", "up"}
    BY DEF Quiet
  <2>3. index' # Missing
    BY <1>6
  <2> HIDE DEF Quiet
  <2> QED BY <1>2, <1>4, <1>5, <1>6, <2>1, <2>2, <2>3 DEF Ordered, At, Up, new
<1>7. CASE p # Main
  <2>1. new[Main] = old[Main] /\ new[Main].pc = "up"
    BY <1>3, <1>4, <1>7
  <2>2. \A w \in Writers : new[w].pc \notin {"create", "up"}
    BY <1>3, <1>4, <1>7
  <2>3. index' # Missing
    BY <1>4, <1>7
  <2> QED BY <1>2, <1>4, <1>5, <1>7, <2>1, <2>2, <2>3 DEF Ordered, At, Up, new
<1> QED BY <1>6, <1>7

LEMMA Turn ==
  ASSUME Shaped, NEW p \in Procs, job[p].pc \notin {"idle", "up"}
  PROVE  /\ p # Main => Up /\ job[p].pc \notin {"create", "up"}
         /\ p = Main => ~Up /\ job[p].pc \in BootStages
                        /\ job[p].part = "none" /\ job[p].kind = "none"
         /\ GoodJob(job[p]) /\ job[p] \in Jobs
<1>1. p # Main => p \in Writers
  BY DEF Procs
<1>2. Quiet.pc = "idle"
  BY DEF Quiet
<1> HIDE DEF Quiet
<1> QED BY <1>1, <1>2 DEF Shaped, Ordered, Up, At, GoodJob

\* A call that only comes to a stage that nothing is held for.
LEMMA Moved ==
  ASSUME NEW o, GoodJob(o),
         NEW pc \in Stages \ {"check", "find", "append", "reload"}
  PROVE  GoodJob([o EXCEPT !.pc = pc])
<1> DEFINE j == [o EXCEPT !.pc = pc]
<1>1. o \in Jobs
  BY DEF GoodJob
<1>2. /\ j \in Jobs
      /\ j.pc = pc /\ j.kind = o.kind /\ j.fact = o.fact /\ j.label = o.label
      /\ j.part = o.part /\ j.promise = o.promise /\ j.idx = o.idx
  BY <1>1 DEF Jobs
<1> HIDE DEF j
<1>3. GoodJob(j)
  BY <1>2 DEF GoodJob
<1> QED BY <1>3 DEF j

LEMMA ShapedGoto ==
  ASSUME Shaped, NEW p \in Procs, job[p].pc \notin {"idle", "up"},
         NEW pc \in Stages \ {"check", "find", "append", "reload"}, Goto(p, pc),
         p = Main => pc \in BootStages,
         p # Main => pc \notin {"create", "up"},
         index' = Missing => index = Missing /\ p # Main,
         index' \in Indexes => GoodIndex(index')
  PROVE  job' \in [Procs -> Jobs] /\ Ordered'
<1> DEFINE j == [job[p] EXCEPT !.pc = pc]
<1>1. GoodJob(j)
  BY Turn, Moved
<1>2. job' = [job EXCEPT ![p] = j]
  BY DEF Goto
<1>3. j.pc = pc /\ j.part = job[p].part /\ j.kind = job[p].kind
  BY Turn DEF Jobs
<1> HIDE DEF j
<1> QED BY <1>1, <1>2, <1>3, Turn, OneJob

LEMMA ShapedStages ==
  ASSUME Shaped, NEW p \in Procs
  PROVE  /\ IndexUnread(p) => Shaped'
         /\ SaveIndex(p) => Shaped'
         /\ SyncMarkdown(p) => Shaped'
         /\ RewriteRecords(p) => Shaped'
         /\ CompactEnd(p) => Shaped'
<1>1. TypeOK /\ Ordered
  BY DEF Shaped
<1>2. Garbled \notin Indexes /\ Garbled # Missing /\ Missing \notin Indexes
  BY MemoryAssumption
<1> DEFINE free == Stages \ {"check", "find", "append", "reload"}
<1>3. FactsOf(job[p].list) \subseteq Facts
  <2>1. job[p].list \in Seq(Items)
    BY <1>1, JobFields DEF TypeOK
  <2>2. ToSet(job[p].list) \subseteq Items
    BY <2>1, ToSetSeq
  <2> QED BY <2>2 DEF FactsOf, Living, Items
<1>4. ASSUME IndexUnread(p) PROVE Shaped'
  <2> DEFINE pc == IF p = Main THEN "up" ELSE "failed"
  <2>1. pc \in free /\ (p = Main => pc \in BootStages) /\ (p # Main => pc \notin {"create", "up"})
    BY DEF Stages, BootStages
  <2>2. Goto(p, pc) /\ index' = index /\ index = Garbled
    BY <1>4 DEF IndexUnread
  <2>3. job[p].pc \notin {"idle", "up"}
    BY <1>4 DEF IndexUnread, At
  <2> HIDE DEF pc
  <2>4. job' \in [Procs -> Jobs] /\ Ordered'
    BY <1>2, <2>1, <2>2, <2>3, ShapedGoto
  <2> QED BY <2>4, <1>1, <1>4 DEF IndexUnread, Shaped, TypeOK
<1>5. ASSUME SaveIndex(p) PROVE Shaped'
  <2> DEFINE pc == IF At(p, "index") THEN "markdown" ELSE "newMarkdown"
  <2>1. job[p].pc \in {"index", "newIndex"} /\ Goto(p, pc) /\ index' = job[p].idx
    BY <1>5 DEF SaveIndex, At
  <2>2. pc \in free /\ (p = Main => pc \in BootStages) /\ (p # Main => pc \notin {"create", "up"})
    <3>1. p = Main => job[p].pc = "newIndex"
      BY <2>1, Turn DEF BootStages
    <3> QED BY <3>1 DEF Stages, BootStages, At
  <2>3. GoodIndex(job[p].idx) /\ job[p].idx \in Indexes
    BY <2>1, Turn, JobFields DEF GoodJob
  <2> HIDE DEF pc
  <2>4. job' \in [Procs -> Jobs] /\ Ordered'
    BY <1>2, <2>1, <2>2, <2>3, ShapedGoto
  <2> QED BY <2>3, <2>4, <1>1, <1>5 DEF SaveIndex, Shaped, TypeOK
<1>6. ASSUME SyncMarkdown(p) PROVE Shaped'
  <2> DEFINE pc == IF CompactDue(changes + 1) THEN "compact" ELSE "next"
  <2>1. job[p].pc = "markdown" /\ Goto(p, pc) /\ index' = index
    BY <1>6 DEF SyncMarkdown, At
  <2>2. p # Main
    BY <2>1, Turn DEF BootStages
  <2>3. pc \in free /\ pc \notin {"create", "up"}
    BY DEF Stages
  <2> HIDE DEF pc
  <2>4. job' \in [Procs -> Jobs] /\ Ordered'
    BY <1>1, <2>1, <2>2, <2>3, ShapedGoto DEF Ordered
  <2> QED BY <2>4, <1>1, <1>3, <1>6 DEF SyncMarkdown, Shaped, TypeOK
<1>7. ASSUME RewriteRecords(p) PROVE Shaped'
  <2>1. job[p].pc = "newRecords" /\ Goto(p, "newIndex") /\ index' = index
    BY <1>7 DEF RewriteRecords, At
  <2>2. "newIndex" \in free /\ "newIndex" \in BootStages
    BY DEF Stages, BootStages
  <2>3. index # Missing \/ p # Main
    BY <1>1, <2>1 DEF Ordered, At
  <2>4. job' \in [Procs -> Jobs] /\ Ordered'
    BY <1>1, <2>1, <2>2, <2>3, ShapedGoto DEF Ordered
  <2>5. Written(job[p].list) \in Seq(Lines)
    BY <2>1, Turn, JobFields, ListWritten
  <2> QED BY <2>4, <2>5, <1>1, <1>7 DEF RewriteRecords, Shaped, TypeOK, Lines
<1>8. ASSUME CompactEnd(p) PROVE Shaped'
  <2> DEFINE pc == IF p = Main THEN "up" ELSE "next"
  <2>1. job[p].pc = "newMarkdown" /\ Goto(p, pc) /\ index' = index
    BY <1>8 DEF CompactEnd, At
  <2>2. pc \in free /\ (p = Main => pc \in BootStages) /\ (p # Main => pc \notin {"create", "up"})
    BY DEF Stages, BootStages
  <2>3. index # Missing \/ p # Main
    BY <1>1, <2>1 DEF Ordered, At
  <2> HIDE DEF pc
  <2>4. job' \in [Procs -> Jobs] /\ Ordered'
    BY <1>1, <2>1, <2>2, <2>3, ShapedGoto DEF Ordered
  <2> QED BY <2>4, <1>1, <1>3, <1>8 DEF CompactEnd, Shaped, TypeOK
<1> QED BY <1>4, <1>5, <1>6, <1>7, <1>8

LEMMA CurrentEmpty == ToSet(Current(<<>>)) = {}
<1>1. <<>> \in Seq(Lines) /\ ToSet(<<>>) = {}
  BY EmptySeq, ToSetEmpty
<1> QED BY <1>1, CurrentOwn

LEMMA ActiveTyped ==
  ASSUME Shaped
  PROVE  /\ records \in Seq(Lines)
         /\ Current(records) \in Seq(Items)
         /\ OwnIds(ToSet(Current(records)))
         /\ Active(records) = {m \in ToSet(Current(records)) : ~m.gone}
         /\ ToSet(Current(records)) \subseteq Items
         /\ \A m \in ToSet(Current(records)) :
              m \in Items /\ m.id \in Nat /\ m.fact \in Facts /\ m.gone \in BOOLEAN
<1>1. records \in Seq(Lines)
  BY DEF Shaped, TypeOK, Lines
<1> QED BY <1>1, CurrentOwn, CurrentLast DEF Active, Living, Items

\* The record that is appended, or that was, is a line of the list in hand.
LEMMA RecordTyped ==
  ASSUME Shaped, NEW p \in Procs, At(p, "append") \/ At(p, "reload")
  PROVE  /\ Record(p) \in Items /\ Record(p) \in ToSet(job[p].list)
         /\ job[p].part = "forget" => Record(p).id = job[p].id
         /\ job[p].part = "store" => Record(p) = Last(job[p].list)
<1>1. /\ job[p].list \in Seq(Items)
      /\ ToSet(job[p].list) \subseteq Items
      /\ GoodJob(job[p]) /\ job[p].pc \in {"append", "reload"}
  BY Turn, JobFields, ToSetSeq DEF At
<1>2. CASE job[p].part = "store"
  <2>1. job[p].list # <<>>
    BY <1>1, <1>2 DEF GoodJob
  <2>2. Len(job[p].list) \in Nat \ {0} /\ DOMAIN job[p].list = 1..Len(job[p].list)
    BY <1>1, <2>1, LenProperties, EmptySeq
  <2>3. Last(job[p].list) = job[p].list[Len(job[p].list)]
    BY DEF Last
  <2>4. Last(job[p].list) \in ToSet(job[p].list)
    BY <2>2, <2>3 DEF ToSet
  <2> QED BY <1>1, <1>2, <2>4 DEF Record
<1>3. CASE job[p].part = "forget"
  <2>1. \E m \in ToSet(job[p].list) : m.id = job[p].id
    BY <1>1, <1>3 DEF GoodJob
  <2>2. Record(p) = CHOOSE m \in ToSet(job[p].list) : m.id = job[p].id
    BY <1>3 DEF Record
  <2>3. Record(p) \in ToSet(job[p].list) /\ Record(p).id = job[p].id
    BY <2>1, <2>2
  <2> QED BY <1>1, <1>3, <2>3
<1> QED BY <1>1, <1>2, <1>3 DEF GoodJob

LEMMA ShapedStore ==
  ASSUME Shaped, NEW p \in Procs
  PROVE  /\ CheckKnown(p) => Shaped'
         /\ AppendRecord(p) => Shaped'
         /\ Find(p) => Shaped'
         /\ NotFound(p) => Shaped'
         /\ Conflicts(p) => Shaped'
<1>1. TypeOK /\ Ordered
  BY DEF Shaped
<1> DEFINE o == job[p]
<1> HIDE DEF o
<1>2. ASSUME NEW j, GoodJob(j), job' = [job EXCEPT ![p] = j],
             job[p].pc \in {"check", "append", "find", "next"}, index' = index,
             j.pc \in Stages \ {"create", "up"}
      PROVE  job' \in [Procs -> Jobs] /\ Ordered'
  <2>1. p # Main /\ Up
    BY <1>2, Turn DEF BootStages
  <2> QED BY <1>1, <1>2, <2>1, OneJob DEF Ordered
<1>3. ASSUME CheckKnown(p) PROVE Shaped'
  <2> DEFINE j == [o EXCEPT !.pc = "next", !.replace = FALSE]
  <2>1. job[p].pc = "check" /\ GoodJob(o) /\ o \in Jobs
    BY <1>3, Turn DEF CheckKnown, At, o
  <2>2. /\ j \in Jobs /\ j.pc = "next"
        /\ j.kind = o.kind /\ j.fact = o.fact /\ j.label = o.label
        /\ j.part = o.part /\ j.promise = o.promise /\ j.idx = o.idx
    BY <2>1 DEF Jobs, Stages
  <2>3. job' = [job EXCEPT ![p] = j] /\ index' = index
    BY <1>3 DEF CheckKnown, o
  <2> HIDE DEF j
  <2>4. GoodJob(j) /\ j.pc \in Stages \ {"create", "up"}
    BY <2>1, <2>2 DEF GoodJob, Stages
  <2>5. job' \in [Procs -> Jobs] /\ Ordered'
    BY <1>2, <2>1, <2>3, <2>4
  <2> QED BY <2>5, <1>1, <1>3 DEF CheckKnown, Shaped, TypeOK
<1>4. ASSUME AppendRecord(p) PROVE Shaped'
  <2> DEFINE pc == IF o.part = "store" THEN "index" ELSE "reload"
             j == [o EXCEPT !.pc = pc, !.joined = @ \/ Unfinished(records)]
  <2>1. job[p].pc = "append" /\ GoodJob(o) /\ o \in Jobs
    BY <1>4, Turn DEF AppendRecord, At, o
  <2>2. /\ j \in Jobs /\ j.pc = pc
        /\ j.kind = o.kind /\ j.fact = o.fact /\ j.label = o.label /\ j.id = o.id
        /\ j.part = o.part /\ j.promise = o.promise /\ j.idx = o.idx /\ j.list = o.list
    BY <2>1 DEF Jobs, Stages
  <2>3. job' = [job EXCEPT ![p] = j] /\ index' = index
    BY <1>4 DEF AppendRecord, o
  <2> HIDE DEF j
  <2>4. GoodJob(j) /\ j.pc \in Stages \ {"create", "up"}
    BY <2>1, <2>2 DEF GoodJob, Stages, o
  <2>5. job' \in [Procs -> Jobs] /\ Ordered'
    BY <1>2, <2>1, <2>3, <2>4
  <2>6. records' \in Seq(Lines)
    BY <1>4, <2>1, ActiveTyped, RecordTyped, RecordWritten DEF AppendRecord, Lines
  <2> QED BY <2>5, <2>6, <1>1, <1>4 DEF AppendRecord, Shaped, TypeOK, Lines
<1>5. ASSUME Find(p) PROVE Shaped'
  <2> DEFINE cur == Current(records)
             mark(m) == IF m.id = o.id THEN [m EXCEPT !.gone = TRUE] ELSE m
             list == [i \in DOMAIN cur |-> mark(cur[i])]
             j == [o EXCEPT !.pc = "append", !.list = list]
  <2>1. job[p].pc = "find" /\ GoodJob(o) /\ o \in Jobs
    BY <1>5, Turn DEF Find, At, o
  <2>2. /\ cur \in Seq(Items) /\ Len(cur) \in Nat /\ DOMAIN cur = 1..Len(cur)
        /\ \A i \in 1..Len(cur) : cur[i] \in Items
    BY ActiveTyped, LenProperties, ElementOfSeq
  <2>3. \A m \in Items : mark(m) \in Items /\ mark(m).id = m.id
    BY DEF Items
  <2>4. list \in Seq(Items) /\ DOMAIN list = DOMAIN cur
    <3> HIDE DEF mark, cur
    <3> QED BY <2>2, <2>3, IsASeq
  <2>5. \A i \in DOMAIN cur : list[i].id = cur[i].id
    <3> HIDE DEF mark, cur
    <3> QED BY <2>2, <2>3
  <2>6. job' = [job EXCEPT ![p] = j] /\ index' = index
    BY <1>5 DEF Find, o
  <2>7. PICK m \in Active(records) : m.id = o.id
    BY <1>5 DEF Find, o
  <2> HIDE DEF list
  <2>8. /\ j \in Jobs /\ j.pc = "append" /\ j.list = list
        /\ j.kind = o.kind /\ j.fact = o.fact /\ j.label = o.label /\ j.id = o.id
        /\ j.part = o.part /\ j.promise = o.promise /\ j.idx = o.idx
    BY <2>1, <2>4 DEF Jobs, Stages
  <2>9. \E n \in ToSet(list) : n.id = o.id
    <3>1. PICK i \in DOMAIN cur : cur[i] = m
      BY ActiveTyped DEF ToSet
    <3> HIDE DEF cur
    <3> QED BY <3>1, <2>4, <2>5, <2>7 DEF ToSet
  <2> HIDE DEF j, cur
  <2>10. GoodJob(j) /\ j.pc \in Stages \ {"create", "up"}
    BY <2>1, <2>8, <2>9 DEF GoodJob, Stages, o
  <2>11. job' \in [Procs -> Jobs] /\ Ordered'
    BY <1>2, <2>1, <2>6, <2>10
  <2>12. kept' \in SUBSET Facts
    BY <1>1, <1>5 DEF Find, TypeOK
  <2> QED BY <2>11, <2>12, <1>1, <1>5 DEF Find, Shaped, TypeOK
<1>6. ASSUME NotFound(p) PROVE Shaped'
  <2> DEFINE pc == IF o.kind = "store" THEN "next" ELSE "failed"
             j == [o EXCEPT !.pc = pc, !.part = "missed"]
  <2>1. job[p].pc = "find" /\ GoodJob(o) /\ o \in Jobs
    BY <1>6, Turn DEF NotFound, At, o
  <2>2. /\ j \in Jobs /\ j.pc = pc
        /\ j.kind = o.kind /\ j.fact = o.fact /\ j.label = o.label
        /\ j.part = "missed" /\ j.promise = o.promise /\ j.idx = o.idx
    BY <2>1 DEF Jobs, Stages
  <2>3. job' = [job EXCEPT ![p] = j] /\ index' = index
    BY <1>6 DEF NotFound, o
  <2> HIDE DEF j
  <2>4. GoodJob(j) /\ j.pc \in Stages \ {"create", "up"}
    BY <2>1, <2>2 DEF GoodJob, Stages
  <2>5. job' \in [Procs -> Jobs] /\ Ordered'
    BY <1>2, <2>1, <2>3, <2>4
  <2> QED BY <2>5, <1>1, <1>6 DEF NotFound, Shaped, TypeOK
<1>7. ASSUME Conflicts(p) PROVE Shaped'
  <2> DEFINE ids == {m.id : m \in {n \in Active(records) :
                                     n.label = o.label /\ n.fact # o.fact}}
             j == [o EXCEPT !.replace = FALSE, !.doomed = ids]
  <2>1. job[p].pc = "next" /\ GoodJob(o) /\ o \in Jobs
    BY <1>7, Turn DEF Conflicts, At, o
  <2>2. ids \subseteq Nat
    BY ActiveTyped
  <2> HIDE DEF ids
  <2>3. /\ j \in Jobs /\ j.pc = o.pc
        /\ j.kind = o.kind /\ j.fact = o.fact /\ j.label = o.label
        /\ j.part = o.part /\ j.promise = o.promise /\ j.idx = o.idx
    BY <2>1, <2>2 DEF Jobs, Stages
  <2>4. job' = [job EXCEPT ![p] = j] /\ index' = index
    BY <1>7 DEF Conflicts, o, ids
  <2> HIDE DEF j
  <2>5. GoodJob(j) /\ j.pc \in Stages \ {"create", "up"}
    BY <2>1, <2>3 DEF GoodJob, Stages, o
  <2>6. job' \in [Procs -> Jobs] /\ Ordered'
    BY <1>2, <2>1, <2>4, <2>5
  <2> QED BY <2>6, <1>1, <1>7 DEF Conflicts, Shaped, TypeOK
<1> QED BY <1>3, <1>4, <1>5, <1>6, <1>7

LEMMA ShapedNext ==
  ASSUME Shaped, NEW p \in Procs
  PROVE  /\ ForgetNext(p) => Shaped'
         /\ Finish(p) => Shaped'
<1>1. TypeOK /\ Ordered
  BY DEF Shaped
<1> DEFINE o == job[p]
<1> HIDE DEF o
<1>2. ASSUME job[p].pc = "next"
      PROVE  /\ p # Main /\ Up /\ GoodJob(o) /\ o \in Jobs /\ o.id \in Nat
             /\ GoneBy(p) \subseteq Nat
  <2>1. p # Main /\ Up /\ GoodJob(o) /\ o \in Jobs
    BY <1>2, Turn DEF BootStages, o
  <2>2. o.id \in Nat
    BY <2>1, JobFields
  <2> QED BY <2>1, <2>2 DEF GoneBy, o
<1>3. ASSUME ForgetNext(p) PROVE Shaped'
  <2>1. job[p].pc = "next"
    BY <1>3 DEF ForgetNext, At
  <2>2. PICK id \in o.doomed :
          job' = [job EXCEPT ![p] = [o EXCEPT !.pc = "find", !.part = "forget", !.id = id,
                                              !.doomed = @ \ {id}]]
    BY <1>3 DEF ForgetNext, o
  <2>3. o.doomed \subseteq Nat
    BY <1>2, <2>1, JobFields
  <2> DEFINE rest == o.doomed \ {id}
             j == [o EXCEPT !.pc = "find", !.part = "forget", !.id = id, !.doomed = rest]
  <2>4. rest \subseteq Nat /\ id \in Nat
    BY <2>3
  <2>5. job' = [job EXCEPT ![p] = j] /\ index' = index
    BY <1>2, <1>3, <2>1, <2>2 DEF ForgetNext, Jobs
  <2> HIDE DEF rest
  <2>6. /\ j \in Jobs /\ j.pc = "find" /\ j.part = "forget"
        /\ j.kind = o.kind /\ j.fact = o.fact /\ j.label = o.label
        /\ j.promise = o.promise /\ j.idx = o.idx
    BY <1>2, <2>1, <2>4 DEF Jobs, Stages
  <2> HIDE DEF j
  <2>7. GoodJob(j)
    BY <1>2, <2>1, <2>6 DEF GoodJob
  <2>8. job' \in [Procs -> Jobs] /\ Ordered'
    BY <1>1, <1>2, <2>1, <2>5, <2>6, <2>7, OneJob DEF Ordered
  <2>9. forgotten' \in SUBSET Nat
    BY <1>1, <1>2, <1>3, <2>1 DEF ForgetNext, TypeOK
  <2> QED BY <2>8, <2>9, <1>1, <1>3 DEF ForgetNext, Shaped, TypeOK
<1>4. ASSUME Finish(p) PROVE Shaped'
  <2> DEFINE pc == IF o.kind = "update" /\ o.part # "last" /\ CompactDue(changes)
                   THEN "compact" ELSE "done"
             j == [o EXCEPT !.pc = pc, !.part = "last", !.list = <<>>, !.idx = NewIndex]
  <2>1. job[p].pc = "next"
    BY <1>4 DEF Finish, At
  <2>2. GoodIndex(NewIndex) /\ NewIndex \in Indexes /\ <<>> \in Seq(Items)
    BY NewIndexGood, EmptySeq DEF GoodIndex
  <2>3. job' = [job EXCEPT ![p] = j] /\ index' = index
    BY <1>4 DEF Finish, o
  <2>4. pc \in {"compact", "done"}
    OBVIOUS
  <2> HIDE DEF pc, NewIndex
  <2>5. /\ j \in Jobs /\ j.pc = pc /\ j.part = "last"
        /\ j.kind = o.kind /\ j.fact = o.fact /\ j.label = o.label
        /\ j.promise = o.promise /\ j.idx = NewIndex
    BY <1>2, <2>1, <2>2, <2>4 DEF Jobs, Stages
  <2> HIDE DEF j
  <2>6. GoodJob(j)
    BY <1>2, <2>1, <2>2, <2>4, <2>5 DEF GoodJob
  <2>7. job' \in [Procs -> Jobs] /\ Ordered'
    BY <1>1, <1>2, <2>1, <2>3, <2>4, <2>5, <2>6, OneJob DEF Ordered
  <2>8. forgotten' \in SUBSET Nat
    BY <1>1, <1>2, <1>4, <2>1 DEF Finish, TypeOK
  <2>9. kept' \in SUBSET Facts
    BY <1>1, <1>2, <1>4, <2>1 DEF Finish, TypeOK, GoodJob, o
  <2> QED BY <2>7, <2>8, <2>9, <1>1, <1>4 DEF Finish, Shaped, TypeOK
<1> QED BY <1>3, <1>4

\* What a call has read of the index.
LEMMA ReadGood ==
  ASSUME Shaped, NEW p \in Procs, At(p, "check") \/ At(p, "reload") \/ At(p, "compact"),
         NEW old, Read(old)
  PROVE  /\ GoodIndex(old) /\ old \in Indexes
         /\ stale' \in BOOLEAN /\ faults' \in Nat
         /\ \/ old = index /\ stale' = stale /\ faults' = faults
            \/ old = NewIndex /\ stale' /\ faults' = faults + 1
<1>1. /\ index \in Indexes \cup {Garbled, Missing}
      /\ index \in Indexes => GoodIndex(index)
      /\ stale \in BOOLEAN /\ faults \in Nat
  BY DEF Shaped, TypeOK, Ordered
<1>2. index # Missing
  <2>1. index = Missing => At(Main, "create")
    BY DEF Shaped, Ordered
  <2>2. p = Main => ~At(Main, "create")
    BY DEF At
  <2>3. p # Main => Up
    BY Turn DEF At
  <2> QED BY <2>1, <2>2, <2>3 DEF At, Up
<1>3. CASE old = index /\ old # Garbled /\ stale' = stale /\ faults' = faults
  <2>1. old \in Indexes
    BY <1>1, <1>2, <1>3
  <2> QED BY <2>1, <1>1, <1>3
<1>4. CASE old = NewIndex /\ faults' = faults + 1 /\ stale' = TRUE
  <2>1. GoodIndex(old)
    BY <1>4, NewIndexGood
  <2> QED BY <1>1, <1>4, <2>1 DEF GoodIndex
<1> QED BY <1>3, <1>4 DEF Read

\* The new record of a store, and the index that counts it.
NewRecord(p, old) ==
  [id |-> lastId + 1, fact |-> job[p].fact, label |-> job[p].label,
   sid |-> WithLabel(old, job[p].label, 0).sums[job[p].label].sid,
   access |-> 0, gone |-> FALSE]

LEMMA NewRecordGood ==
  ASSUME Shaped, NEW p \in Procs, At(p, "check"), NEW old, GoodIndex(old)
  PROVE  LET idx == WithLabel(old, job[p].label, 0)
             sid == idx.sums[job[p].label].sid
         IN  /\ NewRecord(p, old) \in Items /\ NewRecord(p, old).sid = sid
             /\ NewRecord(p, old).id = lastId + 1
             /\ NewRecord(p, old).fact = job[p].fact
             /\ NewRecord(p, old).label = job[p].label
             /\ NewRecord(p, old).access = 0 /\ ~NewRecord(p, old).gone
             /\ LabelAdded(old, job[p].label, idx) /\ sid \in Nat
             /\ RefsMoved(idx, sid, 1, WithRefs(idx, sid, 1))
<1> DEFINE idx == WithLabel(old, job[p].label, 0)
           sid == idx.sums[job[p].label].sid
<1>1. job[p].fact \in Facts /\ job[p].label \in Labels
  BY Turn DEF GoodJob, At
<1>2. LabelAdded(old, job[p].label, idx)
  <2>1. 0 \in Nat
    OBVIOUS
  <2> QED BY <1>1, <2>1, WithLabelGood
<1> HIDE DEF idx
<1>3. GoodIndex(idx) /\ job[p].label \in DOMAIN idx.sums
  BY <1>2 DEF LabelAdded
<1>4. sid \in Nat
  BY <1>3, IndexType DEF GoodIndex
<1> HIDE DEF sid
<1>5. RefsMoved(idx, sid, 1, WithRefs(idx, sid, 1))
  <2>1. 1 \in Int
    OBVIOUS
  <2> QED BY <1>3, <1>4, <2>1, WithRefsGood
<1>6. lastId + 1 \in Nat \ {0}
  BY DEF Shaped, TypeOK
<1>7. NewRecord(p, old) = [id |-> lastId + 1, fact |-> job[p].fact, label |-> job[p].label,
                           sid |-> sid, access |-> 0, gone |-> FALSE]
  BY DEF NewRecord, sid, idx
<1>8. NewRecord(p, old) \in Items
  BY <1>1, <1>4, <1>6, <1>7 DEF Items
<1> QED BY <1>2, <1>4, <1>5, <1>7, <1>8 DEF sid, idx

LEMMA ShapedIndexed ==
  ASSUME Shaped, NEW p \in Procs, NEW old
  PROVE  /\ CheckNew(p, old) => Shaped'
         /\ Reload(p, old) => Shaped'
         /\ Compact(p, old) => Shaped'
<1>1. TypeOK /\ Ordered
  BY DEF Shaped
<1> DEFINE o == job[p]
<1> HIDE DEF o
<1>2. ASSUME NEW j, GoodJob(j), job' = [job EXCEPT ![p] = j], index' = index,
             o.pc \in {"check", "reload", "compact"},
             j.part = o.part, j.kind = o.kind,
             j.pc \in Stages \ {"create", "up"},
             p = Main => j.pc = "newRecords"
      PROVE  job' \in [Procs -> Jobs] /\ Ordered'
  <2>1. /\ p # Main => Up
        /\ p = Main => ~Up /\ j.pc \in BootStages /\ j.part = "none" /\ j.kind = "none"
        /\ p = Main => index # Missing
    BY <1>1, <1>2, Turn DEF BootStages, o, Ordered, At
  <2> QED BY <1>1, <1>2, <2>1, OneJob DEF Ordered
<1>3. ASSUME CheckNew(p, old) PROVE Shaped'
  <2>1. At(p, "check") /\ Read(old) /\ job[p].pc = "check"
    BY <1>3 DEF CheckNew, At
  <2>2. GoodJob(o) /\ o \in Jobs /\ p # Main
    BY <2>1, Turn DEF o, BootStages
  <2>3. GoodIndex(old) /\ old \in Indexes /\ stale' \in BOOLEAN /\ faults' \in Nat
    BY <2>1, ReadGood
  <2> DEFINE idx == WithLabel(old, job[p].label, 0)
             sid == idx.sums[job[p].label].sid
             last == WithRefs(idx, sid, 1)
             m == NewRecord(p, old)
             list == Append(Current(records), m)
             j == [o EXCEPT !.pc = "append", !.list = list, !.idx = last]
  <2>4. m \in Items /\ RefsMoved(idx, sid, 1, last)
    BY <2>1, <2>3, NewRecordGood
  <2>5. job' = [job EXCEPT ![p] = j] /\ index' = index
    BY <1>3 DEF CheckNew, NewRecord, o
  <2> HIDE DEF idx, sid, last, m
  <2>6. GoodIndex(last) /\ last \in Indexes
    BY <2>4 DEF RefsMoved, GoodIndex
  <2>7. list \in Seq(Items) /\ list # <<>>
    BY <2>4, ActiveTyped, AppendProperties
  <2> HIDE DEF list
  <2>8. /\ j \in Jobs /\ j.pc = "append" /\ j.list = list /\ j.idx = last
        /\ j.kind = o.kind /\ j.fact = o.fact /\ j.label = o.label
        /\ j.part = o.part /\ j.promise = o.promise
    BY <2>2, <2>6, <2>7 DEF Jobs, Stages
  <2> HIDE DEF j
  <2>9. GoodJob(j) /\ j.pc \in Stages \ {"create", "up"}
    BY <2>1, <2>2, <2>6, <2>7, <2>8 DEF GoodJob, Stages, o
  <2>10. job' \in [Procs -> Jobs] /\ Ordered'
    BY <1>2, <2>1, <2>2, <2>5, <2>8, <2>9 DEF o
  <2> QED BY <2>3, <2>10, <1>1, <1>3 DEF CheckNew, Shaped, TypeOK
<1>4. ASSUME Reload(p, old) PROVE Shaped'
  <2>1. At(p, "reload") /\ Read(old) /\ job[p].pc = "reload"
    BY <1>4 DEF Reload, At
  <2>2. GoodJob(o) /\ o \in Jobs /\ p # Main
    BY <2>1, Turn DEF o, BootStages
  <2>3. GoodIndex(old) /\ old \in Indexes /\ stale' \in BOOLEAN /\ faults' \in Nat
    BY <2>1, ReadGood
  <2> DEFINE less == WithRefs(old, Record(p).sid, -1)
             last == WithoutUnused(less)
             j == [o EXCEPT !.pc = "index", !.idx = last]
  <2>4. RefsMoved(old, Record(p).sid, -1, less)
    <3>1. Record(p) \in Items
      BY <2>1, RecordTyped
    <3>2. Record(p).sid \in Nat /\ -1 \in Int
      BY <3>1 DEF Items
    <3> QED BY <3>2, <2>3, WithRefsGood
  <2> HIDE DEF less
  <2>5. UnusedDropped(less, last)
    BY <2>4, WithoutUnusedGood DEF RefsMoved
  <2>6. job' = [job EXCEPT ![p] = j] /\ index' = index
    BY <1>4 DEF Reload, o, less
  <2> HIDE DEF last
  <2>7. GoodIndex(last) /\ last \in Indexes
    BY <2>5 DEF UnusedDropped, GoodIndex
  <2>8. /\ j \in Jobs /\ j.pc = "index" /\ j.idx = last
        /\ j.kind = o.kind /\ j.fact = o.fact /\ j.label = o.label
        /\ j.part = o.part /\ j.promise = o.promise
    BY <2>2, <2>7 DEF Jobs, Stages
  <2> HIDE DEF j
  <2>9. GoodJob(j) /\ j.pc \in Stages \ {"create", "up"}
    BY <2>1, <2>2, <2>7, <2>8 DEF GoodJob, Stages, o
  <2>10. job' \in [Procs -> Jobs] /\ Ordered'
    BY <1>2, <2>1, <2>2, <2>6, <2>8, <2>9 DEF o
  <2> QED BY <2>3, <2>10, <1>1, <1>4 DEF Reload, Shaped, TypeOK
<1>5. ASSUME Compact(p, old) PROVE Shaped'
  <2>1. At(p, "compact") /\ Read(old) /\ job[p].pc = "compact"
    BY <1>5 DEF Compact, At
  <2>2. GoodJob(o) /\ o \in Jobs
    BY <2>1, Turn DEF o
  <2>3. GoodIndex(old) /\ old \in Indexes /\ stale' \in BOOLEAN /\ faults' \in Nat
    BY <2>1, ReadGood
  <2>4. PICK later \in BOOLEAN :
          \E list \in Trims(Merged(Counted(Current(records), old.mark), later)) :
            LET new == Relabelled(list, old)
                trimmed == FactsOf(Merged(Counted(Current(records), old.mark), later))
                             \ FactsOf(list)
            IN /\ job' = [job EXCEPT ![p].pc = "newRecords", ![p].list = new.list,
                                     ![p].idx = new.idx,
                                     ![p].promise =
                                       @ /\ job[p].fact \notin trimmed /\ ~MergesUpdate(p)]
               /\ kept' = kept \ trimmed
    BY <1>5 DEF Compact
  <2> DEFINE merged == Merged(Counted(Current(records), old.mark), later)
  <2> HIDE DEF merged
  <2>5. PICK list \in Trims(merged) :
            LET new == Relabelled(list, old)
                trimmed == FactsOf(merged) \ FactsOf(list)
            IN /\ job' = [job EXCEPT ![p].pc = "newRecords", ![p].list = new.list,
                                     ![p].idx = new.idx,
                                     ![p].promise =
                                       @ /\ job[p].fact \notin trimmed /\ ~MergesUpdate(p)]
               /\ kept' = kept \ trimmed
    BY <2>4 DEF merged
  <2> DEFINE new == Relabelled(list, old)
             promise == o.promise /\ o.fact \notin FactsOf(merged) \ FactsOf(list)
                          /\ ~MergesUpdate(p)
             j == [o EXCEPT !.pc = "newRecords", !.list = new.list, !.idx = new.idx,
                            !.promise = promise]
  <2>6. job' = [job EXCEPT ![p] = j] /\ kept' \subseteq kept
    BY <2>2, <2>5 DEF o
  <2>7. list \in Seq(Items) /\ digest \in Seq(Nat)
    <3>1. records \in Seq(Lines) /\ old.mark \in Nat /\ digest \in Seq(Nat)
      BY <1>1, <2>3, ActiveTyped DEF TypeOK, Indexes
    <3>2. Current(records) \in Seq(Items) /\ Counted(Current(records), old.mark) \in Seq(Items)
      BY <3>1, ActiveTyped, CountedTyped
    <3>3. merged \in Seq(Items)
      BY <3>2, MergedList DEF merged, MergeOf
    <3> QED BY <3>1, <3>3, TrimmedList
  <2>8. RelabelOf(list, Len(list), new)
    <3>1. Len(digest) \in Nat
      BY <2>7, LenProperties
    <3> QED BY <2>3, <2>7, <3>1, RelabelledList
  <2> HIDE DEF new, promise
  <2>9. new.list \in Seq(Items) /\ GoodIndex(new.idx) /\ new.idx \in Indexes
    BY <2>8 DEF RelabelOf, GoodIndex
  <2>10. promise \in BOOLEAN /\ (promise => o.promise)
    BY <2>2 DEF promise
  <2>11. /\ j \in Jobs /\ j.pc = "newRecords" /\ j.idx = new.idx
         /\ j.kind = o.kind /\ j.fact = o.fact /\ j.label = o.label
         /\ j.part = o.part /\ j.promise = promise
    BY <2>2, <2>9, <2>10 DEF Jobs, Stages
  <2> HIDE DEF j
  <2>12. GoodJob(j) /\ j.pc \in Stages \ {"create", "up"}
    BY <2>2, <2>9, <2>10, <2>11 DEF GoodJob, Stages
  <2>13. job' \in [Procs -> Jobs] /\ Ordered'
    <3>1. index' = index
      BY <1>5 DEF Compact
    <3> QED BY <1>2, <2>1, <2>6, <2>11, <2>12, <3>1 DEF o
  <2>14. kept' \in SUBSET Facts
    BY <1>1, <2>6 DEF TypeOK
  <2> QED BY <2>3, <2>13, <2>14, <1>1, <1>5 DEF Compact, Shaped, TypeOK
<1> QED BY <1>3, <1>4, <1>5

LEMMA ShapedCreate == Shaped /\ Create => Shaped'
<1> SUFFICES ASSUME Shaped, Create PROVE Shaped'
  OBVIOUS
<1>1. TypeOK /\ Ordered
  BY DEF Shaped
<1>2. Main \in Procs /\ job[Main].pc = "create" /\ Goto(Main, "compact")
  BY DEF Procs, Create, At
<1>3. GoodIndex(NewIndex) /\ NewIndex \in Indexes
  BY NewIndexGood DEF GoodIndex
<1>4. /\ index' \in Indexes \cup {Garbled}
      /\ index' # Missing
      /\ index' \in Indexes => GoodIndex(index')
  <2>1. index' = IF index = Missing THEN NewIndex ELSE index
    BY DEF Create
  <2> HIDE DEF NewIndex
  <2> QED BY <1>1, <1>3, <2>1, MemoryAssumption DEF TypeOK, Ordered
<1>5. job' \in [Procs -> Jobs] /\ Ordered'
  <2>1. "compact" \in Stages \ {"check", "find", "append", "reload"} /\ "compact" \in BootStages
    BY DEF Stages, BootStages
  <2> QED BY <1>2, <1>4, <2>1, ShapedGoto
<1> QED BY <1>1, <1>4, <1>5 DEF Create, Shaped, TypeOK

LEMMA ShapedOpenFails ==
  ASSUME Shaped, NEW w \in Writers, OpenFails(w)
  PROVE  Shaped'
<1>1. TypeOK /\ Ordered /\ w \in Procs /\ w # Main
  BY MemoryAssumption DEF Shaped, Procs
<1>2. job[w].pc \notin {"idle", "up"} /\ Goto(w, "failed")
  BY DEF OpenFails
<1>3. job' \in [Procs -> Jobs] /\ Ordered'
  <2>1. "failed" \in Stages \ {"check", "find", "append", "reload"}
    BY DEF Stages
  <2>2. index' = index /\ (index \in Indexes => GoodIndex(index))
    BY <1>1 DEF OpenFails, Ordered
  <2> QED BY <1>1, <1>2, <2>1, <2>2, ShapedGoto
<1>4. changes' \in Nat /\ faults' \in Nat /\ stale' \in BOOLEAN
  BY <1>1 DEF OpenFails, TypeOK
<1> QED BY <1>1, <1>3, <1>4 DEF OpenFails, Shaped, TypeOK

\* What is to show of a call that begins.
LEMMA ShapedBegin ==
  ASSUME Shaped, NEW w \in Writers, NEW call, Begin(w, call), GoodJob(call),
         call.pc \notin {"create", "up"}
  PROVE  Shaped'
<1>1. TypeOK /\ Ordered /\ w \in Procs /\ w # Main
  BY MemoryAssumption DEF Shaped, Procs
<1>2. job' \in [Procs -> Jobs] /\ Ordered'
  <2>1. Up /\ index' = index /\ job' = [job EXCEPT ![w] = call]
    BY DEF Begin
  <2>2. index \in Indexes => GoodIndex(index)
    BY <1>1 DEF Ordered
  <2> QED BY <1>1, <2>1, <2>2, OneJob
<1> QED BY <1>1, <1>2 DEF Begin, Shaped, TypeOK

LEMMA ShapedCalls ==
  ASSUME Shaped, NEW w \in Writers
  PROVE  /\ \A fact \in Facts, label \in Labels, replace \in BOOLEAN :
              BeginStore(w, fact, label, replace) => Shaped'
         /\ \A fact \in Facts, label \in Labels, id \in 1..lastId :
              BeginUpdate(w, id, fact, label) => Shaped'
         /\ \A id \in 1..lastId : BeginForget(w, id) => Shaped'
         /\ \A label \in Labels : Recall(w, label) => Shaped'
         /\ Return(w) => Shaped'
<1>1. TypeOK /\ Ordered /\ w \in Procs /\ w # Main
  BY MemoryAssumption DEF Shaped, Procs
<1>2. Quiet \in Jobs /\ GoodIndex(Quiet.idx) /\ GoodJob(Quiet)
  BY QuietGood DEF GoodJob
<1>3. Quiet.promise = FALSE /\ Quiet.kind = "none" /\ Quiet.part = "none" /\ Quiet.pc = "idle"
  BY DEF Quiet
<1>4. ASSUME NEW fact \in Facts, NEW label \in Labels, NEW replace \in BOOLEAN,
             BeginStore(w, fact, label, replace)
      PROVE  Shaped'
  <2> DEFINE call == [Quiet EXCEPT !.pc = "check", !.kind = "store", !.part = "store",
                            !.fact = fact, !.label = label, !.replace = replace,
                            !.promise = TRUE]
  <2>1. Begin(w, call)
    BY <1>4 DEF BeginStore
  <2> HIDE DEF Quiet
  <2>2. /\ call \in Jobs /\ call.pc = "check" /\ call.kind = "store" /\ call.part = "store"
        /\ call.fact = fact /\ call.label = label /\ call.idx = Quiet.idx
    BY <1>2 DEF Jobs, Stages
  <2> HIDE DEF call
  <2>3. GoodJob(call)
    BY <1>2, <2>2 DEF GoodJob, Stores
  <2> QED BY <2>1, <2>2, <2>3, ShapedBegin
<1>5. ASSUME NEW fact \in Facts, NEW label \in Labels, NEW id \in 1..lastId,
             BeginUpdate(w, id, fact, label)
      PROVE  Shaped'
  <2> DEFINE call == [Quiet EXCEPT !.pc = "check", !.kind = "update",
                                 !.part = "store", !.fact = fact,
                                 !.label = label, !.id = id, !.doomed = {id},
                                 !.promise = TRUE]
  <2>1. Begin(w, call)
    BY <1>5 DEF BeginUpdate
  <2>2. id \in Nat /\ {id} \subseteq Nat
    BY <1>1 DEF TypeOK
  <2> HIDE DEF Quiet
  <2>3. /\ call \in Jobs /\ call.pc = "check" /\ call.kind = "update" /\ call.part = "store"
        /\ call.fact = fact /\ call.label = label /\ call.idx = Quiet.idx
    BY <1>2, <2>2 DEF Jobs, Stages
  <2> HIDE DEF call
  <2>4. GoodJob(call)
    BY <1>2, <2>3 DEF GoodJob, Stores
  <2> QED BY <2>1, <2>3, <2>4, ShapedBegin
<1>6. ASSUME NEW id \in 1..lastId, BeginForget(w, id)
      PROVE  Shaped'
  <2> DEFINE call == [Quiet EXCEPT !.pc = "find", !.kind = "forget", !.part = "forget",
                                   !.id = id]
  <2>1. Begin(w, call)
    BY <1>6 DEF BeginForget
  <2>2. id \in Nat
    BY <1>1 DEF TypeOK
  <2> HIDE DEF Quiet
  <2>3. /\ call \in Jobs /\ call.pc = "find" /\ call.kind = "forget" /\ call.part = "forget"
        /\ call.promise = Quiet.promise /\ call.idx = Quiet.idx
    BY <1>2, <2>2 DEF Jobs, Stages
  <2> HIDE DEF call
  <2>4. GoodJob(call)
    BY <1>2, <1>3, <2>3 DEF GoodJob, Stores
  <2> QED BY <2>1, <2>3, <2>4, ShapedBegin
<1>7. ASSUME NEW label \in Labels, Recall(w, label)
      PROVE  Shaped'
  <2> DEFINE found == Only(Current(records), {m \in Active(records) :
                             m.sid = index.sums[label].sid})
  <2>1. digest' = digest \o [i \in DOMAIN found |-> found[i].id]
    BY <1>7 DEF Recall
  <2>2. found \in Seq(Items)
    BY ActiveTyped, OnlySet
  <2> HIDE DEF found
  <2>3. /\ Len(found) \in Nat /\ DOMAIN found = 1..Len(found)
        /\ \A i \in 1..Len(found) : found[i] \in Items
    BY <2>2, LenProperties, ElementOfSeq
  <2>4. [i \in DOMAIN found |-> found[i].id] \in Seq(Nat)
    <3>1. \A i \in 1..Len(found) : found[i].id \in Nat
      BY <2>3 DEF Items
    <3> QED BY <2>3, <3>1, IsASeq
  <2>5. digest' \in Seq(Nat)
    BY <1>1, <2>1, <2>4, ConcatProperties DEF TypeOK
  <2>6. job' = job /\ index' = index
    BY <1>7 DEF Recall
  <2>7. Ordered'
    BY <1>1, <2>6 DEF Ordered, Up, At
  <2> QED BY <1>1, <1>7, <2>5, <2>6, <2>7 DEF Recall, Shaped, TypeOK
<1>8. ASSUME Return(w) PROVE Shaped'
  <2>1. job' = [job EXCEPT ![w] = Quiet] /\ index' = index /\ job[w].pc \in {"done", "failed"}
    BY <1>8 DEF Return, At
  <2>2. job' \in [Procs -> Jobs] /\ Ordered'
    <3>1. w # Main => Up
      BY <1>1, <2>1, Turn
    <3> HIDE DEF Quiet
    <3> QED BY <1>1, <1>2, <1>3, <2>1, <3>1, OneJob DEF Ordered
  <2> QED BY <1>1, <1>8, <2>2 DEF Return, Shaped, TypeOK
<1> QED BY <1>4, <1>5, <1>6, <1>7, <1>8

LEMMA ShapedCut ==
  ASSUME Shaped, NEW p \in Procs, Cut(p)
  PROVE  Shaped'
<1>1. TypeOK /\ Ordered
  BY DEF Shaped
<1>2. Main \in Procs /\ \A w \in Writers : w \in Procs /\ w # Main
  BY MemoryAssumption DEF Procs
<1>3. job' = [q \in Procs |-> IF q = Main THEN [Quiet EXCEPT !.pc = "create"] ELSE Quiet]
  BY DEF Cut
<1>4. job' \in [Procs -> Jobs] /\ \A q \in Procs : GoodJob(job'[q])
  <2> HIDE DEF Quiet
  <2> QED BY <1>3, QuietGood DEF GoodJob
<1>5. GoodIndex(NewIndex) /\ NewIndex \in Indexes
  BY NewIndexGood DEF GoodIndex
<1>6. index' \in Indexes \cup {Garbled, Missing} /\ (index' \in Indexes => GoodIndex(index'))
  <2>1. index' \in IndexCut(p)
    BY DEF Cut
  <2>2. GoodIndex(job[p].idx) /\ job[p].idx \in Indexes
    BY <1>1 DEF Ordered, GoodJob, GoodIndex
  <2>3. IndexCut(p) \subseteq {index, Garbled, Missing, NewIndex, job[p].idx}
    <3> HIDE DEF NewIndex
    <3> QED BY DEF IndexCut
  <2> HIDE DEF NewIndex
  <2> QED BY <1>1, <1>5, <2>1, <2>2, <2>3, MemoryAssumption DEF TypeOK, Ordered
<1>7. records' \in Seq(Lines)
  <2>1. records' \in RecordsCut(p)
    BY DEF Cut
  <2>2. CASE At(p, "append")
    <3>1. Record(p) \in Lines /\ Torn \in Lines /\ records \in Seq(Lines)
      BY <2>2, RecordTyped, ActiveTyped DEF Lines
    <3>2. records' \in {records, WithRecord(records, Record(p)), WithRecord(records, Torn)}
      BY <2>1, <2>2 DEF RecordsCut, At
    <3> QED BY <3>1, <3>2, RecordWritten
  <2>3. CASE At(p, "newRecords")
    <3>1. Written(job[p].list) \in Seq(Lines)
      BY <1>1, ListWritten, JobFields DEF Ordered, GoodJob
    <3>2. records' \in {records} \cup Parts(Written(job[p].list))
      BY <2>1, <2>3 DEF RecordsCut, At
    <3> QED BY <3>1, <3>2, PartWritten, ActiveTyped
  <2>4. CASE ~At(p, "append") /\ ~At(p, "newRecords")
    BY <2>1, <2>4, ActiveTyped DEF RecordsCut
  <2> QED BY <2>2, <2>3, <2>4
<1>8. kept' \in SUBSET Facts
  BY <1>1 DEF Cut, TypeOK
<1>9. changes' \in Nat /\ cuts' \in Nat
  BY <1>1 DEF Cut, TypeOK
<1>10. Ordered'
  <2>1. /\ job'[Main].pc = "create" /\ job'[Main].part = "none" /\ job'[Main].kind = "none"
        /\ \A w \in Writers : job'[w] = Quiet /\ job'[w].pc = "idle"
    BY <1>2, <1>3 DEF Quiet
  <2> HIDE DEF Quiet
  <2> QED BY <1>4, <1>6, <2>1 DEF Ordered, BootStages, At, Up
<1> QED BY <1>1, <1>4, <1>6, <1>7, <1>8, <1>9, <1>10 DEF Cut, Shaped, TypeOK, Lines

LEMMA ShapedStep == Shaped /\ [Next]_vars => Shaped'
<1> SUFFICES ASSUME Shaped, [Next]_vars PROVE Shaped'
  OBVIOUS
<1>1. CASE Next
  BY <1>1, NextCases, ShapedCreate, ShapedStages, ShapedStore, ShapedNext, ShapedIndexed,
     ShapedCut, ShapedCalls, ShapedOpenFails, Zenon
<1>2. CASE UNCHANGED vars
  BY <1>2 DEF vars, Shaped, TypeOK, Ordered, Up, At
<1> QED BY <1>1, <1>2

\* Whatever the number of the tasks, the files and the calls have their types.
\* No call reads an index that the boot has not created yet.
THEOREM TypeCorrect == Spec => []Shaped
<1> QED BY ShapedInit, ShapedStep, PTL DEF Spec

-----------------------------------------------------------------------------
(* What each step makes of the call of its task.                             *)

Becomes(p, pc, kind, fact, label, id, part, doomed, replace, promise, joined, list, idx) ==
  /\ job'[p].pc = pc /\ job'[p].kind = kind /\ job'[p].fact = fact
  /\ job'[p].label = label /\ job'[p].id = id /\ job'[p].part = part
  /\ job'[p].doomed = doomed /\ job'[p].replace = replace
  /\ job'[p].promise = promise /\ job'[p].joined = joined
  /\ job'[p].list = list /\ job'[p].idx = idx
  /\ \A q \in Procs : q # p => job'[q] = job[q]

\* The step takes the call from one stage to another.
Goes(p, from, pc) ==
  LET o == job[p]
  IN  /\ o.pc = from
      /\ Becomes(p, pc, o.kind, o.fact, o.label, o.id, o.part, o.doomed, o.replace,
                 o.promise, o.joined, o.list, o.idx)

LEMMA GotoEffect ==
  ASSUME Shaped, NEW p \in Procs, NEW pc, Goto(p, pc)
  PROVE  Goes(p, job[p].pc, pc)
<1>1. job[p] \in Jobs /\ job \in [Procs -> Jobs]
  BY DEF Shaped, TypeOK
<1> QED BY <1>1 DEF Goto, Goes, Becomes, Jobs

LEMMA GotoEffects ==
  ASSUME Shaped, NEW p \in Procs
  PROVE  /\ Create => Goes(Main, "create", "compact")
         /\ IndexUnread(p) =>
              /\ job[p].pc \in {"check", "reload", "compact"}
              /\ Goes(p, job[p].pc, IF p = Main THEN "up" ELSE "failed")
         /\ SaveIndex(p) => \/ Goes(p, "index", "markdown")
                            \/ Goes(p, "newIndex", "newMarkdown")
         /\ SyncMarkdown(p) => \/ Goes(p, "markdown", "compact")
                               \/ Goes(p, "markdown", "next")
         /\ RewriteRecords(p) => Goes(p, "newRecords", "newIndex")
         /\ CompactEnd(p) => Goes(p, "newMarkdown", IF p = Main THEN "up" ELSE "next")
         /\ OpenFails(p) =>
              /\ job[p].pc \in {"append", "index", "markdown",
                                "newRecords", "newIndex", "newMarkdown"}
              /\ Goes(p, job[p].pc, "failed")
<1>1. Main \in Procs
  BY DEF Procs
<1>2. Create => Goes(Main, "create", "compact")
  BY <1>1, GotoEffect DEF Create, At, Goes
<1>3. IndexUnread(p) =>
        /\ job[p].pc \in {"check", "reload", "compact"}
        /\ Goes(p, job[p].pc, IF p = Main THEN "up" ELSE "failed")
  BY GotoEffect DEF IndexUnread, At
<1>4. SaveIndex(p) => Goes(p, "index", "markdown") \/ Goes(p, "newIndex", "newMarkdown")
  <2>1. SaveIndex(p) => job[p].pc \in {"index", "newIndex"}
    BY DEF SaveIndex, At
  <2>2. SaveIndex(p) => Goes(p, job[p].pc, IF job[p].pc = "index" THEN "markdown" ELSE "newMarkdown")
    BY GotoEffect DEF SaveIndex, At
  <2> QED BY <2>1, <2>2
<1>5. SyncMarkdown(p) => Goes(p, "markdown", "compact") \/ Goes(p, "markdown", "next")
  <2>1. SyncMarkdown(p) => Goto(p, "compact") \/ Goto(p, "next")
    BY DEF SyncMarkdown
  <2>2. SyncMarkdown(p) => job[p].pc = "markdown"
    BY DEF SyncMarkdown, At
  <2> QED BY <2>1, <2>2, GotoEffect
<1>6. RewriteRecords(p) => Goes(p, "newRecords", "newIndex")
  BY GotoEffect DEF RewriteRecords, At, Goes
<1>7. CompactEnd(p) => Goes(p, "newMarkdown", IF p = Main THEN "up" ELSE "next")
  BY GotoEffect DEF CompactEnd, At, Goes
<1>8. OpenFails(p) =>
        /\ job[p].pc \in {"append", "index", "markdown",
                          "newRecords", "newIndex", "newMarkdown"}
        /\ Goes(p, job[p].pc, "failed")
  BY GotoEffect DEF OpenFails
<1> QED BY <1>2, <1>3, <1>4, <1>5, <1>6, <1>7, <1>8

\* The list a forgetting has in hand.
Marked(list, id) ==
  [i \in DOMAIN list |-> IF list[i].id = id THEN [list[i] EXCEPT !.gone = TRUE] ELSE list[i]]

LEMMA StoreEffects ==
  ASSUME Shaped, NEW p \in Procs
  PROVE  LET o == job[p]
         IN /\ CheckKnown(p) =>
                 /\ o.pc = "check"
                 /\ Becomes(p, "next", o.kind, o.fact, o.label, o.id, o.part, o.doomed,
                            FALSE, o.promise, o.joined, o.list, o.idx)
            /\ AppendRecord(p) =>
                 /\ o.pc = "append"
                 /\ Becomes(p, IF o.part = "store" THEN "index" ELSE "reload", o.kind, o.fact,
                            o.label, o.id, o.part, o.doomed, o.replace, o.promise,
                            o.joined \/ Unfinished(records), o.list, o.idx)
            /\ Find(p) =>
                 /\ o.pc = "find"
                 /\ Becomes(p, "append", o.kind, o.fact, o.label, o.id, o.part, o.doomed,
                            o.replace, o.promise, o.joined, Marked(Current(records), o.id), o.idx)
            /\ NotFound(p) =>
                 /\ o.pc = "find"
                 /\ Becomes(p, IF o.kind = "store" THEN "next" ELSE "failed", o.kind, o.fact,
                            o.label, o.id, "missed", o.doomed, o.replace, o.promise, o.joined,
                            o.list, o.idx)
            /\ Conflicts(p) =>
                 /\ o.pc = "next"
                 /\ Becomes(p, "next", o.kind, o.fact, o.label, o.id, o.part,
                            {m.id : m \in {n \in Active(records) :
                                             n.label = o.label /\ n.fact # o.fact}},
                            FALSE, o.promise, o.joined, o.list, o.idx)
<1> DEFINE o == job[p]
<1>1. o \in Jobs /\ job \in [Procs -> Jobs]
  BY DEF Shaped, TypeOK
<1>2. CheckKnown(p) =>
        /\ o.pc = "check"
        /\ Becomes(p, "next", o.kind, o.fact, o.label, o.id, o.part, o.doomed,
                   FALSE, o.promise, o.joined, o.list, o.idx)
  BY <1>1 DEF CheckKnown, At, Becomes, Jobs
<1>3. AppendRecord(p) =>
        /\ o.pc = "append"
        /\ Becomes(p, IF o.part = "store" THEN "index" ELSE "reload", o.kind, o.fact,
                   o.label, o.id, o.part, o.doomed, o.replace, o.promise,
                   o.joined \/ Unfinished(records), o.list, o.idx)
  <2> DEFINE joined == o.joined \/ Unfinished(records)
             pc == IF o.part = "store" THEN "index" ELSE "reload"
  <2>1. AppendRecord(p) => job' = [job EXCEPT ![p] = [o EXCEPT !.pc = pc, !.joined = joined]]
    BY <1>1 DEF AppendRecord, Jobs
  <2> HIDE DEF joined, pc
  <2>2. AppendRecord(p) => Becomes(p, pc, o.kind, o.fact, o.label, o.id, o.part, o.doomed,
                                   o.replace, o.promise, joined, o.list, o.idx)
    <3> DEFINE j == [o EXCEPT !.pc = pc, !.joined = joined]
    <3>1. /\ j.pc = pc /\ j.kind = o.kind /\ j.fact = o.fact /\ j.label = o.label
          /\ j.id = o.id /\ j.part = o.part /\ j.doomed = o.doomed
          /\ j.replace = o.replace /\ j.promise = o.promise /\ j.joined = joined
          /\ j.list = o.list /\ j.idx = o.idx
      <4> HIDE DEF o
      <4> QED BY <1>1 DEF Jobs
    <3> HIDE DEF j
    <3>2. AppendRecord(p) => job'[p] = j /\ \A q \in Procs : q # p => job'[q] = job[q]
      BY <1>1, <2>1 DEF j
    <3> QED BY <3>1, <3>2 DEF Becomes
  <2> QED BY <2>2 DEF AppendRecord, At, joined, pc
<1>4. Find(p) =>
        /\ o.pc = "find"
        /\ Becomes(p, "append", o.kind, o.fact, o.label, o.id, o.part, o.doomed,
                   o.replace, o.promise, o.joined, Marked(Current(records), o.id), o.idx)
  <2> DEFINE list == Marked(Current(records), o.id)
  <2>1. Find(p) => job' = [job EXCEPT ![p] = [o EXCEPT !.pc = "append", !.list = list]]
    BY DEF Find, Marked
  <2> HIDE DEF list
  <2>2. Find(p) => Becomes(p, "append", o.kind, o.fact, o.label, o.id, o.part, o.doomed,
                           o.replace, o.promise, o.joined, list, o.idx)
    BY <1>1, <2>1 DEF Becomes, Jobs
  <2> QED BY <2>2 DEF Find, At, list
<1>5. NotFound(p) =>
        /\ o.pc = "find"
        /\ Becomes(p, IF o.kind = "store" THEN "next" ELSE "failed", o.kind, o.fact,
                   o.label, o.id, "missed", o.doomed, o.replace, o.promise, o.joined,
                   o.list, o.idx)
  BY <1>1 DEF NotFound, At, Becomes, Jobs
<1>6. Conflicts(p) =>
        /\ o.pc = "next"
        /\ Becomes(p, "next", o.kind, o.fact, o.label, o.id, o.part,
                   {m.id : m \in {n \in Active(records) :
                                    n.label = o.label /\ n.fact # o.fact}},
                   FALSE, o.promise, o.joined, o.list, o.idx)
  <2> DEFINE ids == {m.id : m \in {n \in Active(records) :
                                     n.label = o.label /\ n.fact # o.fact}}
  <2>1. Conflicts(p) => job' = [job EXCEPT ![p] = [o EXCEPT !.replace = FALSE, !.doomed = ids]]
    BY DEF Conflicts
  <2>2. Conflicts(p) => o.pc = "next"
    BY DEF Conflicts, At
  <2> HIDE DEF ids
  <2>3. Conflicts(p) => Becomes(p, "next", o.kind, o.fact, o.label, o.id, o.part, ids,
                                FALSE, o.promise, o.joined, o.list, o.idx)
    <3> DEFINE j == [o EXCEPT !.replace = FALSE, !.doomed = ids]
    <3>1. /\ j.pc = o.pc /\ j.kind = o.kind /\ j.fact = o.fact /\ j.label = o.label
          /\ j.id = o.id /\ j.part = o.part /\ j.doomed = ids
          /\ j.replace = FALSE /\ j.promise = o.promise /\ j.joined = o.joined
          /\ j.list = o.list /\ j.idx = o.idx
      <4> HIDE DEF o
      <4> QED BY <1>1 DEF Jobs
    <3> HIDE DEF j
    <3>2. Conflicts(p) => job'[p] = j /\ \A q \in Procs : q # p => job'[q] = job[q]
      BY <1>1, <2>1 DEF j
    <3> QED BY <2>2, <3>1, <3>2 DEF Becomes
  <2> QED BY <2>2, <2>3 DEF ids
<1> QED BY <1>2, <1>3, <1>4, <1>5, <1>6

LEMMA NextEffects ==
  ASSUME Shaped, NEW p \in Procs
  PROVE  LET o == job[p]
         IN /\ ForgetNext(p) =>
                 /\ o.pc = "next"
                 /\ \E id \in o.doomed :
                      Becomes(p, "find", o.kind, o.fact, o.label, id, "forget",
                              o.doomed \ {id}, o.replace, o.promise, o.joined, o.list, o.idx)
            /\ Finish(p) =>
                 /\ o.pc = "next"
                 /\ \E pc \in {"compact", "done"} :
                      /\ pc = "compact" => o.kind = "update"
                      /\ Becomes(p, pc, o.kind, o.fact, o.label, o.id, "last", o.doomed,
                                 o.replace, o.promise, o.joined, <<>>, NewIndex)
<1> DEFINE o == job[p]
<1>1. o \in Jobs /\ job \in [Procs -> Jobs]
  BY DEF Shaped, TypeOK
<1>2. ASSUME ForgetNext(p)
      PROVE  /\ o.pc = "next"
             /\ \E id \in o.doomed :
                  Becomes(p, "find", o.kind, o.fact, o.label, id, "forget",
                          o.doomed \ {id}, o.replace, o.promise, o.joined, o.list, o.idx)
  <2>1. PICK id \in o.doomed :
          job' = [job EXCEPT ![p] = [o EXCEPT !.pc = "find", !.part = "forget", !.id = id,
                                              !.doomed = @ \ {id}]]
    BY <1>2 DEF ForgetNext
  <2> DEFINE rest == o.doomed \ {id}
             j == [o EXCEPT !.pc = "find", !.part = "forget", !.id = id, !.doomed = rest]
  <2>2. job'[p] = j /\ \A q \in Procs : q # p => job'[q] = job[q]
    BY <1>1, <2>1 DEF Jobs
  <2> HIDE DEF rest
  <2>3. /\ j.pc = "find" /\ j.kind = o.kind /\ j.fact = o.fact /\ j.label = o.label
        /\ j.id = id /\ j.part = "forget" /\ j.doomed = rest
        /\ j.replace = o.replace /\ j.promise = o.promise /\ j.joined = o.joined
        /\ j.list = o.list /\ j.idx = o.idx
    <3> HIDE DEF o
    <3> QED BY <1>1 DEF Jobs
  <2> HIDE DEF j
  <2>4. Becomes(p, "find", o.kind, o.fact, o.label, id, "forget",
                rest, o.replace, o.promise, o.joined, o.list, o.idx)
    BY <2>2, <2>3 DEF Becomes
  <2> QED BY <1>2, <2>4 DEF ForgetNext, At, rest
<1>3. ASSUME Finish(p)
      PROVE  /\ o.pc = "next"
             /\ \E pc \in {"compact", "done"} :
                  /\ pc = "compact" => o.kind = "update"
                  /\ Becomes(p, pc, o.kind, o.fact, o.label, o.id, "last", o.doomed,
                             o.replace, o.promise, o.joined, <<>>, NewIndex)
  <2> DEFINE pc == IF o.kind = "update" /\ o.part # "last" /\ CompactDue(changes)
                   THEN "compact" ELSE "done"
             j == [o EXCEPT !.pc = pc, !.part = "last", !.list = <<>>, !.idx = NewIndex]
  <2>1. job' = [job EXCEPT ![p] = j]
    BY <1>3 DEF Finish
  <2>2. pc \in {"compact", "done"} /\ (pc = "compact" => o.kind = "update")
    OBVIOUS
  <2> HIDE DEF pc, NewIndex
  <2>3. /\ j.pc = pc /\ j.kind = o.kind /\ j.fact = o.fact /\ j.label = o.label
        /\ j.id = o.id /\ j.part = "last" /\ j.doomed = o.doomed
        /\ j.replace = o.replace /\ j.promise = o.promise /\ j.joined = o.joined
        /\ j.list = <<>> /\ j.idx = NewIndex
    <3> HIDE DEF o
    <3> QED BY <1>1 DEF Jobs
  <2> HIDE DEF j
  <2>4. job'[p] = j /\ \A q \in Procs : q # p => job'[q] = job[q]
    BY <1>1, <2>1
  <2>5. Becomes(p, pc, o.kind, o.fact, o.label, o.id, "last", o.doomed,
                o.replace, o.promise, o.joined, <<>>, NewIndex)
    BY <2>3, <2>4 DEF Becomes
  <2> QED BY <1>3, <2>2, <2>5 DEF Finish, At
<1> QED BY <1>2, <1>3

LEMMA IndexEffects ==
  ASSUME Shaped, NEW p \in Procs, NEW old
  PROVE  LET o == job[p]
             idx == WithLabel(old, o.label, 0)
             sid == idx.sums[o.label].sid
         IN /\ CheckNew(p, old) =>
                 /\ o.pc = "check"
                 /\ Becomes(p, "append", o.kind, o.fact, o.label, o.id, o.part, o.doomed,
                            o.replace, o.promise, o.joined,
                            Append(Current(records), NewRecord(p, old)), WithRefs(idx, sid, 1))
            /\ Reload(p, old) =>
                 /\ o.pc = "reload"
                 /\ Becomes(p, "index", o.kind, o.fact, o.label, o.id, o.part, o.doomed,
                            o.replace, o.promise, o.joined, o.list,
                            WithoutUnused(WithRefs(old, Record(p).sid, -1)))
<1> DEFINE o == job[p]
           idx == WithLabel(old, o.label, 0)
           sid == idx.sums[o.label].sid
<1>1. o \in Jobs /\ job \in [Procs -> Jobs]
  BY DEF Shaped, TypeOK
<1>2. CheckNew(p, old) =>
        /\ o.pc = "check"
        /\ Becomes(p, "append", o.kind, o.fact, o.label, o.id, o.part, o.doomed,
                   o.replace, o.promise, o.joined,
                   Append(Current(records), NewRecord(p, old)), WithRefs(idx, sid, 1))
  <2> DEFINE last == WithRefs(idx, sid, 1)
             list == Append(Current(records), NewRecord(p, old))
             j == [o EXCEPT !.pc = "append", !.list = list, !.idx = last]
  <2>1. CheckNew(p, old) => job' = [job EXCEPT ![p] = j] /\ o.pc = "check"
    BY DEF CheckNew, NewRecord, At
  <2> HIDE DEF list, last, idx, sid
  <2>2. CheckNew(p, old) =>
          Becomes(p, "append", o.kind, o.fact, o.label, o.id, o.part, o.doomed,
                  o.replace, o.promise, o.joined, list, last)
    <3>1. /\ j.pc = "append" /\ j.kind = o.kind /\ j.fact = o.fact /\ j.label = o.label
          /\ j.id = o.id /\ j.part = o.part /\ j.doomed = o.doomed
          /\ j.replace = o.replace /\ j.promise = o.promise /\ j.joined = o.joined
          /\ j.list = list /\ j.idx = last
      <4> HIDE DEF o
      <4> QED BY <1>1 DEF Jobs
    <3> HIDE DEF j
    <3>2. CheckNew(p, old) => job'[p] = j /\ \A q \in Procs : q # p => job'[q] = job[q]
      BY <1>1, <2>1
    <3> QED BY <3>1, <3>2 DEF Becomes
  <2> QED BY <2>1, <2>2 DEF list, last
<1>3. Reload(p, old) =>
        /\ o.pc = "reload"
        /\ Becomes(p, "index", o.kind, o.fact, o.label, o.id, o.part, o.doomed,
                   o.replace, o.promise, o.joined, o.list,
                   WithoutUnused(WithRefs(old, Record(p).sid, -1)))
  <2> DEFINE last == WithoutUnused(WithRefs(old, Record(p).sid, -1))
             j == [o EXCEPT !.pc = "index", !.idx = last]
  <2>1. Reload(p, old) => job' = [job EXCEPT ![p] = j] /\ o.pc = "reload"
    BY DEF Reload, At
  <2> HIDE DEF last
  <2>2. Reload(p, old) =>
          Becomes(p, "index", o.kind, o.fact, o.label, o.id, o.part, o.doomed,
                  o.replace, o.promise, o.joined, o.list, last)
    <3>1. /\ j.pc = "index" /\ j.kind = o.kind /\ j.fact = o.fact /\ j.label = o.label
          /\ j.id = o.id /\ j.part = o.part /\ j.doomed = o.doomed
          /\ j.replace = o.replace /\ j.promise = o.promise /\ j.joined = o.joined
          /\ j.list = o.list /\ j.idx = last
      <4> HIDE DEF o
      <4> QED BY <1>1 DEF Jobs
    <3> HIDE DEF j
    <3>2. Reload(p, old) => job'[p] = j /\ \A q \in Procs : q # p => job'[q] = job[q]
      BY <1>1, <2>1
    <3> QED BY <3>1, <3>2 DEF Becomes
  <2> QED BY <2>1, <2>2 DEF last
<1> QED BY <1>2, <1>3 DEF idx, sid

LEMMA CallEffects ==
  ASSUME Shaped, NEW w \in Writers
  PROVE  /\ \A fact \in Facts, label \in Labels, replace \in BOOLEAN :
              BeginStore(w, fact, label, replace) =>
                /\ Up /\ job[w].pc = "idle"
                /\ Becomes(w, "check", "store", fact, label, 0, "store", {}, replace,
                           TRUE, FALSE, <<>>, NewIndex)
         /\ \A fact \in Facts, label \in Labels, id \in 1..lastId :
              BeginUpdate(w, id, fact, label) =>
                /\ Up /\ job[w].pc = "idle"
                /\ Becomes(w, "check", "update", fact, label, id, "store", {id}, FALSE,
                           TRUE, FALSE, <<>>, NewIndex)
         /\ \A id \in 1..lastId :
              BeginForget(w, id) =>
                /\ Up /\ job[w].pc = "idle"
                /\ Becomes(w, "find", "forget", NoFact, NoLabel, id, "forget", {}, FALSE,
                           FALSE, FALSE, <<>>, NewIndex)
         /\ Return(w) =>
              /\ job[w].pc \in {"done", "failed"}
              /\ Becomes(w, "idle", "none", NoFact, NoLabel, 0, "none", {}, FALSE,
                         FALSE, FALSE, <<>>, NewIndex)
<1>1. w \in Procs /\ job \in [Procs -> Jobs]
  BY DEF Procs, Shaped, TypeOK
<1>2. ASSUME NEW call, Begin(w, call)
      PROVE  /\ Up /\ job[w].pc = "idle"
             /\ job'[w] = call /\ \A q \in Procs : q # w => job'[q] = job[q]
  BY <1>1, <1>2 DEF Begin, At
<1>3. ASSUME NEW fact \in Facts, NEW label \in Labels, NEW replace \in BOOLEAN,
             BeginStore(w, fact, label, replace)
      PROVE  /\ Up /\ job[w].pc = "idle"
             /\ Becomes(w, "check", "store", fact, label, 0, "store", {}, replace,
                        TRUE, FALSE, <<>>, NewIndex)
  <2> DEFINE call == [Quiet EXCEPT !.pc = "check", !.kind = "store", !.part = "store",
                            !.fact = fact, !.label = label, !.replace = replace,
                            !.promise = TRUE]
  <2>1. Begin(w, call)
    BY <1>3 DEF BeginStore
  <2> HIDE DEF NewIndex
  <2>2. /\ call.pc = "check" /\ call.kind = "store" /\ call.fact = fact
        /\ call.label = label /\ call.id = 0 /\ call.part = "store"
        /\ call.doomed = {} /\ call.replace = replace /\ call.promise = TRUE
        /\ call.joined = FALSE /\ call.list = <<>> /\ call.idx = NewIndex
    BY DEF Quiet
  <2> HIDE DEF call
  <2> QED BY <1>2, <2>1, <2>2 DEF Becomes
<1>4. ASSUME NEW fact \in Facts, NEW label \in Labels, NEW id \in 1..lastId,
             BeginUpdate(w, id, fact, label)
      PROVE  /\ Up /\ job[w].pc = "idle"
             /\ Becomes(w, "check", "update", fact, label, id, "store", {id}, FALSE,
                        TRUE, FALSE, <<>>, NewIndex)
  <2> DEFINE call == [Quiet EXCEPT !.pc = "check", !.kind = "update",
                                 !.part = "store", !.fact = fact,
                                 !.label = label, !.id = id, !.doomed = {id},
                                 !.promise = TRUE]
  <2>1. Begin(w, call)
    BY <1>4 DEF BeginUpdate
  <2> HIDE DEF NewIndex
  <2>2. /\ call.pc = "check" /\ call.kind = "update" /\ call.fact = fact
        /\ call.label = label /\ call.id = id /\ call.part = "store"
        /\ call.doomed = {id} /\ call.replace = FALSE /\ call.promise = TRUE
        /\ call.joined = FALSE /\ call.list = <<>> /\ call.idx = NewIndex
    BY DEF Quiet
  <2> HIDE DEF call
  <2> QED BY <1>2, <2>1, <2>2 DEF Becomes
<1>5. ASSUME NEW id \in 1..lastId, BeginForget(w, id)
      PROVE  /\ Up /\ job[w].pc = "idle"
             /\ Becomes(w, "find", "forget", NoFact, NoLabel, id, "forget", {}, FALSE,
                        FALSE, FALSE, <<>>, NewIndex)
  <2> DEFINE call == [Quiet EXCEPT !.pc = "find", !.kind = "forget", !.part = "forget",
                                   !.id = id]
  <2>1. Begin(w, call)
    BY <1>5 DEF BeginForget
  <2> HIDE DEF NewIndex
  <2>2. /\ call.pc = "find" /\ call.kind = "forget" /\ call.fact = NoFact
        /\ call.label = NoLabel /\ call.id = id /\ call.part = "forget"
        /\ call.doomed = {} /\ call.replace = FALSE /\ call.promise = FALSE
        /\ call.joined = FALSE /\ call.list = <<>> /\ call.idx = NewIndex
    BY DEF Quiet
  <2> HIDE DEF call
  <2> QED BY <1>2, <2>1, <2>2 DEF Becomes
<1>6. Return(w) =>
        /\ job[w].pc \in {"done", "failed"}
        /\ Becomes(w, "idle", "none", NoFact, NoLabel, 0, "none", {}, FALSE,
                   FALSE, FALSE, <<>>, NewIndex)
  <2> HIDE DEF NewIndex
  <2> QED BY <1>1 DEF Return, At, Becomes, Quiet
<1> QED BY <1>3, <1>4, <1>5, <1>6

-----------------------------------------------------------------------------
(* No index counts recalls of the digest that are not there.                 *)

MarkBounded ==
  /\ index \in Indexes => index.mark <= Len(digest)
  /\ \A p \in Procs : job[p].idx.mark <= Len(digest)

\* What is to show of a step that leaves the digest as it is.
LEMMA MarkStep ==
  ASSUME Shaped, MarkBounded, NEW p \in Procs, digest' = digest,
         index' \in Indexes => \/ index' = index \/ index' = NewIndex
                               \/ index' = job[p].idx,
         \A q \in Procs : q # p => job'[q] = job[q],
         \/ job'[p].idx = job[p].idx
         \/ job'[p].idx.mark <= Len(digest)
  PROVE  MarkBounded'
<1>1. index' \in Indexes => index'.mark <= Len(digest)
  <2>1. NewIndex.mark <= Len(digest)
    <3>1. Len(digest) \in Nat
      BY LenProperties DEF Shaped, TypeOK
    <3> QED BY <3>1 DEF NewIndex
  <2> HIDE DEF NewIndex
  <2> QED BY <2>1 DEF MarkBounded
<1>2. \A q \in Procs : job'[q].idx.mark <= Len(digest)
  BY DEF MarkBounded
<1> QED BY <1>1, <1>2 DEF MarkBounded

LEMMA ReadMark ==
  ASSUME Shaped, MarkBounded, NEW p \in Procs,
         At(p, "check") \/ At(p, "reload") \/ At(p, "compact"), NEW old, Read(old)
  PROVE  old.mark \in Nat /\ old.mark <= Len(digest)
<1>1. old \in Indexes /\ (old = index \/ old = NewIndex)
  BY ReadGood
<1>2. Len(digest) \in Nat /\ NewIndex.mark = 0
  BY LenProperties DEF Shaped, TypeOK, NewIndex
<1>3. old.mark \in Nat
  BY <1>1 DEF Indexes
<1> HIDE DEF NewIndex
<1> QED BY <1>1, <1>2, <1>3 DEF MarkBounded

\* What a compaction has read, merged and trimmed.
LEMMA CompactEffect ==
  ASSUME Shaped, MarkBounded, NEW p \in Procs, NEW old, Compact(p, old)
  PROVE  LET o == job[p]
         IN /\ o.pc = "compact" /\ Read(old) /\ old \in Indexes
            /\ old.mark \in Nat /\ old.mark <= Len(digest)
            /\ \E list \in Seq(Items), promise \in BOOLEAN : \E trimmed :
                 LET new == Relabelled(list, old)
                 IN /\ Becomes(p, "newRecords", o.kind, o.fact, o.label, o.id, o.part,
                               o.doomed, o.replace, promise, o.joined, new.list, new.idx)
                    /\ CompactionOf(ToSet(Current(records)), Len(digest) - old.mark, new.list)
                    /\ RelabelOf(list, Len(list), new)
                    /\ trimmed = FactsOf(Current(records)) \ FactsOf(new.list)
                    /\ kept' = kept \ trimmed
                    /\ promise => o.promise /\ o.fact \notin trimmed /\ ~MergesUpdate(p)
<1> DEFINE o == job[p]
<1>1. o \in Jobs /\ job \in [Procs -> Jobs]
  BY DEF Shaped, TypeOK
<1>2. At(p, "compact") /\ o.pc = "compact" /\ Read(old)
  BY DEF Compact, At
<1>3. old \in Indexes /\ old.mark \in Nat /\ old.mark <= Len(digest)
  BY <1>2, ReadGood, ReadMark
<1>4. PICK later \in BOOLEAN :
        \E list \in Trims(Merged(Counted(Current(records), old.mark), later)) :
          LET new == Relabelled(list, old)
              trimmed == FactsOf(Merged(Counted(Current(records), old.mark), later))
                           \ FactsOf(list)
          IN /\ job' = [job EXCEPT ![p].pc = "newRecords", ![p].list = new.list,
                                   ![p].idx = new.idx,
                                   ![p].promise =
                                     @ /\ job[p].fact \notin trimmed /\ ~MergesUpdate(p)]
             /\ kept' = kept \ trimmed
  BY DEF Compact
<1> DEFINE merged == Merged(Counted(Current(records), old.mark), later)
<1>5. merged = Merged(Counted(Current(records), old.mark), later)
  OBVIOUS
<1> HIDE DEF merged
<1>6. PICK list \in Trims(merged) :
          LET new == Relabelled(list, old)
              trimmed == FactsOf(merged) \ FactsOf(list)
          IN /\ job' = [job EXCEPT ![p].pc = "newRecords", ![p].list = new.list,
                                   ![p].idx = new.idx,
                                   ![p].promise =
                                     @ /\ job[p].fact \notin trimmed /\ ~MergesUpdate(p)]
             /\ kept' = kept \ trimmed
  BY <1>4, <1>5
<1> DEFINE new == Relabelled(list, old)
           trimmed == FactsOf(Current(records)) \ FactsOf(new.list)
           promise == o.promise /\ o.fact \notin trimmed /\ ~MergesUpdate(p)
           j == [o EXCEPT !.pc = "newRecords", !.list = new.list, !.idx = new.idx,
                          !.promise = promise]
<1>7. /\ CompactionOf(ToSet(Current(records)), Len(digest) - old.mark, new.list)
      /\ FactsOf(new.list) = FactsOf(list)
      /\ FactsOf(merged) = FactsOf(Current(records))
      /\ list \in Seq(Items)
      /\ RelabelOf(list, Len(list), new)
  <2>1. records \in Seq(Lines) /\ digest \in Seq(Nat)
    BY ActiveTyped DEF Shaped, TypeOK
  <2> QED BY <2>1, <1>3, <1>5, CompactedList
<1>8. job' = [job EXCEPT ![p] = j] /\ kept' = kept \ trimmed
  <2> HIDE DEF new, MergesUpdate
  <2>1. FactsOf(merged) \ FactsOf(list) = trimmed
    BY <1>7
  <2>2. job' = [job EXCEPT ![p].pc = "newRecords", ![p].list = new.list,
                           ![p].idx = new.idx,
                           ![p].promise =
                             @ /\ job[p].fact \notin trimmed /\ ~MergesUpdate(p)]
        /\ kept' = kept \ trimmed
    BY <1>6, <2>1 DEF new
  <2> HIDE DEF trimmed
  <2> QED BY <2>2, <1>1 DEF Jobs
<1>9. promise \in BOOLEAN /\ (promise => o.promise /\ o.fact \notin trimmed /\ ~MergesUpdate(p))
  BY <1>1 DEF Jobs
<1> HIDE DEF new, promise
<1>10. Becomes(p, "newRecords", o.kind, o.fact, o.label, o.id, o.part,
               o.doomed, o.replace, promise, o.joined, new.list, new.idx)
  <2>1. /\ j.pc = "newRecords" /\ j.kind = o.kind /\ j.fact = o.fact /\ j.label = o.label
        /\ j.id = o.id /\ j.part = o.part /\ j.doomed = o.doomed
        /\ j.replace = o.replace /\ j.promise = promise /\ j.joined = o.joined
        /\ j.list = new.list /\ j.idx = new.idx
    <3> HIDE DEF o
    <3> QED BY <1>1 DEF Jobs
  <2> HIDE DEF j
  <2>2. job'[p] = j /\ \A q \in Procs : q # p => job'[q] = job[q]
    BY <1>1, <1>8
  <2> QED BY <2>1, <2>2 DEF Becomes
<1> HIDE DEF trimmed
<1>11. /\ trimmed = FactsOf(Current(records)) \ FactsOf(new.list)
       /\ kept' = kept \ trimmed
  BY <1>8 DEF trimmed
<1> QED BY <1>2, <1>3, <1>7, <1>9, <1>10, <1>11 DEF new

LEMMA RecallGrows ==
  ASSUME Shaped, NEW w, NEW label \in Labels, Recall(w, label)
  PROVE  Len(digest') \in Nat /\ Len(digest) <= Len(digest')
<1> DEFINE found == Only(Current(records), {m \in Active(records) :
                           m.sid = index.sums[label].sid})
           more == [i \in DOMAIN found |-> found[i].id]
<1>1. digest' = digest \o more /\ digest \in Seq(Nat)
  BY DEF Recall, Shaped, TypeOK
<1>2. found \in Seq(Items)
  BY ActiveTyped, OnlySet
<1> HIDE DEF found
<1>3. more \in Seq(Nat)
  <2>1. /\ Len(found) \in Nat /\ DOMAIN found = 1..Len(found)
        /\ \A i \in 1..Len(found) : found[i] \in Items
    BY <1>2, LenProperties, ElementOfSeq
  <2>2. \A i \in 1..Len(found) : found[i].id \in Nat
    BY <2>1 DEF Items
  <2> QED BY <2>1, <2>2, IsASeq
<1> HIDE DEF more
<1>4. Len(digest \o more) = Len(digest) + Len(more) /\ Len(digest) \in Nat /\ Len(more) \in Nat
  BY <1>1, <1>3, ConcatProperties, LenProperties
<1> QED BY <1>1, <1>4

LEMMA MarkBoundedStep == Shaped /\ MarkBounded /\ [Next]_vars => MarkBounded'
<1> SUFFICES ASSUME Shaped, MarkBounded, [Next]_vars PROVE MarkBounded'
  OBVIOUS
<1>1. Main \in Procs /\ Writers \subseteq Procs /\ Len(digest) \in Nat /\ NewIndex.mark = 0
  BY LenProperties DEF Procs, Shaped, TypeOK, NewIndex
<1>2. \A p \in Procs : job[p].idx.mark <= Len(digest) /\ job[p].idx.mark \in Nat
  <2>1. \A p \in Procs : job[p].idx \in Indexes
    BY JobFields DEF Shaped, TypeOK
  <2> QED BY <2>1 DEF MarkBounded, Indexes
<1> HIDE DEF NewIndex
<1>3. ASSUME Create PROVE MarkBounded'
  <2>1. index' = index \/ index' = NewIndex
    BY <1>3 DEF Create
  <2>2. digest' = digest
    BY <1>3 DEF Create
  <2> QED BY <1>1, <1>3, <2>1, <2>2, MarkStep, GotoEffects DEF Goes, Becomes
<1>4. ASSUME NEW p \in Procs,
             \/ CheckKnown(p) \/ IndexUnread(p) \/ AppendRecord(p)
             \/ SyncMarkdown(p) \/ Find(p) \/ NotFound(p) \/ Conflicts(p)
             \/ RewriteRecords(p) \/ CompactEnd(p)
      PROVE  MarkBounded'
  <2>1. index' = index /\ digest' = digest
    BY <1>4 DEF CheckKnown, IndexUnread, AppendRecord, SyncMarkdown, Find, NotFound,
                Conflicts, RewriteRecords, CompactEnd
  <2>2. job'[p].idx = job[p].idx /\ \A q \in Procs : q # p => job'[q] = job[q]
    BY <1>4, GotoEffects, StoreEffects DEF Goes, Becomes
  <2> QED BY <2>1, <2>2, MarkStep
<1>5. ASSUME NEW p \in Procs, SaveIndex(p) PROVE MarkBounded'
  <2>1. index' = job[p].idx /\ digest' = digest
    BY <1>5 DEF SaveIndex
  <2>2. job'[p].idx = job[p].idx /\ \A q \in Procs : q # p => job'[q] = job[q]
    BY <1>5, GotoEffects DEF Goes, Becomes
  <2> QED BY <2>1, <2>2, MarkStep
<1>6. ASSUME NEW p \in Procs, ForgetNext(p) \/ Finish(p) PROVE MarkBounded'
  <2>1. index' = index /\ digest' = digest
    BY <1>6 DEF ForgetNext, Finish
  <2>2. /\ job'[p].idx \in {job[p].idx, NewIndex}
        /\ \A q \in Procs : q # p => job'[q] = job[q]
    BY <1>6, NextEffects DEF Becomes
  <2> QED BY <1>1, <2>1, <2>2, MarkStep
<1>7. ASSUME NEW p \in Procs, NEW old, CheckNew(p, old) PROVE MarkBounded'
  <2>1. index' = index /\ digest' = digest /\ At(p, "check") /\ Read(old)
    BY <1>7 DEF CheckNew
  <2> DEFINE idx == WithLabel(old, job[p].label, 0)
             sid == idx.sums[job[p].label].sid
             last == WithRefs(idx, sid, 1)
  <2>2. job'[p].idx = last /\ \A q \in Procs : q # p => job'[q] = job[q]
    BY <1>7, IndexEffects DEF Becomes
  <2>3. LabelAdded(old, job[p].label, idx) /\ RefsMoved(idx, sid, 1, last)
    BY <2>1, ReadGood, NewRecordGood
  <2>4. last.mark = old.mark
    BY <2>3 DEF LabelAdded, RefsMoved
  <2> HIDE DEF last
  <2> QED BY <2>1, <2>2, <2>4, ReadMark, MarkStep
<1>8. ASSUME NEW p \in Procs, NEW old, Reload(p, old) PROVE MarkBounded'
  <2>1. index' = index /\ digest' = digest /\ At(p, "reload") /\ Read(old)
    BY <1>8 DEF Reload
  <2> DEFINE less == WithRefs(old, Record(p).sid, -1)
             last == WithoutUnused(less)
  <2>2. job'[p].idx = last /\ \A q \in Procs : q # p => job'[q] = job[q]
    BY <1>8, IndexEffects DEF Becomes
  <2>3. RefsMoved(old, Record(p).sid, -1, less)
    <3>1. Record(p) \in Items
      BY <2>1, RecordTyped
    <3>2. Record(p).sid \in Nat /\ -1 \in Int
      BY <3>1 DEF Items
    <3> QED BY <3>2, <2>1, ReadGood, WithRefsGood
  <2>4. UnusedDropped(less, last)
    BY <2>3, WithoutUnusedGood DEF RefsMoved
  <2>5. last.mark = old.mark
    BY <2>3, <2>4 DEF UnusedDropped, RefsMoved
  <2> HIDE DEF last
  <2> QED BY <2>1, <2>2, <2>5, ReadMark, MarkStep
<1>9. ASSUME NEW p \in Procs, NEW old, Compact(p, old) PROVE MarkBounded'
  <2>1. index' = index /\ digest' = digest
    BY <1>9 DEF Compact
  <2>2. PICK list \in Seq(Items) :
          /\ job'[p].idx = Relabelled(list, old).idx
          /\ \A q \in Procs : q # p => job'[q] = job[q]
          /\ RelabelOf(list, Len(list), Relabelled(list, old))
    BY <1>9, CompactEffect DEF Becomes
  <2>3. job'[p].idx.mark = Len(digest)
    BY <2>2 DEF RelabelOf
  <2> QED BY <1>1, <2>1, <2>2, <2>3, MarkStep
<1>10. ASSUME NEW p \in Procs, Cut(p) PROVE MarkBounded'
  <2>1. digest' = digest
    BY <1>10 DEF Cut
  <2>2. \A q \in Procs : job'[q].idx = NewIndex
    BY <1>10 DEF Cut, Quiet
  <2>3. index' \in {index, Garbled, Missing, NewIndex, job[p].idx}
    BY <1>10 DEF Cut, IndexCut
  <2>4. index' \in Indexes => index'.mark <= Len(digest)
    BY <1>1, <1>2, <2>3, MemoryAssumption DEF MarkBounded
  <2> QED BY <1>1, <2>1, <2>2, <2>4 DEF MarkBounded
<1>11. ASSUME NEW w \in Writers,
              \/ \E fact \in Facts, label \in Labels, replace \in BOOLEAN :
                   BeginStore(w, fact, label, replace)
              \/ \E fact \in Facts, label \in Labels, id \in 1..lastId :
                   BeginUpdate(w, id, fact, label)
              \/ \E id \in 1..lastId : BeginForget(w, id)
              \/ Return(w)
       PROVE  MarkBounded'
  <2>1. index' = index /\ digest' = digest
    BY <1>11 DEF BeginStore, BeginUpdate, BeginForget, Begin, Return
  <2>2. job'[w].idx = NewIndex /\ \A q \in Procs : q # w => job'[q] = job[q]
    BY <1>11, CallEffects DEF Becomes
  <2> QED BY <1>1, <2>1, <2>2, MarkStep
<1>12. ASSUME NEW w \in Writers, OpenFails(w) PROVE MarkBounded'
  <2>1. index' = index /\ digest' = digest
    BY <1>12 DEF OpenFails
  <2>2. w \in Procs
    BY <1>1
  <2>3. job'[w].idx = job[w].idx /\ \A q \in Procs : q # w => job'[q] = job[q]
    BY <1>12, <2>2, GotoEffects DEF Goes, Becomes
  <2> QED BY <2>1, <2>2, <2>3, MarkStep
<1>13. ASSUME NEW w \in Writers, NEW label \in Labels, Recall(w, label) PROVE MarkBounded'
  <2>1. index' = index /\ job' = job
    BY <1>13 DEF Recall
  <2>2. Len(digest') \in Nat /\ Len(digest) <= Len(digest')
    BY <1>13, RecallGrows
  <2>3. index \in Indexes => index.mark \in Nat
    BY DEF Indexes
  <2> QED BY <1>1, <1>2, <2>1, <2>2, <2>3 DEF MarkBounded
<1>14. CASE Next
  BY <1>14, NextCases, <1>3, <1>4, <1>5, <1>6, <1>7, <1>8, <1>9, <1>10, <1>11, <1>12, <1>13,
     Zenon
<1>15. CASE UNCHANGED vars
  BY <1>15 DEF vars, MarkBounded
<1> QED BY <1>14, <1>15

Sound == Shaped /\ MarkBounded

LEMMA SoundAlways == Init => Sound
<1> SUFFICES ASSUME Init PROVE Sound
  OBVIOUS
<1>1. Shaped
  BY ShapedInit
<1>2. Len(digest) \in Nat /\ index \notin Indexes
  BY LenProperties, MemoryAssumption DEF Shaped, TypeOK, Init
<1>3. \A p \in Procs : job[p].idx.mark = 0
  BY DEF Init, Quiet, NewIndex
<1> QED BY <1>1, <1>2, <1>3 DEF Sound, MarkBounded

LEMMA SoundStep == Sound /\ [Next]_vars => Sound'
BY ShapedStep, MarkBoundedStep DEF Sound

-----------------------------------------------------------------------------
(* One task besides the one that boots.                                      *)

Single == \A v, w \in Writers : v = w

Rest == {"idle", "up"}

\* While a call or a boot is under way, the others rest.
LEMMA OthersRest ==
  ASSUME Shaped, Single, NEW p \in Procs,
         job[p].pc \notin Rest \/ (p # Main /\ Up)
  PROVE  \A q \in Procs : q # p => job[q].pc \in Rest
<1> SUFFICES ASSUME NEW q \in Procs, q # p PROVE job[q].pc \in Rest
  OBVIOUS
<1>1. CASE q = Main
  BY <1>1, Turn DEF Rest, Up, At
<1>2. CASE q # Main
  <2>1. q \in Writers /\ p = Main
    BY <1>2 DEF Procs, Single
  <2>2. ~Up
    BY <2>1, Turn DEF Rest
  <2>3. job[q] = Quiet
    BY <2>1, <2>2 DEF Shaped, Ordered
  <2> QED BY <2>3 DEF Quiet, Rest
<1> QED BY <1>1, <1>2

-----------------------------------------------------------------------------
(* What was forgotten stays gone.                                            *)

\* The stages of a part that come after its record was appended.
AfterAppend == {"reload", "index", "markdown", "next",
                "compact", "newRecords", "newIndex", "newMarkdown"}

\* What a call owes to those whose forgetting succeeded (gone), C being the
\* memories of the file, and to the one it forgets.
Bygone(j, C, gone, last) ==
  /\ j.id <= last /\ \A d \in j.doomed : d <= last
  /\ j.pc = "newRecords" =>
       \A m \in ToSet(j.list) :
         /\ m.id <= last /\ m.id \notin gone
         /\ j.part = "forget" /\ ~j.joined => m.id # j.id
  /\ j.pc = "append" /\ j.part = "store" =>
       Last(j.list).id <= last /\ Last(j.list).id \notin gone
  /\ j.pc = "append" /\ j.part = "forget" =>
       \A m \in ToSet(j.list) : m.id = j.id => m.gone
  /\ j.pc \in AfterAppend /\ j.part = "forget" /\ ~j.joined =>
       \A m \in C : ~m.gone => m.id # j.id

BygoneInv ==
  LET C == ToSet(Current(records))
  IN  /\ \A m \in C : m.id <= lastId /\ (~m.gone => m.id \notin forgotten)
      /\ \A i \in forgotten : i <= lastId
      /\ \A p \in Procs : Bygone(job[p], C, forgotten, lastId)

\* What is to show of a step of p that forgets nothing.
LEMMA BygoneStep ==
  ASSUME Shaped, Single, BygoneInv, NEW p \in Procs,
         job[p].pc \notin Rest \/ (p # Main /\ Up),
         \A q \in Procs : q # p => job'[q] = job[q],
         lastId' \in Nat, lastId <= lastId',
         NEW C, C = ToSet(Current(records))',
         \A m \in C : m.id <= lastId' /\ (~m.gone => m.id \notin forgotten'),
         \A i \in forgotten' : i <= lastId',
         Bygone(job'[p], C, forgotten', lastId')
  PROVE  BygoneInv'
<1>1. ASSUME NEW q \in Procs, q # p
      PROVE  Bygone(job'[q], C, forgotten', lastId')
  <2>1. job[q].pc \in Rest /\ job'[q] = job[q]
    BY <1>1, OthersRest
  <2>2. job[q].id <= lastId /\ \A d \in job[q].doomed : d <= lastId
    BY DEF BygoneInv, Bygone
  <2>3. job[q].id \in Nat /\ job[q].doomed \subseteq Nat /\ lastId \in Nat
    BY JobFields DEF Shaped, TypeOK
  <2>4. job[q].id <= lastId' /\ \A d \in job[q].doomed : d <= lastId'
    BY <2>2, <2>3
  <2> QED BY <2>1, <2>4 DEF Bygone, Rest, AfterAppend
<1> QED BY <1>1 DEF BygoneInv

\* What is to show of a step of p that leaves the records and the promises.
LEMMA BygoneQuiet ==
  ASSUME Shaped, Single, BygoneInv, NEW p \in Procs,
         job[p].pc \notin Rest \/ (p # Main /\ Up),
         \A q \in Procs : q # p => job'[q] = job[q],
         records' = records, lastId' = lastId, forgotten' = forgotten,
         Bygone(job'[p], ToSet(Current(records)), forgotten, lastId)
  PROVE  BygoneInv'
<1>1. lastId \in Nat
  BY DEF Shaped, TypeOK
<1>2. /\ records' = records /\ lastId' = lastId /\ forgotten' = forgotten
      /\ ToSet(Current(records))' = ToSet(Current(records))
  OBVIOUS
<1> QED BY <1>1, <1>2, BygoneStep DEF BygoneInv

LEMMA BygoneGoes ==
  ASSUME Shaped, Single, BygoneInv, NEW p \in Procs, NEW from, NEW pc, Goes(p, from, pc),
         from \notin Rest, pc \notin {"append", "newRecords"},
         pc \in AfterAppend => from \in AfterAppend \/ p = Main,
         records' = records, lastId' = lastId, forgotten' = forgotten
  PROVE  BygoneInv'
<1> DEFINE C == ToSet(Current(records))
           j == job'[p]
           o == job[p]
<1>1. /\ j.pc = pc /\ j.id = o.id /\ j.part = o.part /\ j.doomed = o.doomed
      /\ j.joined = o.joined /\ j.list = o.list /\ o.pc = from
      /\ \A q \in Procs : q # p => job'[q] = job[q]
  BY DEF Goes, Becomes
<1>2. Bygone(o, C, forgotten, lastId)
  BY DEF BygoneInv
<1>3. p = Main => o.part = "none"
  BY DEF Shaped, Ordered
<1> HIDE DEF j, o
<1>4. Bygone(j, C, forgotten, lastId)
  BY <1>1, <1>2, <1>3 DEF Bygone
<1> HIDE DEF C
<1> QED BY <1>1, <1>4, BygoneQuiet DEF C, j, o

LEMMA BygoneStages ==
  ASSUME Shaped, Single, BygoneInv, NEW p \in Procs
  PROVE  /\ Create => BygoneInv'
         /\ IndexUnread(p) => BygoneInv'
         /\ SaveIndex(p) => BygoneInv'
         /\ SyncMarkdown(p) => BygoneInv'
         /\ CompactEnd(p) => BygoneInv'
         /\ OpenFails(p) => BygoneInv'
<1>1. Create \/ IndexUnread(p) \/ SaveIndex(p) \/ SyncMarkdown(p) \/ CompactEnd(p)
        \/ OpenFails(p)
      => records' = records /\ lastId' = lastId /\ forgotten' = forgotten
  BY DEF Create, IndexUnread, SaveIndex, SyncMarkdown, CompactEnd, OpenFails
<1>2. Main \in Procs
  BY DEF Procs
<1>3. Create => BygoneInv'
  BY <1>1, <1>2, GotoEffects, BygoneGoes DEF Rest, AfterAppend
<1>4. IndexUnread(p) => BygoneInv'
  BY <1>1, GotoEffects, BygoneGoes DEF Rest, AfterAppend
<1>5. SaveIndex(p) => BygoneInv'
  BY <1>1, GotoEffects, BygoneGoes DEF Rest, AfterAppend
<1>6. SyncMarkdown(p) => BygoneInv'
  BY <1>1, GotoEffects, BygoneGoes DEF Rest, AfterAppend
<1>7. CompactEnd(p) => BygoneInv'
  BY <1>1, GotoEffects, BygoneGoes DEF Rest, AfterAppend
<1>8. OpenFails(p) => BygoneInv'
  BY <1>1, GotoEffects, BygoneGoes DEF Rest, AfterAppend
<1> QED BY <1>3, <1>4, <1>5, <1>6, <1>7, <1>8

\* A list in which one id is marked as gone.
LEMMA MarkedList ==
  ASSUME Shaped, NEW id
  PROVE  LET list == Marked(Current(records), id)
             C == ToSet(Current(records))
         IN  /\ list \in Seq(Items)
             /\ \A m \in ToSet(list) :
                  /\ m.id = id => m.gone
                  /\ \E n \in C : n.id = m.id /\ n.fact = m.fact /\ n.label = m.label
                                 /\ n.sid = m.sid /\ n.access = m.access
                  /\ m.id # id => m \in C
             /\ \A m \in C : m.id # id => m \in ToSet(list)
<1> DEFINE cur == Current(records)
           mark(m) == IF m.id = id THEN [m EXCEPT !.gone = TRUE] ELSE m
           list == Marked(cur, id)
<1>1. /\ cur \in Seq(Items) /\ Len(cur) \in Nat /\ DOMAIN cur = 1..Len(cur)
      /\ \A i \in 1..Len(cur) : cur[i] \in Items
  BY ActiveTyped, LenProperties, ElementOfSeq
<1>2. \A m \in Items : /\ mark(m) \in Items
                       /\ mark(m).id = m.id /\ mark(m).fact = m.fact
                       /\ mark(m).label = m.label /\ mark(m).sid = m.sid
                       /\ mark(m).access = m.access
                       /\ m.id = id => mark(m).gone
                       /\ m.id # id => mark(m) = m
  BY DEF Items
<1>3. list = [i \in DOMAIN cur |-> mark(cur[i])]
  BY DEF Marked
<1> HIDE DEF mark, cur, list
<1>4. list \in Seq(Items) /\ DOMAIN list = DOMAIN cur
  BY <1>1, <1>2, <1>3, IsASeq
<1>5. \A i \in DOMAIN cur : list[i] = mark(cur[i])
  BY <1>3
<1>6. ASSUME NEW m \in ToSet(list)
      PROVE  /\ m.id = id => m.gone
             /\ \E n \in ToSet(cur) : n.id = m.id /\ n.fact = m.fact /\ n.label = m.label
                                     /\ n.sid = m.sid /\ n.access = m.access
             /\ m.id # id => m \in ToSet(cur)
  <2>1. PICK i \in DOMAIN cur : m = mark(cur[i])
    BY <1>4, <1>5 DEF ToSet
  <2>2. cur[i] \in Items /\ cur[i] \in ToSet(cur)
    BY <1>1 DEF ToSet
  <2> QED BY <1>2, <2>1, <2>2
<1>7. ASSUME NEW m \in ToSet(cur), m.id # id
      PROVE  m \in ToSet(list)
  <2>1. PICK i \in DOMAIN cur : m = cur[i]
    BY DEF ToSet
  <2>2. list[i] = m
    BY <1>1, <1>2, <1>5, <1>7, <2>1
  <2> QED BY <2>2, <1>4 DEF ToSet
<1> QED BY <1>4, <1>6, <1>7 DEF cur, list

LEMMA BygoneQuieter ==
  ASSUME Shaped, Single, BygoneInv, NEW p \in Procs
  PROVE  /\ CheckKnown(p) => BygoneInv'
         /\ NotFound(p) => BygoneInv'
         /\ Conflicts(p) => BygoneInv'
         /\ \A old : Reload(p, old) => BygoneInv'
         /\ Find(p) => BygoneInv'
<1> DEFINE C == ToSet(Current(records))
           j == job'[p]
           o == job[p]
<1>1. Bygone(o, C, forgotten, lastId) /\ \A m \in C : m.id <= lastId
  BY DEF BygoneInv
<1>2. Active(records) = {m \in C : ~m.gone}
  BY ActiveTyped
<1>3. GoodJob(o)
  BY DEF Shaped, Ordered
<1>4. ASSUME CheckKnown(p) PROVE BygoneInv'
  <2>1. records' = records /\ lastId' = lastId /\ forgotten' = forgotten
    BY <1>4 DEF CheckKnown
  <2>2. /\ o.pc = "check" /\ j.pc = "next" /\ j.id = o.id /\ j.part = o.part
        /\ j.doomed = o.doomed /\ j.joined = o.joined /\ j.list = o.list
        /\ \A q \in Procs : q # p => job'[q] = job[q]
    BY <1>4, StoreEffects DEF Becomes
  <2> HIDE DEF C, j, o
  <2>3. Bygone(j, C, forgotten, lastId)
    BY <1>1, <1>3, <2>2 DEF Bygone, GoodJob
  <2> QED BY <2>1, <2>2, <2>3, BygoneQuiet DEF C, j, o, Rest
<1>5. ASSUME NotFound(p) PROVE BygoneInv'
  <2>1. records' = records /\ lastId' = lastId /\ forgotten' = forgotten
    BY <1>5 DEF NotFound
  <2>2. /\ o.pc = "find" /\ j.pc \in {"next", "failed"} /\ j.id = o.id /\ j.part = "missed"
        /\ j.doomed = o.doomed /\ j.joined = o.joined /\ j.list = o.list
        /\ \A q \in Procs : q # p => job'[q] = job[q]
    BY <1>5, StoreEffects DEF Becomes
  <2> HIDE DEF C, j, o
  <2>3. Bygone(j, C, forgotten, lastId)
    BY <1>1, <2>2 DEF Bygone
  <2> QED BY <2>1, <2>2, <2>3, BygoneQuiet DEF C, j, o, Rest
<1>6. ASSUME Conflicts(p) PROVE BygoneInv'
  <2>1. records' = records /\ lastId' = lastId /\ forgotten' = forgotten
    BY <1>6 DEF Conflicts
  <2>2. /\ o.pc = "next" /\ j.pc = "next" /\ j.id = o.id /\ j.part = o.part
        /\ j.doomed = {m.id : m \in {n \in Active(records) :
                                       n.label = o.label /\ n.fact # o.fact}}
        /\ j.joined = o.joined /\ j.list = o.list
        /\ \A q \in Procs : q # p => job'[q] = job[q]
    BY <1>6, StoreEffects DEF Becomes
  <2>3. \A d \in j.doomed : d <= lastId
    BY <1>1, <1>2, <2>2
  <2> HIDE DEF C, j, o
  <2>4. Bygone(j, C, forgotten, lastId)
    BY <1>1, <2>2, <2>3 DEF Bygone
  <2> QED BY <2>1, <2>2, <2>4, BygoneQuiet DEF C, j, o, Rest
<1>7. ASSUME NEW old, Reload(p, old) PROVE BygoneInv'
  <2>1. records' = records /\ lastId' = lastId /\ forgotten' = forgotten
    BY <1>7 DEF Reload
  <2>2. /\ o.pc = "reload" /\ j.pc = "index" /\ j.id = o.id /\ j.part = o.part
        /\ j.doomed = o.doomed /\ j.joined = o.joined /\ j.list = o.list
        /\ \A q \in Procs : q # p => job'[q] = job[q]
    BY <1>7, IndexEffects DEF Becomes
  <2> HIDE DEF C, j, o
  <2>3. Bygone(j, C, forgotten, lastId)
    BY <1>1, <2>2 DEF Bygone, AfterAppend
  <2> QED BY <2>1, <2>2, <2>3, BygoneQuiet DEF C, j, o, Rest
<1>8. ASSUME Find(p) PROVE BygoneInv'
  <2>1. records' = records /\ lastId' = lastId /\ forgotten' = forgotten
    BY <1>8 DEF Find
  <2>2. /\ o.pc = "find" /\ j.pc = "append" /\ j.id = o.id /\ j.part = o.part
        /\ j.doomed = o.doomed /\ j.joined = o.joined
        /\ j.list = Marked(Current(records), o.id)
        /\ \A q \in Procs : q # p => job'[q] = job[q]
    BY <1>8, StoreEffects DEF Becomes
  <2>3. \A m \in ToSet(j.list) : m.id = o.id => m.gone
    BY <2>2, MarkedList
  <2>4. o.part = "forget"
    BY <1>3, <2>2 DEF GoodJob
  <2> HIDE DEF C, j, o
  <2>5. Bygone(j, C, forgotten, lastId)
    BY <1>1, <2>2, <2>3, <2>4 DEF Bygone, AfterAppend
  <2> QED BY <2>1, <2>2, <2>5, BygoneQuiet DEF C, j, o, Rest
<1> QED BY <1>4, <1>5, <1>6, <1>7, <1>8

\* What appending a record does to the memories of the file.
LEMMA Appended ==
  ASSUME Shaped, NEW p \in Procs, At(p, "append")
  PROVE  /\ WithRecord(records, Record(p)) \in Seq(Lines)
         /\ Unfinished(records) => WithRecord(records, Record(p)) = records
         /\ ~Unfinished(records) =>
              ToSet(Current(WithRecord(records, Record(p))))
                = {m \in ToSet(Current(records)) : m.id # Record(p).id} \cup {Record(p)}
<1>1. records \in Seq(Lines) /\ Record(p) \in Items
  BY ActiveTyped, RecordTyped
<1>2. Record(p) # Torn /\ Record(p) \in Lines
  BY <1>1, MemoryAssumption DEF Lines
<1> QED BY <1>1, <1>2, RecordWritten DEF After

LEMMA BygoneRecord ==
  ASSUME Shaped, BygoneInv, NEW p \in Procs, At(p, "append")
  PROVE  \A m \in ToSet(Current(WithRecord(records, Record(p)))) :
           /\ m.id <= lastId /\ (~m.gone => m.id \notin forgotten)
           /\ ~m.gone /\ job[p].part = "forget" /\ ~Unfinished(records) => m.id # job[p].id
<1> DEFINE C == ToSet(Current(records))
           o == job[p]
           r == Record(p)
<1>1. Bygone(o, C, forgotten, lastId) /\ o.pc = "append"
      /\ \A m \in C : m.id <= lastId /\ (~m.gone => m.id \notin forgotten)
  BY DEF BygoneInv, At
<1>2. /\ r \in Items /\ r \in ToSet(o.list)
      /\ o.part = "forget" => r.id = o.id
      /\ o.part = "store" => r = Last(o.list)
      /\ o.part \in {"store", "forget"}
  BY RecordTyped, Turn DEF At, GoodJob
<1> HIDE DEF o, r
<1>3. r.id <= lastId /\ (~r.gone => r.id \notin forgotten) /\ (o.part = "forget" => r.gone)
  BY <1>1, <1>2 DEF Bygone
<1> HIDE DEF C
<1>4. CASE Unfinished(records)
  BY <1>1, <1>4, Appended DEF C, r
<1>5. CASE ~Unfinished(records)
  <2>1. ToSet(Current(WithRecord(records, r))) = {m \in C : m.id # r.id} \cup {r}
    BY <1>5, Appended DEF C, r
  <2>2. \A m \in ToSet(Current(WithRecord(records, r))) :
           /\ m.id <= lastId /\ (~m.gone => m.id \notin forgotten)
           /\ ~m.gone /\ o.part = "forget" => m.id # o.id
    BY <1>1, <1>2, <1>3, <2>1
  <2> QED BY <2>2 DEF o, r
<1> QED BY <1>4, <1>5

LEMMA BygoneAppend ==
  ASSUME Shaped, Single, BygoneInv, NEW p \in Procs, AppendRecord(p)
  PROVE  BygoneInv'
<1> DEFINE C == ToSet(Current(records))'
           j == job'[p]
           o == job[p]
<1>1. /\ o.pc = "append" /\ j.pc = (IF o.part = "store" THEN "index" ELSE "reload")
      /\ j.id = o.id /\ j.part = o.part /\ j.doomed = o.doomed /\ j.list = o.list
      /\ j.joined = (o.joined \/ Unfinished(records))
      /\ \A q \in Procs : q # p => job'[q] = job[q]
  BY StoreEffects DEF Becomes
<1>2. /\ records' = WithRecord(records, Record(p)) /\ lastId' = lastId
      /\ forgotten' = forgotten /\ lastId \in Nat
  BY DEF AppendRecord, Shaped, TypeOK
<1>3. \A m \in C :
        /\ m.id <= lastId /\ (~m.gone => m.id \notin forgotten)
        /\ ~m.gone /\ o.part = "forget" /\ ~Unfinished(records) => m.id # o.id
  BY <1>1, <1>2, BygoneRecord DEF At
<1>4. o.id <= lastId /\ (\A d \in o.doomed : d <= lastId) /\ \A i \in forgotten : i <= lastId
  BY DEF BygoneInv, Bygone
<1> HIDE DEF C, j, o
<1>5. Bygone(j, C, forgotten, lastId)
  BY <1>1, <1>3, <1>4 DEF Bygone
<1> QED BY <1>1, <1>2, <1>3, <1>4, <1>5, BygoneStep DEF C, j, o, Rest

LEMMA BygoneNew ==
  ASSUME Shaped, Single, BygoneInv, NEW p \in Procs, NEW old, CheckNew(p, old)
  PROVE  BygoneInv'
<1> DEFINE C == ToSet(Current(records))
           j == job'[p]
           o == job[p]
           r == NewRecord(p, old)
<1>1. /\ o.pc = "check" /\ j.pc = "append"
      /\ j.id = o.id /\ j.part = o.part /\ j.doomed = o.doomed
      /\ j.list = Append(Current(records), r)
      /\ \A q \in Procs : q # p => job'[q] = job[q]
  BY IndexEffects DEF Becomes
<1>2. /\ records' = records /\ lastId' = lastId + 1 /\ forgotten' = forgotten
      /\ lastId \in Nat /\ ToSet(Current(records))' = C
  BY DEF CheckNew, Shaped, TypeOK
<1>3. o.part = "store" /\ o.id \in Nat /\ o.doomed \subseteq Nat
  BY <1>1, Turn, JobFields DEF GoodJob
<1>4. r \in Items /\ r.id = lastId + 1
  BY ReadGood, NewRecordGood DEF CheckNew
<1>5. Last(j.list) = r
  <2>1. /\ Append(Current(records), r) \in Seq(Items)
        /\ Len(Append(Current(records), r)) = Len(Current(records)) + 1
        /\ Append(Current(records), r)[Len(Current(records)) + 1] = r
    BY <1>4, ActiveTyped, AppendProperties
  <2> QED BY <1>1, <2>1 DEF Last
<1>6. /\ o.id <= lastId /\ (\A d \in o.doomed : d <= lastId)
      /\ \A i \in forgotten : i <= lastId /\ i \in Nat
      /\ \A m \in C : m.id <= lastId /\ m.id \in Nat /\ (~m.gone => m.id \notin forgotten)
  BY ActiveTyped DEF BygoneInv, Bygone, Shaped, TypeOK
<1> HIDE DEF C, j, o, r
<1>7. /\ o.id <= lastId + 1 /\ (\A d \in o.doomed : d <= lastId + 1)
      /\ \A i \in forgotten : i <= lastId + 1
      /\ \A m \in C : m.id <= lastId + 1
      /\ lastId + 1 \notin forgotten
  BY <1>2, <1>3, <1>6
<1>8. Bygone(j, C, forgotten, lastId + 1)
  BY <1>1, <1>2, <1>3, <1>4, <1>5, <1>7 DEF Bygone, AfterAppend
<1>9. lastId' \in Nat /\ lastId <= lastId'
  BY <1>2
<1> QED BY <1>1, <1>2, <1>6, <1>7, <1>8, <1>9, BygoneStep DEF C, j, o, Rest

LEMMA BygoneNext ==
  ASSUME Shaped, Single, BygoneInv, NEW p \in Procs, ForgetNext(p) \/ Finish(p)
  PROVE  BygoneInv'
<1> DEFINE C == ToSet(Current(records))
           j == job'[p]
           o == job[p]
<1>1. /\ o.pc = "next"
      /\ j.pc \in {"find", "compact", "done"}
      /\ j.pc = "compact" => j.part = "last"
      /\ j.id = o.id \/ j.id \in o.doomed
      /\ j.doomed \subseteq o.doomed
      /\ \A q \in Procs : q # p => job'[q] = job[q]
  BY NextEffects DEF Becomes
<1>2. /\ records' = records /\ lastId' = lastId /\ forgotten' = forgotten \cup GoneBy(p)
      /\ lastId \in Nat /\ ToSet(Current(records))' = C
  BY DEF ForgetNext, Finish, Shaped, TypeOK
<1>3. /\ Bygone(o, C, forgotten, lastId)
      /\ \A i \in forgotten : i <= lastId
      /\ \A m \in C : m.id <= lastId /\ (~m.gone => m.id \notin forgotten)
  BY DEF BygoneInv
<1>4. GoneBy(p) = IF o.part = "forget" /\ ~o.joined THEN {o.id} ELSE {}
  BY DEF GoneBy
<1> HIDE DEF C, j, o, GoneBy
<1>5. /\ \A i \in GoneBy(p) : i <= lastId
      /\ \A m \in C : ~m.gone => m.id \notin GoneBy(p)
  BY <1>1, <1>3, <1>4 DEF Bygone, AfterAppend
<1>6. Bygone(j, C, forgotten', lastId)
  BY <1>1, <1>2, <1>3 DEF Bygone, AfterAppend
<1>7. /\ \A i \in forgotten' : i <= lastId
      /\ \A m \in C : m.id <= lastId /\ (~m.gone => m.id \notin forgotten')
  BY <1>2, <1>3, <1>5
<1>8. lastId' \in Nat /\ lastId <= lastId' /\ C = ToSet(Current(records))'
  BY <1>2
<1>9. /\ \A i \in forgotten' : i <= lastId'
      /\ \A m \in C : m.id <= lastId' /\ (~m.gone => m.id \notin forgotten')
      /\ Bygone(j, C, forgotten', lastId')
  BY <1>2, <1>6, <1>7
<1>10. /\ job[p].pc \notin Rest /\ Bygone(job'[p], C, forgotten', lastId')
       /\ \A q \in Procs : q # p => job'[q] = job[q]
  BY <1>1, <1>9 DEF Rest, o, j
<1> QED BY <1>8, <1>9, <1>10, BygoneStep

LEMMA BygoneCompact ==
  ASSUME Sound, Single, BygoneInv, NEW p \in Procs, NEW old, Compact(p, old)
  PROVE  BygoneInv'
<1> DEFINE C == ToSet(Current(records))
           j == job'[p]
           o == job[p]
           d == Len(digest) - old.mark
<1>1. /\ o.pc = "compact" /\ j.pc = "newRecords"
      /\ j.id = o.id /\ j.part = o.part /\ j.doomed = o.doomed /\ j.joined = o.joined
      /\ CompactionOf(C, d, j.list)
      /\ \A q \in Procs : q # p => job'[q] = job[q]
  BY CompactEffect DEF Becomes, Sound
<1>2. /\ records' = records /\ lastId' = lastId /\ forgotten' = forgotten
  BY DEF Compact
<1>3. /\ Bygone(o, C, forgotten, lastId)
      /\ \A m \in C : m.id <= lastId /\ (~m.gone => m.id \notin forgotten)
  BY DEF BygoneInv
<1> HIDE DEF C, j, o, d
<1>4. ASSUME NEW m \in ToSet(j.list)
      PROVE  /\ m.id <= lastId /\ m.id \notin forgotten
             /\ j.part = "forget" /\ ~j.joined => m.id # j.id
  <2>1. PICK n \in C : ~n.gone /\ n.id = m.id
    BY <1>1 DEF CompactionOf
  <2> QED BY <1>1, <1>3, <2>1 DEF Bygone, AfterAppend
<1>5. Bygone(j, C, forgotten, lastId)
  BY <1>1, <1>3, <1>4 DEF Bygone, AfterAppend
<1> QED BY <1>1, <1>2, <1>5, BygoneQuiet DEF C, j, o, Rest, Sound

\* The memories of a file that was rewritten, be it in part.
LEMMA BygoneFile ==
  ASSUME Shaped, BygoneInv, NEW p \in Procs, At(p, "newRecords"),
         NEW file \in Seq(Lines), ToSet(file) \ {Torn} \subseteq ToSet(job[p].list)
  PROVE  \A m \in ToSet(Current(file)) :
           /\ m.id <= lastId /\ m.id \notin forgotten
           /\ job[p].part = "forget" /\ ~job[p].joined => m.id # job[p].id
<1>1. ToSet(Current(file)) \subseteq ToSet(job[p].list)
  BY CurrentOwn
<1>2. Bygone(job[p], ToSet(Current(records)), forgotten, lastId)
  BY DEF BygoneInv
<1> QED BY <1>1, <1>2 DEF Bygone, At

LEMMA BygoneRewrite ==
  ASSUME Shaped, Single, BygoneInv, NEW p \in Procs, RewriteRecords(p)
  PROVE  BygoneInv'
<1> DEFINE C == ToSet(Current(records))'
           j == job'[p]
           o == job[p]
<1>1. /\ o.pc = "newRecords" /\ j.pc = "newIndex"
      /\ j.id = o.id /\ j.part = o.part /\ j.doomed = o.doomed /\ j.joined = o.joined
      /\ \A q \in Procs : q # p => job'[q] = job[q]
  BY GotoEffects DEF Goes, Becomes
<1>2. /\ records' = Written(o.list) /\ lastId' = lastId /\ forgotten' = forgotten
      /\ lastId \in Nat
  BY DEF RewriteRecords, Shaped, TypeOK
<1>3. o.list \in Seq(Items)
  BY JobFields DEF Shaped, TypeOK
<1>4. Written(o.list) \in Seq(Lines) /\ ToSet(Written(o.list)) \ {Torn} \subseteq ToSet(o.list)
  BY <1>3, ListWritten
<1>5. \A m \in C : /\ m.id <= lastId /\ m.id \notin forgotten
                   /\ o.part = "forget" /\ ~o.joined => m.id # o.id
  <2>1. C = ToSet(Current(Written(o.list)))
    BY <1>2
  <2> QED BY <1>1, <1>4, <2>1, BygoneFile DEF At
<1>6. o.id <= lastId /\ (\A d \in o.doomed : d <= lastId) /\ \A i \in forgotten : i <= lastId
  BY DEF BygoneInv, Bygone
<1> HIDE DEF C, j, o
<1>7. Bygone(j, C, forgotten, lastId)
  BY <1>1, <1>5, <1>6 DEF Bygone, AfterAppend
<1> QED BY <1>1, <1>2, <1>5, <1>6, <1>7, BygoneStep DEF C, j, o, Rest

LEMMA BygoneCut ==
  ASSUME Shaped, BygoneInv, NEW p \in Procs, Cut(p)
  PROVE  BygoneInv'
<1> DEFINE C == ToSet(Current(records))'
<1>1. /\ lastId' = lastId /\ forgotten' = forgotten /\ lastId \in Nat
      /\ records' \in RecordsCut(p)
  BY DEF Cut, Shaped, TypeOK
<1>2. \A m \in ToSet(Current(records)) : m.id <= lastId /\ (~m.gone => m.id \notin forgotten)
  BY DEF BygoneInv
<1>3. \A m \in C : m.id <= lastId /\ (~m.gone => m.id \notin forgotten)
  <2>1. CASE records' = records
    BY <1>2, <2>1
  <2>2. CASE At(p, "append") /\ records' = WithRecord(records, Record(p))
    BY <2>2, BygoneRecord
  <2>3. CASE records' = WithRecord(records, Torn)
    <3>1. records \in Seq(Lines) /\ Torn \in Lines
      BY ActiveTyped DEF Lines
    <3>2. /\ Unfinished(records) => WithRecord(records, Torn) = records
          /\ ~Unfinished(records) => ToSet(Current(WithRecord(records, Torn)))
                                       = After(ToSet(Current(records)), Torn)
      BY <3>1, RecordWritten
    <3>3. C = ToSet(Current(records))
      BY <2>3, <3>2 DEF After
    <3> QED BY <3>3, <1>2
  <2>4. CASE At(p, "newRecords") /\ records' \in Parts(Written(job[p].list))
    <3>1. job[p].list \in Seq(Items)
      BY JobFields DEF Shaped, TypeOK
    <3>2. /\ Written(job[p].list) \in Seq(Lines)
          /\ ToSet(Written(job[p].list)) \ {Torn} \subseteq ToSet(job[p].list)
      BY <3>1, ListWritten
    <3>3. records' \in Seq(Lines) /\ ToSet(records') \ {Torn} \subseteq ToSet(Written(job[p].list))
      BY <2>4, <3>2, PartWritten
    <3>4. ToSet(records') \ {Torn} \subseteq ToSet(job[p].list)
      BY <3>2, <3>3
    <3> DEFINE file == records'
    <3>5. file \in Seq(Lines) /\ ToSet(file) \ {Torn} \subseteq ToSet(job[p].list)
      BY <3>3, <3>4
    <3> HIDE DEF file
    <3>6. \A m \in ToSet(Current(file)) : m.id <= lastId /\ m.id \notin forgotten
      BY <2>4, <3>5, BygoneFile
    <3> QED BY <3>6 DEF file
  <2> QED BY <1>1, <2>1, <2>2, <2>3, <2>4 DEF RecordsCut
<1>4. \A q \in Procs : /\ job'[q].pc \in {"create", "idle"} /\ job'[q].id = 0
                       /\ job'[q].doomed = {}
  BY DEF Cut, Quiet
<1> HIDE DEF C
<1>5. \A q \in Procs : Bygone(job'[q], C, forgotten, lastId)
  BY <1>1, <1>4 DEF Bygone, AfterAppend
<1> QED BY <1>1, <1>3, <1>5 DEF BygoneInv, C

LEMMA BygoneCalls ==
  ASSUME Shaped, Single, BygoneInv, NEW w \in Writers
  PROVE  /\ \A fact \in Facts, label \in Labels, replace \in BOOLEAN :
              BeginStore(w, fact, label, replace) => BygoneInv'
         /\ \A fact \in Facts, label \in Labels, id \in 1..lastId :
              BeginUpdate(w, id, fact, label) => BygoneInv'
         /\ \A id \in 1..lastId : BeginForget(w, id) => BygoneInv'
         /\ \A label \in Labels : Recall(w, label) => BygoneInv'
         /\ Return(w) => BygoneInv'
<1> DEFINE C == ToSet(Current(records))
           j == job'[w]
<1>1. w \in Procs /\ w # Main /\ lastId \in Nat
  BY MemoryAssumption DEF Procs, Shaped, TypeOK
<1>2. ASSUME Up \/ job[w].pc \notin Rest, \A q \in Procs : q # w => job'[q] = job[q],
             records' = records /\ lastId' = lastId /\ forgotten' = forgotten,
             j.pc \in {"check", "find", "idle"},
             j.id \in 0..lastId, j.doomed \subseteq 1..lastId
      PROVE  BygoneInv'
  <2>1. j.id <= lastId /\ \A d \in j.doomed : d <= lastId
    BY <1>1, <1>2
  <2> HIDE DEF j, C
  <2>2. Bygone(j, C, forgotten, lastId)
    BY <1>2, <2>1 DEF Bygone, AfterAppend
  <2> QED BY <1>1, <1>2, <2>2, BygoneQuiet DEF C, j
<1>3. ASSUME NEW fact \in Facts, NEW label \in Labels, NEW replace \in BOOLEAN,
             BeginStore(w, fact, label, replace)
      PROVE  BygoneInv'
  <2>1. /\ Up /\ j.pc = "check" /\ j.id = 0 /\ j.doomed = {}
        /\ \A q \in Procs : q # w => job'[q] = job[q]
    <3>1. /\ Up /\ job[w].pc = "idle"
          /\ Becomes(w, "check", "store", fact, label, 0, "store", {}, replace,
                     TRUE, FALSE, <<>>, NewIndex)
      BY <1>3, CallEffects, Zenon
    <3> QED BY <3>1 DEF Becomes
  <2>2. records' = records /\ lastId' = lastId /\ forgotten' = forgotten
    BY <1>3 DEF BeginStore, Begin
  <2> QED BY <1>1, <1>2, <2>1, <2>2
<1>4. ASSUME NEW fact \in Facts, NEW label \in Labels, NEW id \in 1..lastId,
             BeginUpdate(w, id, fact, label)
      PROVE  BygoneInv'
  <2>1. /\ Up /\ j.pc = "check" /\ j.id = id /\ j.doomed = {id}
        /\ \A q \in Procs : q # w => job'[q] = job[q]
    <3>1. /\ Up /\ job[w].pc = "idle"
          /\ Becomes(w, "check", "update", fact, label, id, "store", {id}, FALSE,
                     TRUE, FALSE, <<>>, NewIndex)
      BY <1>4, CallEffects, Zenon
    <3> QED BY <3>1 DEF Becomes
  <2>2. records' = records /\ lastId' = lastId /\ forgotten' = forgotten
    BY <1>4 DEF BeginUpdate, Begin
  <2> QED BY <1>1, <1>2, <2>1, <2>2
<1>5. ASSUME NEW id \in 1..lastId, BeginForget(w, id)
      PROVE  BygoneInv'
  <2>1. /\ Up /\ j.pc = "find" /\ j.id = id /\ j.doomed = {}
        /\ \A q \in Procs : q # w => job'[q] = job[q]
    BY <1>5, CallEffects DEF Becomes
  <2>2. records' = records /\ lastId' = lastId /\ forgotten' = forgotten
    BY <1>5 DEF BeginForget, Begin
  <2> QED BY <1>1, <1>2, <2>1, <2>2
<1>6. ASSUME NEW label \in Labels, Recall(w, label)
      PROVE  BygoneInv'
  <2>1. records' = records /\ lastId' = lastId /\ forgotten' = forgotten /\ job' = job
    BY <1>6 DEF Recall
  <2> QED BY <2>1 DEF BygoneInv
<1>7. ASSUME Return(w) PROVE BygoneInv'
  <2>1. /\ job[w].pc \notin Rest /\ j.pc = "idle" /\ j.id = 0 /\ j.doomed = {}
        /\ \A q \in Procs : q # w => job'[q] = job[q]
    BY <1>7, CallEffects DEF Becomes, Rest
  <2>2. records' = records /\ lastId' = lastId /\ forgotten' = forgotten
    BY <1>7 DEF Return
  <2> QED BY <1>1, <1>2, <2>1, <2>2
<1> QED BY <1>3, <1>4, <1>5, <1>6, <1>7

LEMMA BygoneInvStep == Sound /\ Single /\ BygoneInv /\ [Next]_vars => BygoneInv'
<1> SUFFICES ASSUME Sound, Single, BygoneInv, [Next]_vars PROVE BygoneInv'
  OBVIOUS
<1>1. Shaped /\ Writers \subseteq Procs /\ Main \in Procs
  BY DEF Sound, Procs
<1>2. CASE Next
  <2>1. \A w \in Writers : OpenFails(w) => BygoneInv'
    BY <1>1, BygoneStages
  <2>2. Create => BygoneInv'
    BY <1>1, BygoneStages
  <2> QED BY <1>1, <1>2, <2>1, <2>2, NextCases, BygoneStages, BygoneQuieter, BygoneAppend,
             BygoneNew, BygoneNext, BygoneCompact, BygoneRewrite, BygoneCut, BygoneCalls, Zenon
<1>3. CASE UNCHANGED vars
  BY <1>3 DEF vars, BygoneInv
<1> QED BY <1>2, <1>3

LEMMA BygoneInit == Init => BygoneInv
<1> SUFFICES ASSUME Init PROVE BygoneInv
  OBVIOUS
<1>1. ToSet(Current(records)) = {}
  BY CurrentEmpty DEF Init
<1>2. \A p \in Procs : job[p].pc \in {"create", "idle"} /\ job[p].id = 0 /\ job[p].doomed = {}
  BY DEF Init, Quiet
<1>3. lastId = 0 /\ forgotten = {}
  BY DEF Init
<1> QED BY <1>1, <1>2, <1>3 DEF BygoneInv, Bygone, AfterAppend

\* With one task that stores and forgets, a memory whose forgetting was
\* answered with success does not come back: neither through a compaction that
\* rewrites the file, nor a restart that finds part of a file, nor under an id
\* that is given again.
THEOREM ForgottenStays ==
  ASSUME Single
  PROVE  Spec => []ForgottenStaysGone
<1>1. Sound /\ BygoneInv => ForgottenStaysGone
  BY ActiveTyped DEF BygoneInv, Sound, ForgottenStaysGone
<1>2. Init => Sound /\ BygoneInv
  BY SoundAlways, BygoneInit
<1>3. Sound /\ BygoneInv /\ [Next]_vars => (Sound /\ BygoneInv)'
  BY SoundStep, BygoneInvStep
<1> QED BY <1>1, <1>2, <1>3, PTL DEF Spec

-----------------------------------------------------------------------------
(* Compactions count no recall twice, unless something went wrong.           *)

Troubles == cuts + faults

Upto(S, n) == \A m \in S : m.access <= n

\* How far the digest was counted, as the index tells the next compaction.
Counting == IF index \in Indexes THEN index.mark ELSE 0

\* A trouble allows for one count of the whole digest more (base), and what
\* the index tells for the part that was counted since.
Tallied(j, C, base, mark) ==
  /\ j.pc # "newIndex" => Upto(C, base + mark)
  /\ j.pc \in {"newIndex", "index"} => Upto(C, base + j.idx.mark)
  /\ j.pc = "append" /\ j.part = "store" =>
       Upto(C, base + j.idx.mark) /\ Last(j.list).access = 0
  /\ j.pc = "append" /\ j.part = "forget" => Upto(ToSet(j.list), base + mark)
  /\ j.pc = "newRecords" => Upto(ToSet(j.list), base + j.idx.mark)

TallyInv ==
  LET C == ToSet(Current(records))
      base == Troubles * Len(digest)
  IN  /\ \A p \in Procs : job[p].pc \notin Rest => Tallied(job[p], C, base, Counting)
      /\ (\A p \in Procs : job[p].pc \in Rest) => Upto(C, base + Counting)

LEMMA Product ==
  ASSUME NEW k \in Nat, NEW l \in Nat
  PROVE  k * l \in Nat /\ (k + 1) * l = k * l + l
OBVIOUS

LEMMA ProductGrows ==
  ASSUME NEW k \in Nat, NEW l \in Nat, NEW m \in Nat, l <= m
  PROVE  k * l <= k * m
<1>1. k * (m - l) >= 0 /\ m - l \in Nat
  OBVIOUS
<1>2. k * m = k * l + k * (m - l)
  OBVIOUS
<1> QED BY <1>1, <1>2, Product

LEMMA TallyTyped ==
  ASSUME Sound
  PROVE  /\ Troubles \in Nat /\ Len(digest) \in Nat /\ Troubles * Len(digest) \in Nat
         /\ Counting \in Nat /\ Counting <= Len(digest)
         /\ \A p \in Procs : job[p].idx.mark \in Nat /\ job[p].idx.mark <= Len(digest)
         /\ \A m \in ToSet(Current(records)) : m.access \in Nat
<1>1. Troubles \in Nat /\ Len(digest) \in Nat
  BY LenProperties DEF Sound, Shaped, TypeOK, Troubles
<1>2. Counting \in Nat /\ Counting <= Len(digest)
  BY <1>1 DEF Sound, MarkBounded, Counting, Indexes
<1>3. \A p \in Procs : job[p].idx.mark \in Nat /\ job[p].idx.mark <= Len(digest)
  <2>1. \A p \in Procs : job[p].idx \in Indexes
    BY JobFields DEF Sound, Shaped, TypeOK
  <2> QED BY <2>1 DEF Sound, MarkBounded, Indexes
<1>4. \A m \in ToSet(Current(records)) : m.access \in Nat
  BY ActiveTyped DEF Sound, Items
<1> QED BY <1>1, <1>2, <1>3, <1>4, Product

\* What holds of the file when p takes a step.
LEMMA TallyNow ==
  ASSUME Sound, Single, TallyInv, NEW p \in Procs,
         job[p].pc \notin Rest \/ (p # Main /\ Up)
  PROVE  LET C == ToSet(Current(records))
             base == Troubles * Len(digest)
         IN  /\ job[p].pc # "newIndex" => Upto(C, base + Counting)
             /\ job[p].pc \notin Rest => Tallied(job[p], C, base, Counting)
<1> DEFINE C == ToSet(Current(records))
           base == Troubles * Len(digest)
<1>1. \A q \in Procs : q # p => job[q].pc \in Rest
  BY OthersRest DEF Sound
<1>2. CASE job[p].pc \in Rest
  <2>1. Upto(C, base + Counting)
    BY <1>1, <1>2 DEF TallyInv
  <2> QED BY <1>2, <2>1
<1>3. CASE job[p].pc \notin Rest
  <2>1. Tallied(job[p], C, base, Counting)
    BY <1>3 DEF TallyInv
  <2> QED BY <2>1 DEF Tallied
<1> QED BY <1>2, <1>3

\* What is to show of a step of p.
LEMMA TallyStep ==
  ASSUME Sound, Single, NEW p \in Procs,
         job[p].pc \notin Rest \/ (p # Main /\ Up),
         \A q \in Procs : q # p => job'[q] = job[q],
         NEW C, C = ToSet(Current(records))',
         NEW base, base = (Troubles * Len(digest))',
         Tallied(job'[p], C, base, Counting')
  PROVE  TallyInv'
<1>1. \A q \in Procs : q # p => job'[q].pc \in Rest
  BY OthersRest DEF Sound
<1>2. job'[p].pc \in Rest => Upto(C, base + Counting')
  BY DEF Tallied, Rest
<1> QED BY <1>1, <1>2 DEF TallyInv

\* What is to show of a step of p that leaves the files and the troubles.
LEMMA TallyQuiet ==
  ASSUME Sound, Single, TallyInv, NEW p \in Procs,
         job[p].pc \notin Rest \/ (p # Main /\ Up),
         \A q \in Procs : q # p => job'[q] = job[q],
         records' = records, index' = index, digest' = digest,
         cuts' = cuts, faults' = faults,
         job[p].pc # "newIndex",
         job'[p].pc \notin {"newIndex", "index", "append", "newRecords"}
  PROVE  TallyInv'
<1> DEFINE C == ToSet(Current(records))
           base == Troubles * Len(digest)
<1>1. Upto(C, base + Counting)
  BY TallyNow
<1>2. C = ToSet(Current(records))' /\ base = (Troubles * Len(digest))' /\ Counting' = Counting
  BY DEF Troubles, Counting
<1> HIDE DEF C, base
<1>3. Tallied(job'[p], C, base, Counting')
  BY <1>1, <1>2 DEF Tallied
<1> QED BY <1>2, <1>3, TallyStep

LEMMA TallyStages ==
  ASSUME Sound, Single, TallyInv, NEW p \in Procs
  PROVE  /\ IndexUnread(p) => TallyInv'
         /\ SyncMarkdown(p) => TallyInv'
         /\ CompactEnd(p) => TallyInv'
         /\ CheckKnown(p) => TallyInv'
         /\ NotFound(p) => TallyInv'
         /\ Conflicts(p) => TallyInv'
         /\ ForgetNext(p) => TallyInv'
         /\ Finish(p) => TallyInv'
<1> DEFINE act == \/ IndexUnread(p) \/ SyncMarkdown(p) \/ CompactEnd(p) \/ CheckKnown(p)
                  \/ NotFound(p) \/ Conflicts(p) \/ ForgetNext(p) \/ Finish(p)
<1> SUFFICES ASSUME act PROVE TallyInv'
  OBVIOUS
<1>1. /\ records' = records /\ index' = index /\ digest' = digest
      /\ cuts' = cuts /\ faults' = faults
  BY DEF IndexUnread, SyncMarkdown, CompactEnd, CheckKnown, NotFound, Conflicts,
         ForgetNext, Finish
<1>2. /\ job[p].pc \in {"check", "reload", "compact", "markdown", "newMarkdown", "find", "next"}
      /\ job'[p].pc \in {"up", "failed", "compact", "next", "find", "done"}
      /\ \A q \in Procs : q # p => job'[q] = job[q]
  <2>1. Shaped
    BY DEF Sound
  <2>2. IndexUnread(p) \/ SyncMarkdown(p) \/ CompactEnd(p)
        => /\ job[p].pc \in {"check", "reload", "compact", "markdown", "newMarkdown"}
           /\ job'[p].pc \in {"up", "failed", "compact", "next"}
           /\ \A q \in Procs : q # p => job'[q] = job[q]
    BY <2>1, GotoEffects DEF Goes, Becomes
  <2>3. CheckKnown(p) \/ NotFound(p) \/ Conflicts(p)
        => /\ job[p].pc \in {"check", "find", "next"}
           /\ job'[p].pc \in {"next", "failed"}
           /\ \A q \in Procs : q # p => job'[q] = job[q]
    BY <2>1, StoreEffects DEF Becomes
  <2>4. ForgetNext(p) \/ Finish(p)
        => /\ job[p].pc = "next"
           /\ job'[p].pc \in {"find", "compact", "done"}
           /\ \A q \in Procs : q # p => job'[q] = job[q]
    BY <2>1, NextEffects DEF Becomes
  <2> QED BY <2>2, <2>3, <2>4
<1> QED BY <1>1, <1>2, TallyQuiet DEF Rest

LEMMA TallyCreate == Sound /\ Single /\ TallyInv /\ Create => TallyInv'
<1> SUFFICES ASSUME Sound, Single, TallyInv, Create PROVE TallyInv'
  OBVIOUS
<1> DEFINE C == ToSet(Current(records))
           base == Troubles * Len(digest)
<1>1. Main \in Procs
  BY DEF Procs
<1>2. /\ job[Main].pc = "create" /\ job'[Main].pc = "compact"
      /\ \A q \in Procs : q # Main => job'[q] = job[q]
  BY <1>1, GotoEffects DEF Goes, Becomes, Sound
<1>3. Upto(C, base + Counting)
  BY <1>1, <1>2, TallyNow DEF Rest
<1>4. Counting' = Counting
  <2>1. index' = IF index = Missing THEN NewIndex ELSE index
    BY DEF Create
  <2>2. NewIndex.mark = 0 /\ NewIndex \in Indexes
    BY NewIndexGood DEF GoodIndex, NewIndex
  <2> HIDE DEF NewIndex
  <2> QED BY <2>1, <2>2, MemoryAssumption DEF Counting
<1>5. C = ToSet(Current(records))' /\ base = (Troubles * Len(digest))'
  BY DEF Create, Troubles
<1> HIDE DEF C, base
<1>6. Tallied(job'[Main], C, base, Counting')
  BY <1>2, <1>3, <1>4 DEF Tallied
<1> QED BY <1>1, <1>2, <1>5, <1>6, TallyStep DEF Rest

LEMMA TallySave ==
  ASSUME Sound, Single, TallyInv, NEW p \in Procs, SaveIndex(p)
  PROVE  TallyInv'
<1> DEFINE C == ToSet(Current(records))
           base == Troubles * Len(digest)
           o == job[p]
           j == job'[p]
<1>1. /\ o.pc \in {"index", "newIndex"} /\ j.pc \in {"markdown", "newMarkdown"}
      /\ \A q \in Procs : q # p => job'[q] = job[q]
  BY GotoEffects DEF Goes, Becomes, Sound
<1>2. Upto(C, base + o.idx.mark)
  BY <1>1, TallyNow DEF Rest, Tallied
<1>3. Counting' = o.idx.mark
  <2>1. index' = o.idx /\ o.idx \in Indexes
    BY JobFields DEF SaveIndex, Sound, Shaped, TypeOK
  <2> QED BY <2>1 DEF Counting
<1>4. C = ToSet(Current(records))' /\ base = (Troubles * Len(digest))'
  BY DEF SaveIndex, Troubles
<1> HIDE DEF C, base, o, j
<1>5. Tallied(j, C, base, Counting')
  BY <1>1, <1>2, <1>3 DEF Tallied
<1> QED BY <1>1, <1>4, <1>5, TallyStep DEF Rest, o, j

\* One trouble more allows for what any count may have left.
LEMMA TallyTrouble ==
  ASSUME Sound, NEW S, NEW n \in Nat, n <= Len(digest),
         \A m \in S : m.access \in Nat, Upto(S, Troubles * Len(digest) + n),
         NEW mark \in Nat
  PROVE  Upto(S, (Troubles + 1) * Len(digest) + mark)
<1>1. /\ Troubles \in Nat /\ Len(digest) \in Nat /\ Troubles * Len(digest) \in Nat
      /\ (Troubles + 1) * Len(digest) = Troubles * Len(digest) + Len(digest)
  BY TallyTyped, Product
<1> DEFINE base == Troubles * Len(digest)
           next == (Troubles + 1) * Len(digest)
<1>2. base \in Nat /\ next = base + Len(digest) /\ Upto(S, base + n)
  BY <1>1
<1> HIDE DEF base, next
<1>3. Upto(S, next + mark)
  BY <1>1, <1>2 DEF Upto
<1> QED BY <1>3 DEF next

LEMMA TallyOpenFails ==
  ASSUME Sound, Single, TallyInv, NEW w \in Writers, OpenFails(w)
  PROVE  TallyInv'
<1> DEFINE C == ToSet(Current(records))
           o == job[w]
           j == job'[w]
<1>1. w \in Procs
  BY DEF Procs
<1>2. /\ o.pc \in {"append", "index", "markdown", "newRecords", "newIndex", "newMarkdown"}
      /\ j.pc = "failed"
      /\ \A q \in Procs : q # w => job'[q] = job[q]
  BY <1>1, GotoEffects DEF Goes, Becomes, Sound
<1>3. \E n \in Nat : n <= Len(digest) /\ Upto(C, Troubles * Len(digest) + n)
  <2>1. Tallied(o, C, Troubles * Len(digest), Counting)
    BY <1>1, <1>2, TallyNow DEF Rest
  <2>2. CASE o.pc = "newIndex"
    BY <1>1, <2>1, <2>2, TallyTyped DEF Tallied
  <2>3. CASE o.pc # "newIndex"
    BY <1>1, <2>1, <2>3, TallyTyped DEF Tallied
  <2> QED BY <2>2, <2>3
<1>4. /\ Counting' = Counting /\ Counting \in Nat
      /\ C = ToSet(Current(records))'
      /\ (Troubles * Len(digest))' = (Troubles + 1) * Len(digest)
  <2>1. /\ index' = index /\ records' = records /\ digest' = digest
        /\ cuts' = cuts /\ faults' = faults + 1 /\ cuts \in Nat /\ faults \in Nat
    BY DEF OpenFails, Sound, Shaped, TypeOK
  <2>2. Troubles' = Troubles + 1
    BY <2>1 DEF Troubles
  <2> QED BY <2>1, <2>2, TallyTyped DEF Counting
<1>5. Upto(C, (Troubles + 1) * Len(digest) + Counting')
  BY <1>3, <1>4, TallyTyped, TallyTrouble
<1> DEFINE base == (Troubles + 1) * Len(digest)
<1>6. base = (Troubles * Len(digest))' /\ Upto(C, base + Counting')
  BY <1>4, <1>5
<1> HIDE DEF C, base, o, j
<1>7. Tallied(j, C, base, Counting')
  BY <1>2, <1>6 DEF Tallied
<1> QED BY <1>1, <1>2, <1>4, <1>6, <1>7, TallyStep DEF Rest, o, j

LEMMA TallyAppend ==
  ASSUME Sound, Single, TallyInv, NEW p \in Procs, AppendRecord(p)
  PROVE  TallyInv'
<1> DEFINE C == ToSet(Current(records))
           D == ToSet(Current(records))'
           base == Troubles * Len(digest)
           o == job[p]
           j == job'[p]
           r == Record(p)
<1>1. /\ o.pc = "append" /\ j.pc = (IF o.part = "store" THEN "index" ELSE "reload")
      /\ j.part = o.part /\ j.list = o.list /\ j.idx = o.idx
      /\ \A q \in Procs : q # p => job'[q] = job[q]
  BY StoreEffects DEF Becomes, Sound
<1>2. /\ Tallied(o, C, base, Counting) /\ base \in Nat /\ Counting \in Nat /\ o.idx.mark \in Nat
  BY <1>1, TallyNow, TallyTyped DEF Rest
<1>3. /\ r \in ToSet(o.list)
      /\ o.part = "store" => r = Last(o.list)
      /\ o.part \in {"store", "forget"}
  BY <1>1, RecordTyped, Turn DEF At, Sound, GoodJob
<1>4. D = C \/ D = {m \in C : m.id # r.id} \cup {r}
  <2>1. records' = WithRecord(records, r) /\ Shaped /\ At(p, "append")
    BY DEF AppendRecord, Sound
  <2> QED BY <2>1, Appended
<1>5. base = (Troubles * Len(digest))' /\ Counting' = Counting
  BY DEF AppendRecord, Troubles, Counting
<1> HIDE DEF C, D, base, o, j, r
<1>6. Upto(C, base + Counting)
  BY <1>1, <1>2 DEF Tallied
<1>7. r.access <= base + Counting
  <2>1. CASE o.part = "store"
    BY <1>1, <1>2, <1>3, <2>1 DEF Tallied
  <2>2. CASE o.part = "forget"
    BY <1>1, <1>2, <1>3, <2>2 DEF Tallied, Upto
  <2> QED BY <1>3, <2>1, <2>2
<1>8. Upto(D, base + Counting)
  BY <1>4, <1>6, <1>7 DEF Upto
<1>9. j.pc = "index" => Upto(D, base + j.idx.mark)
  <2>1. SUFFICES ASSUME o.part = "store" PROVE Upto(D, base + o.idx.mark)
    BY <1>1
  <2>2. r.access <= base + o.idx.mark /\ Upto(C, base + o.idx.mark)
    BY <1>1, <1>2, <1>3, <2>1 DEF Tallied
  <2> QED BY <2>2, <1>4 DEF Upto
<1>10. Tallied(j, D, base, Counting')
  BY <1>1, <1>5, <1>8, <1>9 DEF Tallied
<1> QED BY <1>1, <1>5, <1>10, TallyStep DEF Rest, o, j, D

LEMMA TallyFind ==
  ASSUME Sound, Single, TallyInv, NEW p \in Procs, Find(p)
  PROVE  TallyInv'
<1> DEFINE C == ToSet(Current(records))
           base == Troubles * Len(digest)
           o == job[p]
           j == job'[p]
<1>1. /\ o.pc = "find" /\ j.pc = "append" /\ j.part = o.part
      /\ j.list = Marked(Current(records), o.id)
      /\ \A q \in Procs : q # p => job'[q] = job[q]
  BY StoreEffects DEF Becomes, Sound
<1>2. Upto(C, base + Counting) /\ o.part = "forget"
  BY <1>1, TallyNow, Turn DEF Rest, Sound, GoodJob
<1>3. \A m \in ToSet(j.list) : \E n \in C : m.access = n.access
  BY <1>1, MarkedList DEF Sound
<1>4. C = ToSet(Current(records))' /\ base = (Troubles * Len(digest))' /\ Counting' = Counting
  BY DEF Find, Troubles, Counting
<1> HIDE DEF C, base, o, j
<1>5. Tallied(j, C, base, Counting')
  BY <1>1, <1>2, <1>3, <1>4 DEF Tallied, Upto
<1> QED BY <1>1, <1>4, <1>5, TallyStep DEF Rest, o, j

\* What reading the index, or failing to, allows for.
LEMMA TallyRead ==
  ASSUME Sound, NEW p \in Procs, At(p, "check") \/ At(p, "reload") \/ At(p, "compact"),
         NEW old, Read(old), cuts' = cuts, digest' = digest, index' = index,
         Upto(ToSet(Current(records)), Troubles * Len(digest) + Counting)
  PROVE  /\ (Troubles * Len(digest))' = Troubles' * Len(digest)
         /\ Troubles' \in Nat /\ Counting' = Counting /\ old.mark \in Nat
         /\ Upto(ToSet(Current(records)), Troubles' * Len(digest) + old.mark)
         /\ Upto(ToSet(Current(records)), Troubles' * Len(digest) + Counting)
<1> DEFINE C == ToSet(Current(records))
<1>1. /\ (Troubles * Len(digest))' = Troubles' * Len(digest)
      /\ Counting' = Counting
  BY DEF Counting
<1>2. /\ old \in Indexes /\ old.mark \in Nat
      /\ \/ old = index /\ faults' = faults
         \/ old = NewIndex /\ faults' = faults + 1
  BY ReadGood, ReadMark DEF Sound
<1>3. CASE old = index /\ faults' = faults
  <2>1. Troubles' = Troubles /\ Counting = old.mark
    BY <1>2, <1>3 DEF Troubles, Counting
  <2> QED BY <1>1, <1>2, <2>1, TallyTyped
<1>4. CASE old = NewIndex /\ faults' = faults + 1
  <2>1. Troubles' = Troubles + 1 /\ old.mark = 0
    BY <1>4 DEF Troubles, NewIndex, Sound, Shaped, TypeOK
  <2>2. /\ Counting \in Nat /\ Counting <= Len(digest) /\ \A m \in C : m.access \in Nat
        /\ Troubles \in Nat
    BY TallyTyped
  <2> HIDE DEF C
  <2>3. /\ Upto(C, (Troubles + 1) * Len(digest) + old.mark)
        /\ Upto(C, (Troubles + 1) * Len(digest) + Counting)
    BY <1>2, <2>2, TallyTrouble DEF C
  <2>4. Troubles' \in Nat
    BY <2>1, <2>2
  <2> QED BY <1>1, <1>2, <2>1, <2>3, <2>4 DEF C
<1> QED BY <1>2, <1>3, <1>4

LEMMA TallyNew ==
  ASSUME Sound, Single, TallyInv, NEW p \in Procs, NEW old, CheckNew(p, old)
  PROVE  TallyInv'
<1> DEFINE C == ToSet(Current(records))
           base == Troubles' * Len(digest)
           o == job[p]
           j == job'[p]
           r == NewRecord(p, old)
           idx == WithLabel(old, o.label, 0)
           sid == idx.sums[o.label].sid
           last == WithRefs(idx, sid, 1)
<1>1. /\ o.pc = "check" /\ j.pc = "append" /\ j.part = o.part
      /\ j.list = Append(Current(records), r) /\ j.idx = last
      /\ \A q \in Procs : q # p => job'[q] = job[q]
  BY IndexEffects DEF Becomes, Sound
<1>2. At(p, "check") /\ Read(old) /\ o.part = "store"
  BY <1>1, Turn DEF CheckNew, Sound, GoodJob
<1>3. /\ records' = records /\ cuts' = cuts /\ digest' = digest /\ index' = index
  BY DEF CheckNew
<1>4. Upto(C, Troubles * Len(digest) + Counting)
  BY <1>1, TallyNow DEF Rest
<1>5. /\ (Troubles * Len(digest))' = base /\ Counting' = Counting
      /\ Upto(C, base + old.mark) /\ Upto(C, base + Counting)
  BY <1>2, <1>3, <1>4, TallyRead
<1>6. /\ r \in Items /\ r.access = 0
      /\ LabelAdded(old, o.label, idx) /\ RefsMoved(idx, sid, 1, last)
  BY <1>2, ReadGood, NewRecordGood DEF Sound
<1>7. j.idx.mark = old.mark
  BY <1>1, <1>6 DEF LabelAdded, RefsMoved
<1>8. Last(j.list) = r
  <2>1. /\ Append(Current(records), r) \in Seq(Items)
        /\ Len(Append(Current(records), r)) = Len(Current(records)) + 1
        /\ Append(Current(records), r)[Len(Current(records)) + 1] = r
    BY <1>6, ActiveTyped, AppendProperties DEF Sound
  <2> QED BY <1>1, <2>1 DEF Last
<1>9. C = ToSet(Current(records))'
  BY <1>3
<1> HIDE DEF C, base, o, j, r, idx, sid, last
<1>10. Tallied(j, C, base, Counting')
  BY <1>1, <1>2, <1>5, <1>6, <1>7, <1>8 DEF Tallied
<1> QED BY <1>1, <1>5, <1>9, <1>10, TallyStep DEF Rest, o, j

LEMMA TallyReload ==
  ASSUME Sound, Single, TallyInv, NEW p \in Procs, NEW old, Reload(p, old)
  PROVE  TallyInv'
<1> DEFINE C == ToSet(Current(records))
           base == Troubles' * Len(digest)
           o == job[p]
           j == job'[p]
           less == WithRefs(old, Record(p).sid, -1)
           last == WithoutUnused(less)
<1>1. /\ o.pc = "reload" /\ j.pc = "index" /\ j.idx = last
      /\ \A q \in Procs : q # p => job'[q] = job[q]
  BY IndexEffects DEF Becomes, Sound
<1>2. At(p, "reload") /\ Read(old) /\ Shaped
  BY DEF Reload, Sound
<1>3. /\ records' = records /\ cuts' = cuts /\ digest' = digest /\ index' = index
  BY DEF Reload
<1>4. Upto(C, Troubles * Len(digest) + Counting)
  BY <1>1, TallyNow DEF Rest
<1>5. /\ (Troubles * Len(digest))' = base /\ Counting' = Counting
      /\ Upto(C, base + old.mark) /\ Upto(C, base + Counting)
  BY <1>2, <1>3, <1>4, TallyRead
<1>6. RefsMoved(old, Record(p).sid, -1, less)
  <2>1. Record(p) \in Items
    BY <1>2, RecordTyped
  <2>2. Record(p).sid \in Nat /\ -1 \in Int
    BY <2>1 DEF Items
  <2> QED BY <2>2, <1>2, ReadGood, WithRefsGood
<1>7. UnusedDropped(less, last)
  BY <1>6, WithoutUnusedGood DEF RefsMoved
<1>8. j.idx.mark = old.mark
  BY <1>1, <1>6, <1>7 DEF UnusedDropped, RefsMoved
<1>9. C = ToSet(Current(records))'
  BY <1>3
<1> HIDE DEF C, base, o, j, less, last
<1>10. Tallied(j, C, base, Counting')
  BY <1>1, <1>5, <1>8 DEF Tallied
<1> QED BY <1>1, <1>5, <1>9, <1>10, TallyStep DEF Rest, o, j

LEMMA TallyCompact ==
  ASSUME Sound, Single, TallyInv, NEW p \in Procs, NEW old, Compact(p, old)
  PROVE  TallyInv'
<1> DEFINE C == ToSet(Current(records))
           base == Troubles' * Len(digest)
           o == job[p]
           j == job'[p]
<1>1. PICK list \in Seq(Items) :
        /\ o.pc = "compact" /\ j.pc = "newRecords"
        /\ Read(old) /\ old.mark \in Nat /\ old.mark <= Len(digest)
        /\ j.list = Relabelled(list, old).list /\ j.idx = Relabelled(list, old).idx
        /\ CompactionOf(C, Len(digest) - old.mark, j.list)
        /\ RelabelOf(list, Len(list), Relabelled(list, old))
        /\ \A q \in Procs : q # p => job'[q] = job[q]
  BY CompactEffect DEF Becomes, Sound
<1>2. j.idx.mark = Len(digest)
  BY <1>1 DEF RelabelOf
<1>3. /\ records' = records /\ cuts' = cuts /\ digest' = digest /\ index' = index
  BY DEF Compact
<1>4. Upto(C, Troubles * Len(digest) + Counting)
  BY <1>1, TallyNow DEF Rest
<1>5. /\ (Troubles * Len(digest))' = base /\ Counting' = Counting
      /\ Upto(C, base + old.mark) /\ Upto(C, base + Counting) /\ Troubles' \in Nat
  BY <1>1, <1>3, <1>4, TallyRead DEF At
<1>6. Len(digest) \in Nat /\ base \in Nat /\ \A m \in C : m.access \in Nat
  BY <1>5, TallyTyped, Product
<1>7. \A m \in ToSet(j.list) : m.access \in Nat
  <2>1. ToSet(j.list) \subseteq Items
    BY <1>1, ToSetSeq DEF CompactionOf
  <2> QED BY <2>1 DEF Items
<1>8. C = ToSet(Current(records))'
  BY <1>3
<1> HIDE DEF C, base, o, j
<1>9. Upto(ToSet(j.list), base + Len(digest))
  <2>1. SUFFICES ASSUME NEW m \in ToSet(j.list) PROVE m.access <= base + Len(digest)
    BY DEF Upto
  <2>2. PICK n \in C : m.access <= n.access + (Len(digest) - old.mark)
    BY <1>1 DEF CompactionOf
  <2>3. n.access <= base + old.mark
    BY <1>5 DEF Upto
  <2> QED BY <1>1, <1>6, <1>7, <2>2, <2>3
<1>10. Tallied(j, C, base, Counting')
  BY <1>1, <1>2, <1>5, <1>9 DEF Tallied
<1> QED BY <1>1, <1>5, <1>8, <1>10, TallyStep DEF Rest, o, j

LEMMA TallyRewrite ==
  ASSUME Sound, Single, TallyInv, NEW p \in Procs, RewriteRecords(p)
  PROVE  TallyInv'
<1> DEFINE D == ToSet(Current(records))'
           base == Troubles * Len(digest)
           o == job[p]
           j == job'[p]
<1>1. /\ o.pc = "newRecords" /\ j.pc = "newIndex" /\ j.idx = o.idx
      /\ \A q \in Procs : q # p => job'[q] = job[q]
  BY GotoEffects DEF Goes, Becomes, Sound
<1>2. Upto(ToSet(o.list), base + o.idx.mark)
  BY <1>1, TallyNow DEF Rest, Tallied
<1>3. D \subseteq ToSet(o.list)
  <2>1. o.list \in Seq(Items)
    BY JobFields DEF Sound, Shaped, TypeOK
  <2>2. Written(o.list) \in Seq(Lines) /\ ToSet(Written(o.list)) \ {Torn} \subseteq ToSet(o.list)
    BY <2>1, ListWritten
  <2>3. ToSet(Current(Written(o.list))) \subseteq ToSet(o.list)
    BY <2>2, CurrentOwn
  <2>4. records' = Written(o.list)
    BY DEF RewriteRecords
  <2> QED BY <2>3, <2>4
<1>4. base = (Troubles * Len(digest))'
  BY DEF RewriteRecords, Troubles
<1> HIDE DEF D, base, o, j
<1>5. Tallied(j, D, base, Counting')
  BY <1>1, <1>2, <1>3 DEF Tallied, Upto
<1> QED BY <1>1, <1>4, <1>5, TallyStep DEF Rest, o, j, D

\* What a cut leaves of the memories of the file.
LEMMA CutLeaves ==
  ASSUME Shaped, NEW p \in Procs, Cut(p)
  PROVE  LET C == ToSet(Current(records))
             D == ToSet(Current(records))'
         IN  \/ D = C
             \/ At(p, "append") /\ D = {m \in C : m.id # Record(p).id} \cup {Record(p)}
             \/ At(p, "newRecords") /\ D \subseteq ToSet(job[p].list)
<1> DEFINE C == ToSet(Current(records))
           D == ToSet(Current(records))'
<1>1. records' \in RecordsCut(p)
  BY DEF Cut
<1>2. CASE records' = records
  BY <1>2
<1>3. CASE At(p, "append") /\ records' = WithRecord(records, Record(p))
  <2>1. CASE Unfinished(records)
    BY <1>3, <2>1, Appended
  <2>2. CASE ~Unfinished(records)
    BY <1>3, <2>2, Appended
  <2> QED BY <2>1, <2>2
<1>4. CASE records' = WithRecord(records, Torn)
  <2>1. records \in Seq(Lines) /\ Torn \in Lines
    BY ActiveTyped DEF Lines
  <2>2. /\ Unfinished(records) => WithRecord(records, Torn) = records
        /\ ~Unfinished(records) => ToSet(Current(WithRecord(records, Torn))) = After(C, Torn)
    BY <2>1, RecordWritten
  <2> QED BY <1>4, <2>2 DEF After
<1>5. CASE At(p, "newRecords") /\ records' \in Parts(Written(job[p].list))
  <2>1. job[p].list \in Seq(Items)
    BY JobFields DEF Shaped, TypeOK
  <2>2. /\ Written(job[p].list) \in Seq(Lines)
        /\ ToSet(Written(job[p].list)) \ {Torn} \subseteq ToSet(job[p].list)
    BY <2>1, ListWritten
  <2> DEFINE file == records'
  <2>3. file \in Seq(Lines) /\ ToSet(file) \ {Torn} \subseteq ToSet(Written(job[p].list))
    BY <1>5, <2>2, PartWritten
  <2> HIDE DEF file
  <2>4. ToSet(Current(file)) \subseteq ToSet(job[p].list)
    BY <2>2, <2>3, CurrentOwn
  <2> QED BY <1>5, <2>4 DEF file
<1> QED BY <1>1, <1>2, <1>3, <1>4, <1>5 DEF RecordsCut

LEMMA TallyCut ==
  ASSUME Sound, Single, TallyInv, NEW p \in Procs, Cut(p)
  PROVE  TallyInv'
<1> DEFINE C == ToSet(Current(records))
           D == ToSet(Current(records))'
           o == job[p]
           L == Len(digest)
<1>1. /\ records' \in RecordsCut(p) /\ digest' = digest /\ faults' = faults
      /\ cuts' = cuts + 1 /\ cuts \in Nat /\ faults \in Nat
  BY DEF Cut, Sound, Shaped, TypeOK
<1>2. Troubles' = Troubles + 1 /\ Troubles \in Nat
  BY <1>1 DEF Troubles
<1>3. Sound'
  <2>1. [Next]_vars
    BY DEF Next, Step
  <2> QED BY <2>1, SoundStep
<1>4. Counting' \in Nat
  <2>1. index' \in Indexes \cup {Garbled, Missing}
    BY <1>3 DEF Sound, Shaped, TypeOK
  <2> QED BY <2>1 DEF Counting, Indexes
<1>5. /\ job[p].pc = "append" => Tallied(o, C, Troubles * L, Counting)
      /\ job[p].pc = "newRecords" => Tallied(o, C, Troubles * L, Counting)
      /\ \E n \in Nat : n <= L /\ Upto(C, Troubles * L + n)
  <2>1. \A q \in Procs : job[q].pc \notin Rest => Tallied(job[q], C, Troubles * L, Counting)
    BY DEF TallyInv
  <2> DEFINE base == Troubles * L
  <2>2. /\ Counting \in Nat /\ Counting <= L
        /\ \A q \in Procs : job[q].idx.mark \in Nat /\ job[q].idx.mark <= L
    BY TallyTyped
  <2>3. (\A q \in Procs : job[q].pc \in Rest) => Upto(C, base + Counting)
    BY DEF TallyInv
  <2>4. \A q \in Procs : job[q].pc \notin Rest =>
          Upto(C, base + Counting) \/ Upto(C, base + job[q].idx.mark)
    BY <2>1 DEF Tallied
  <2> HIDE DEF base, C, L, o
  <2>5. \E n \in Nat : n <= L /\ Upto(C, base + n)
    BY <2>2, <2>3, <2>4
  <2>6. \E n \in Nat : n <= L /\ Upto(C, Troubles * L + n)
    BY <2>5 DEF base
  <2>7. /\ o.pc = "append" => Tallied(o, C, Troubles * L, Counting)
        /\ o.pc = "newRecords" => Tallied(o, C, Troubles * L, Counting)
    BY <2>1 DEF Rest, o
  <2> QED BY <2>6, <2>7 DEF o
<1>6. \E n \in Nat : n <= L /\ Upto(D, Troubles * L + n)
  <2>1. CASE D = C
    BY <1>5, <2>1
  <2>2. CASE At(p, "append") /\ D = {m \in C : m.id # Record(p).id} \cup {Record(p)}
    <3>1. /\ Record(p) \in ToSet(o.list)
          /\ o.part = "store" => Record(p) = Last(o.list)
          /\ o.part \in {"store", "forget"}
      BY <2>2, RecordTyped, Turn DEF At, Sound, GoodJob
    <3>2. /\ Counting \in Nat /\ Counting <= L /\ Troubles * L \in Nat
          /\ Tallied(o, C, Troubles * L, Counting) /\ o.pc = "append"
      BY <1>5, <2>2, TallyTyped DEF At
    <3> DEFINE base == Troubles * L
               r == Record(p)
    <3> HIDE DEF base, C, D, o, r
    <3>3. base \in Nat /\ Tallied(o, C, base, Counting) /\ o.pc = "append"
      BY <3>2 DEF base
    <3>4. Upto(C, base + Counting) /\ r.access <= base + Counting
      <4>1. CASE o.part = "store"
        BY <3>1, <3>2, <3>3, <4>1 DEF Tallied, r
      <4>2. CASE o.part = "forget"
        BY <3>1, <3>3, <4>2 DEF Tallied, Upto, r
      <4> QED BY <3>1, <4>1, <4>2
    <3>5. Upto(D, base + Counting)
      BY <2>2, <3>4 DEF Upto, r
    <3> QED BY <3>2, <3>5 DEF base
  <2>3. CASE At(p, "newRecords") /\ D \subseteq ToSet(o.list)
    <3>1. Upto(ToSet(o.list), Troubles * L + o.idx.mark)
      BY <1>5, <2>3 DEF Tallied, At
    <3>2. Upto(D, Troubles * L + o.idx.mark)
      BY <2>3, <3>1 DEF Upto
    <3> QED BY <3>2, TallyTyped
  <2> QED BY <2>1, <2>2, <2>3, CutLeaves DEF Sound
<1>7. \A m \in D : m.access \in Nat
  <2> DEFINE file == records'
  <2>1. file \in Seq(Lines)
    BY <1>3 DEF Sound, Shaped, TypeOK, Lines
  <2> HIDE DEF file
  <2>2. \A m \in ToSet(Current(file)) : m.access \in Nat
    BY <2>1, CurrentOwn DEF Items
  <2> QED BY <2>2 DEF file
<1>8. Upto(D, (Troubles + 1) * L + Counting')
  <2> HIDE DEF D
  <2> QED BY <1>4, <1>6, <1>7, TallyTrouble
<1>9. \A q \in Procs : job'[q].pc \in {"create", "idle"}
  BY DEF Cut, Quiet
<1>10. (Troubles * Len(digest))' = (Troubles + 1) * L
  BY <1>1, <1>2
<1> DEFINE base == (Troubles + 1) * L
<1>11. base = (Troubles * Len(digest))' /\ Upto(D, base + Counting')
  BY <1>8, <1>10
<1> HIDE DEF base
<1>12. \A q \in Procs : Tallied(job'[q], D, base, Counting')
  BY <1>9, <1>11 DEF Tallied
<1> QED BY <1>11, <1>12 DEF TallyInv

LEMMA TallyCalls ==
  ASSUME Sound, Single, TallyInv, NEW w \in Writers
  PROVE  /\ \A fact \in Facts, label \in Labels, replace \in BOOLEAN :
              BeginStore(w, fact, label, replace) => TallyInv'
         /\ \A fact \in Facts, label \in Labels, id \in 1..lastId :
              BeginUpdate(w, id, fact, label) => TallyInv'
         /\ \A id \in 1..lastId : BeginForget(w, id) => TallyInv'
         /\ \A label \in Labels : Recall(w, label) => TallyInv'
         /\ Return(w) => TallyInv'
<1> DEFINE j == job'[w]
<1>1. w \in Procs /\ w # Main /\ Shaped
  BY MemoryAssumption DEF Procs, Sound
<1>2. ASSUME Up \/ job[w].pc \notin Rest, \A q \in Procs : q # w => job'[q] = job[q],
             records' = records, index' = index, digest' = digest,
             cuts' = cuts, faults' = faults, job[w].pc # "newIndex",
             j.pc \in {"check", "find", "idle"}
      PROVE  TallyInv'
  BY <1>1, <1>2, TallyQuiet
<1>3. ASSUME NEW fact \in Facts, NEW label \in Labels, NEW replace \in BOOLEAN,
             BeginStore(w, fact, label, replace)
      PROVE  TallyInv'
  <2>1. /\ Up /\ job[w].pc = "idle"
        /\ Becomes(w, "check", "store", fact, label, 0, "store", {}, replace,
                   TRUE, FALSE, <<>>, NewIndex)
    BY <1>1, <1>3, CallEffects, Zenon
  <2>2. j.pc = "check" /\ \A q \in Procs : q # w => job'[q] = job[q]
    BY <2>1 DEF Becomes
  <2>3. /\ records' = records /\ index' = index /\ digest' = digest
        /\ cuts' = cuts /\ faults' = faults
    BY <1>3 DEF BeginStore, Begin
  <2> QED BY <1>2, <2>1, <2>2, <2>3
<1>4. ASSUME NEW fact \in Facts, NEW label \in Labels, NEW id \in 1..lastId,
             BeginUpdate(w, id, fact, label)
      PROVE  TallyInv'
  <2>1. /\ Up /\ job[w].pc = "idle"
        /\ Becomes(w, "check", "update", fact, label, id, "store", {id}, FALSE,
                   TRUE, FALSE, <<>>, NewIndex)
    BY <1>1, <1>4, CallEffects, Zenon
  <2>2. j.pc = "check" /\ \A q \in Procs : q # w => job'[q] = job[q]
    BY <2>1 DEF Becomes
  <2>3. /\ records' = records /\ index' = index /\ digest' = digest
        /\ cuts' = cuts /\ faults' = faults
    BY <1>4 DEF BeginUpdate, Begin
  <2> QED BY <1>2, <2>1, <2>2, <2>3
<1>5. ASSUME NEW id \in 1..lastId, BeginForget(w, id)
      PROVE  TallyInv'
  <2>1. /\ Up /\ job[w].pc = "idle" /\ j.pc = "find"
        /\ \A q \in Procs : q # w => job'[q] = job[q]
    BY <1>1, <1>5, CallEffects DEF Becomes
  <2>2. /\ records' = records /\ index' = index /\ digest' = digest
        /\ cuts' = cuts /\ faults' = faults
    BY <1>5 DEF BeginForget, Begin
  <2> QED BY <1>2, <2>1, <2>2
<1>6. ASSUME NEW label \in Labels, Recall(w, label)
      PROVE  TallyInv'
  <2> DEFINE C == ToSet(Current(records))
             base == Troubles * Len(digest)
             more == Troubles * Len(digest')
  <2>1. /\ records' = records /\ index' = index /\ job' = job /\ Up /\ job[w].pc = "idle"
        /\ cuts' = cuts /\ faults' = faults
    BY <1>6 DEF Recall, At
  <2>2. Upto(C, base + Counting)
    BY <1>1, <2>1, TallyNow
  <2>3. base <= more /\ base \in Nat /\ more \in Nat
    <3>1. Len(digest') \in Nat /\ Len(digest) \in Nat /\ Len(digest) <= Len(digest')
      BY <1>1, <1>6, RecallGrows, TallyTyped
    <3>2. Troubles \in Nat
      BY TallyTyped
    <3> DEFINE k == Troubles
               l == Len(digest)
               m == Len(digest')
    <3>3. k \in Nat /\ l \in Nat /\ m \in Nat /\ l <= m
      BY <3>1, <3>2
    <3> HIDE DEF k, l, m
    <3>4. k * l <= k * m /\ k * l \in Nat /\ k * m \in Nat
      BY <3>3, ProductGrows, Product
    <3> QED BY <3>4 DEF k, l, m
  <2>4. Counting \in Nat /\ \A m \in C : m.access \in Nat
    BY TallyTyped
  <2>5. more = (Troubles * Len(digest))' /\ C = ToSet(Current(records))' /\ Counting' = Counting
    BY <2>1 DEF Troubles, Counting
  <2> HIDE DEF C, base, more
  <2>6. Upto(C, more + Counting)
    BY <2>2, <2>3, <2>4 DEF Upto
  <2>7. Tallied(job'[w], C, more, Counting')
    BY <2>1, <2>5, <2>6 DEF Tallied
  <2> QED BY <1>1, <2>1, <2>5, <2>7, TallyStep
<1>7. ASSUME Return(w) PROVE TallyInv'
  <2>1. /\ job[w].pc \notin Rest /\ job[w].pc # "newIndex" /\ j.pc = "idle"
        /\ \A q \in Procs : q # w => job'[q] = job[q]
    BY <1>1, <1>7, CallEffects DEF Becomes, Rest
  <2>2. /\ records' = records /\ index' = index /\ digest' = digest
        /\ cuts' = cuts /\ faults' = faults
    BY <1>7 DEF Return
  <2> QED BY <1>2, <2>1, <2>2
<1> QED BY <1>3, <1>4, <1>5, <1>6, <1>7

LEMMA TallyInvStep == Sound /\ Single /\ TallyInv /\ [Next]_vars => TallyInv'
<1> SUFFICES ASSUME Sound, Single, TallyInv, [Next]_vars PROVE TallyInv'
  OBVIOUS
<1>1. Writers \subseteq Procs /\ Main \in Procs
  BY DEF Procs
<1>2. CASE Next
  BY <1>1, <1>2, NextCases, TallyStages, TallyCreate, TallySave, TallyOpenFails, TallyAppend,
     TallyFind, TallyNew, TallyReload, TallyCompact, TallyRewrite, TallyCut, TallyCalls, Zenon
<1>3. CASE UNCHANGED vars
  BY <1>3 DEF vars, TallyInv, Troubles, Counting
<1> QED BY <1>2, <1>3

LEMMA TallyInit == Init => TallyInv
<1> SUFFICES ASSUME Init PROVE TallyInv
  OBVIOUS
<1>1. ToSet(Current(records)) = {}
  BY CurrentEmpty DEF Init
<1>2. \A p \in Procs : job[p].pc \in {"create", "idle"}
  BY DEF Init, Quiet
<1> QED BY <1>1, <1>2 DEF TallyInv, Tallied, Upto

\* With one task that stores and forgets, compactions count each recall once,
\* and once more for every cut or failure between the records and the index
\* that tells how far the digest was counted.
THEOREM RecallsCountedOnce ==
  ASSUME Single
  PROVE  Spec => []RecallsCounted
<1>1. ASSUME Sound, TallyInv PROVE RecallsCounted
  <2> DEFINE C == ToSet(Current(records))
             L == Len(digest)
             base == Troubles * L
  <2>1. /\ Troubles \in Nat /\ L \in Nat /\ base \in Nat
        /\ Counting \in Nat /\ Counting <= L
        /\ \A q \in Procs : job[q].idx.mark \in Nat /\ job[q].idx.mark <= L
        /\ \A m \in C : m.access \in Nat
    BY <1>1, TallyTyped
  <2>2. (\A q \in Procs : job[q].pc \in Rest) => Upto(C, base + Counting)
    BY <1>1 DEF TallyInv
  <2>3. \A q \in Procs : job[q].pc \notin Rest =>
          Upto(C, base + Counting) \/ Upto(C, base + job[q].idx.mark)
    BY <1>1 DEF TallyInv, Tallied
  <2>4. (1 + cuts + faults) * L = base + L
    <3>1. 1 + cuts + faults = Troubles + 1
      BY <1>1 DEF Troubles, Sound, Shaped, TypeOK
    <3> HIDE DEF L
    <3> QED BY <3>1, <2>1, Product
  <2> HIDE DEF base, C, L
  <2>5. \A m \in C : m.access <= base + L
    BY <2>1, <2>2, <2>3 DEF Upto
  <2>6. Active(records) \subseteq C
    BY DEF C, Active, Living
  <2> QED BY <2>4, <2>5, <2>6 DEF RecallsCounted, L
<1>2. Init => Sound /\ TallyInv
  BY SoundAlways, TallyInit
<1>3. Sound /\ TallyInv /\ [Next]_vars => (Sound /\ TallyInv)'
  BY SoundStep, TallyInvStep
<1> QED BY <1>1, <1>2, <1>3, PTL DEF Spec

-----------------------------------------------------------------------------
(* What was stored with success is kept.                                     *)

\* One of the memories S says the fact, and is not to be forgotten (out).
Has(S, fact, out) == \E m \in S : ~m.gone /\ m.fact = fact /\ m.id \notin out

\* The stages at which the memory of a call is on the file.
Promised == {"reload", "index", "markdown", "next", "compact", "newIndex", "newMarkdown"}

\* What a call owes to the facts that are kept, C being the memories of the
\* file, and to the one it is about to promise.
Vowed(j, C, facts) ==
  /\ j.pc = "check" => j.doomed \subseteq {j.id}
  /\ j.pc = "append" /\ j.part = "store" =>
       /\ \A m \in C : m.id # Last(j.list).id
       /\ j.promise => /\ ~Last(j.list).gone /\ Last(j.list).fact = j.fact
                       /\ Last(j.list).id \notin j.doomed
  /\ j.pc = "append" /\ j.part = "forget" => \A f \in facts : Has(C, f, {j.id})
  /\ j.pc = "newRecords" => /\ OwnIds(ToSet(j.list))
                            /\ \A f \in facts : Has(ToSet(j.list), f, {})
  /\ j.promise /\ ~j.joined =>
       /\ j.pc \in Promised => Has(C, j.fact, j.doomed)
       /\ j.pc = "find" \/ (j.pc = "append" /\ j.part = "forget") =>
            Has(C, j.fact, j.doomed \cup {j.id})
       /\ j.pc = "newRecords" => Has(ToSet(j.list), j.fact, j.doomed)

KeptInv ==
  LET C == ToSet(Current(records))
  IN  /\ \A f \in kept : Has(C, f, {})
      /\ \A p \in Procs : Vowed(job[p], C, kept)

\* What is to show of a step of p.
LEMMA VowedStep ==
  ASSUME Sound, Single, NEW p \in Procs,
         job[p].pc \notin Rest \/ (p # Main /\ Up),
         \A q \in Procs : q # p => job'[q] = job[q],
         NEW C, C = ToSet(Current(records))',
         \A f \in kept' : Has(C, f, {}),
         Vowed(job'[p], C, kept')
  PROVE  KeptInv'
<1>1. ASSUME NEW q \in Procs, q # p
      PROVE  Vowed(job'[q], C, kept')
  <2>1. job[q].pc \in Rest /\ job'[q] = job[q]
    BY <1>1, OthersRest DEF Sound
  <2> QED BY <2>1 DEF Vowed, Rest, Promised
<1> QED BY <1>1 DEF KeptInv

\* What is to show of a step of p that leaves the records and the promises.
LEMMA VowedQuiet ==
  ASSUME Sound, Single, KeptInv, NEW p \in Procs,
         job[p].pc \notin Rest \/ (p # Main /\ Up),
         \A q \in Procs : q # p => job'[q] = job[q],
         records' = records, kept' = kept,
         Vowed(job'[p], ToSet(Current(records)), kept)
  PROVE  KeptInv'
<1> DEFINE C == ToSet(Current(records))
<1>1. C = ToSet(Current(records))' /\ (\A f \in kept' : Has(C, f, {})) /\ Vowed(job'[p], C, kept')
  BY DEF KeptInv
<1> QED BY <1>1, VowedStep

LEMMA VowedGoes ==
  ASSUME Sound, Single, KeptInv, NEW p \in Procs, NEW from, NEW pc, Goes(p, from, pc),
         from \notin Rest, pc \notin {"check", "find", "append", "newRecords"},
         pc \in Promised => from \in Promised \/ p = Main,
         records' = records, kept' = kept
  PROVE  KeptInv'
<1> DEFINE C == ToSet(Current(records))
           j == job'[p]
           o == job[p]
<1>1. /\ j.pc = pc /\ j.id = o.id /\ j.part = o.part /\ j.doomed = o.doomed
      /\ j.joined = o.joined /\ j.list = o.list /\ j.promise = o.promise /\ j.fact = o.fact
      /\ o.pc = from
      /\ \A q \in Procs : q # p => job'[q] = job[q]
  BY DEF Goes, Becomes
<1>2. Vowed(o, C, kept)
  BY DEF KeptInv
<1>3. p = Main => ~o.promise
  <2>1. p = Main => o.kind = "none"
    BY DEF Sound, Shaped, Ordered
  <2>2. o.promise => o.kind \in Stores
    BY DEF Sound, Shaped, Ordered, GoodJob
  <2> QED BY <2>1, <2>2 DEF Stores
<1> HIDE DEF j, o, C
<1>4. Vowed(j, C, kept)
  BY <1>1, <1>2, <1>3 DEF Vowed
<1> QED BY <1>1, <1>4, VowedQuiet DEF C, j, o

LEMMA VowedStages ==
  ASSUME Sound, Single, KeptInv, NEW p \in Procs
  PROVE  /\ Create => KeptInv'
         /\ IndexUnread(p) => KeptInv'
         /\ SaveIndex(p) => KeptInv'
         /\ SyncMarkdown(p) => KeptInv'
         /\ CompactEnd(p) => KeptInv'
         /\ OpenFails(p) => KeptInv'
<1>1. Create \/ IndexUnread(p) \/ SaveIndex(p) \/ SyncMarkdown(p) \/ CompactEnd(p)
        \/ OpenFails(p)
      => records' = records /\ kept' = kept
  BY DEF Create, IndexUnread, SaveIndex, SyncMarkdown, CompactEnd, OpenFails
<1>2. Main \in Procs /\ Shaped
  BY DEF Procs, Sound
<1>3. Create => KeptInv'
  BY <1>1, <1>2, GotoEffects, VowedGoes DEF Rest, Promised
<1>4. IndexUnread(p) => KeptInv'
  BY <1>1, <1>2, GotoEffects, VowedGoes DEF Rest, Promised
<1>5. SaveIndex(p) => KeptInv'
  BY <1>1, <1>2, GotoEffects, VowedGoes DEF Rest, Promised
<1>6. SyncMarkdown(p) => KeptInv'
  BY <1>1, <1>2, GotoEffects, VowedGoes DEF Rest, Promised
<1>7. CompactEnd(p) => KeptInv'
  BY <1>1, <1>2, GotoEffects, VowedGoes DEF Rest, Promised
<1>8. OpenFails(p) => KeptInv'
  BY <1>1, <1>2, GotoEffects, VowedGoes DEF Rest, Promised
<1> QED BY <1>3, <1>4, <1>5, <1>6, <1>7, <1>8

LEMMA VowedQuieter ==
  ASSUME Sound, Single, KeptInv, NEW p \in Procs
  PROVE  /\ CheckKnown(p) => KeptInv'
         /\ NotFound(p) => KeptInv'
         /\ Conflicts(p) => KeptInv'
         /\ \A old : Reload(p, old) => KeptInv'
         /\ ForgetNext(p) => KeptInv'
<1> DEFINE C == ToSet(Current(records))
           j == job'[p]
           o == job[p]
<1>1. Vowed(o, C, kept) /\ Shaped
  BY DEF KeptInv, Sound
<1>2. Active(records) = {m \in C : ~m.gone} /\ OwnIds(C)
  BY <1>1, ActiveTyped
<1>3. ASSUME CheckKnown(p) PROVE KeptInv'
  <2>1. /\ records' = records /\ kept' = kept
        /\ \E m \in Active(records) : m.fact = o.fact /\ m.id # o.id
    BY <1>3 DEF CheckKnown, Known
  <2>2. /\ o.pc = "check" /\ j.pc = "next" /\ j.fact = o.fact /\ j.doomed = o.doomed
        /\ \A q \in Procs : q # p => job'[q] = job[q]
    BY <1>1, <1>3, StoreEffects DEF Becomes
  <2> HIDE DEF C, j, o
  <2>3. Has(C, o.fact, {o.id})
    BY <1>2, <2>1 DEF Has
  <2>4. Vowed(j, C, kept)
    BY <1>1, <2>2, <2>3 DEF Vowed, Has
  <2> QED BY <2>1, <2>2, <2>4, VowedQuiet DEF C, j, o, Rest
<1>4. ASSUME NotFound(p) PROVE KeptInv'
  <2>1. records' = records /\ kept' = kept
    BY <1>4 DEF NotFound
  <2>2. /\ o.pc = "find" /\ j.pc \in {"next", "failed"} /\ j.fact = o.fact
        /\ j.doomed = o.doomed /\ j.joined = o.joined /\ j.promise = o.promise
        /\ \A q \in Procs : q # p => job'[q] = job[q]
    BY <1>1, <1>4, StoreEffects DEF Becomes
  <2> HIDE DEF C, j, o
  <2>3. Vowed(j, C, kept)
    BY <1>1, <2>2 DEF Vowed, Has
  <2> QED BY <2>1, <2>2, <2>3, VowedQuiet DEF C, j, o, Rest
<1>5. ASSUME Conflicts(p) PROVE KeptInv'
  <2>1. records' = records /\ kept' = kept
    BY <1>5 DEF Conflicts
  <2>2. /\ o.pc = "next" /\ j.pc = "next" /\ j.fact = o.fact
        /\ j.doomed = {m.id : m \in {n \in Active(records) :
                                       n.label = o.label /\ n.fact # o.fact}}
        /\ j.joined = o.joined /\ j.promise = o.promise
        /\ \A q \in Procs : q # p => job'[q] = job[q]
    BY <1>1, <1>5, StoreEffects DEF Becomes
  <2> HIDE DEF C, j, o
  <2>3. j.promise /\ ~j.joined => Has(C, j.fact, j.doomed)
    <3>1. SUFFICES ASSUME j.promise, ~j.joined PROVE Has(C, j.fact, j.doomed)
      OBVIOUS
    <3>2. PICK m \in C : ~m.gone /\ m.fact = o.fact
      BY <1>1, <2>2, <3>1 DEF Vowed, Has, Promised
    <3>3. m.id \notin j.doomed
      BY <1>2, <2>2, <3>2 DEF OwnIds
    <3> QED BY <2>2, <3>2, <3>3 DEF Has
  <2>4. Vowed(j, C, kept)
    BY <2>2, <2>3 DEF Vowed
  <2> QED BY <2>1, <2>2, <2>4, VowedQuiet DEF C, j, o, Rest
<1>6. ASSUME NEW old, Reload(p, old) PROVE KeptInv'
  <2>1. records' = records /\ kept' = kept
    BY <1>6 DEF Reload
  <2>2. /\ o.pc = "reload" /\ j.pc = "index" /\ j.fact = o.fact
        /\ j.doomed = o.doomed /\ j.joined = o.joined /\ j.promise = o.promise
        /\ \A q \in Procs : q # p => job'[q] = job[q]
    BY <1>1, <1>6, IndexEffects DEF Becomes
  <2> HIDE DEF C, j, o
  <2>3. Vowed(j, C, kept)
    BY <1>1, <2>2 DEF Vowed, Promised
  <2> QED BY <2>1, <2>2, <2>3, VowedQuiet DEF C, j, o, Rest
<1>7. ASSUME ForgetNext(p) PROVE KeptInv'
  <2>1. records' = records /\ kept' = kept
    BY <1>7 DEF ForgetNext
  <2>2. /\ o.pc = "next" /\ j.pc = "find" /\ j.fact = o.fact
        /\ j.id \in o.doomed /\ j.doomed = o.doomed \ {j.id}
        /\ j.joined = o.joined /\ j.promise = o.promise
        /\ \A q \in Procs : q # p => job'[q] = job[q]
    BY <1>1, <1>7, NextEffects DEF Becomes
  <2> HIDE DEF C, j, o
  <2>3. Vowed(j, C, kept)
    BY <1>1, <2>2 DEF Vowed, Has, Promised
  <2> QED BY <2>1, <2>2, <2>3, VowedQuiet DEF C, j, o, Rest
<1> QED BY <1>3, <1>4, <1>5, <1>6, <1>7

LEMMA VowedFind ==
  ASSUME Sound, Single, KeptInv, NEW p \in Procs, Find(p)
  PROVE  KeptInv'
<1> DEFINE C == ToSet(Current(records))
           j == job'[p]
           o == job[p]
<1>1. Vowed(o, C, kept) /\ Shaped /\ \A f \in kept : Has(C, f, {})
  BY DEF KeptInv, Sound
<1>2. Active(records) = {m \in C : ~m.gone} /\ OwnIds(C)
  BY <1>1, ActiveTyped
<1>3. /\ o.pc = "find" /\ j.pc = "append" /\ j.fact = o.fact /\ j.id = o.id
      /\ j.doomed = o.doomed /\ j.joined = o.joined /\ j.promise = o.promise
      /\ j.part = o.part
      /\ \A q \in Procs : q # p => job'[q] = job[q]
  BY <1>1, StoreEffects DEF Becomes
<1>4. o.part = "forget"
  BY <1>1, <1>3 DEF Shaped, Ordered, GoodJob
<1>5. /\ C = ToSet(Current(records))'
      /\ \E n \in Active(records) : n.id = o.id /\ kept' = kept \ {n.fact}
  BY DEF Find
<1> HIDE DEF C, j, o
<1>6. PICK n \in C : n.id = o.id /\ kept' = kept \ {n.fact}
  BY <1>2, <1>5
<1>7. \A f \in kept' : Has(C, f, {})
  BY <1>1, <1>6
<1>8. ASSUME NEW f \in kept' PROVE Has(C, f, {j.id})
  <2>1. PICK m \in C : ~m.gone /\ m.fact = f
    BY <1>7 DEF Has
  <2>2. m.id # o.id
    BY <1>2, <1>6, <2>1 DEF OwnIds
  <2> QED BY <1>3, <2>1, <2>2 DEF Has
<1>9. o.promise /\ ~o.joined => Has(C, o.fact, o.doomed \cup {o.id})
  BY <1>1, <1>3 DEF Vowed
<1>10. \A f \in kept' : Has(C, f, {j.id})
  BY <1>8
<1>11. Vowed(j, C, kept')
  BY <1>3, <1>4, <1>9, <1>10 DEF Vowed, Promised
<1> QED BY <1>3, <1>5, <1>7, <1>11, VowedStep DEF j, o, Rest

LEMMA VowedFinish ==
  ASSUME Sound, Single, KeptInv, NEW p \in Procs, Finish(p)
  PROVE  KeptInv'
<1> DEFINE C == ToSet(Current(records))
           j == job'[p]
           o == job[p]
<1>1. Vowed(o, C, kept) /\ Shaped /\ \A f \in kept : Has(C, f, {})
  BY DEF KeptInv, Sound
<1>2. /\ o.pc = "next" /\ j.pc \in {"compact", "done"} /\ j.fact = o.fact
      /\ j.doomed = o.doomed /\ j.joined = o.joined /\ j.promise = o.promise
      /\ \A q \in Procs : q # p => job'[q] = job[q]
  BY <1>1, NextEffects DEF Becomes
<1>3. /\ C = ToSet(Current(records))'
      /\ o.doomed = {}
      /\ kept' = IF o.promise /\ ~o.joined THEN kept \cup {o.fact} ELSE kept
  BY DEF Finish
<1> HIDE DEF C, j, o
<1>4. \A f \in kept' : Has(C, f, {})
  BY <1>1, <1>2, <1>3 DEF Vowed, Promised
<1>5. Vowed(j, C, kept')
  BY <1>1, <1>2, <1>3 DEF Vowed, Promised
<1> QED BY <1>2, <1>3, <1>4, <1>5, VowedStep DEF j, o, Rest

LEMMA VowedNew ==
  ASSUME Sound, Single, BygoneInv, KeptInv, NEW p \in Procs, NEW old, CheckNew(p, old)
  PROVE  KeptInv'
<1> DEFINE C == ToSet(Current(records))
           j == job'[p]
           o == job[p]
           r == NewRecord(p, old)
<1>1. Shaped
  BY DEF Sound
<1>2. /\ o.pc = "check" /\ j.pc = "append" /\ j.fact = o.fact
      /\ j.part = o.part /\ j.doomed = o.doomed
      /\ j.list = Append(Current(records), r)
      /\ \A q \in Procs : q # p => job'[q] = job[q]
  BY <1>1, IndexEffects DEF Becomes
<1>3. records' = records /\ kept' = kept /\ lastId \in Nat
  BY <1>1 DEF CheckNew, Shaped, TypeOK
<1>4. o.part = "store" /\ o.doomed \subseteq Nat
  BY <1>1, <1>2, Turn, JobFields DEF GoodJob
<1>5. r \in Items /\ r.id = lastId + 1 /\ r.fact = o.fact /\ ~r.gone
  BY <1>1, ReadGood, NewRecordGood DEF CheckNew
<1>6. Last(j.list) = r
  <2>1. /\ Append(Current(records), r) \in Seq(Items)
        /\ Len(Append(Current(records), r)) = Len(Current(records)) + 1
        /\ Append(Current(records), r)[Len(Current(records)) + 1] = r
    BY <1>1, <1>5, ActiveTyped, AppendProperties
  <2> QED BY <1>2, <2>1 DEF Last
<1>7. /\ \A d \in o.doomed : d <= lastId
      /\ \A m \in C : m.id <= lastId /\ m.id \in Nat
  BY <1>1, ActiveTyped DEF BygoneInv, Bygone
<1> HIDE DEF C, j, o, r
<1>8. lastId + 1 \notin o.doomed /\ \A m \in C : m.id # lastId + 1
  BY <1>3, <1>4, <1>7
<1>9. Vowed(j, C, kept)
  BY <1>2, <1>4, <1>5, <1>6, <1>8 DEF Vowed, Promised
<1> QED BY <1>2, <1>3, <1>9, VowedQuiet DEF C, j, o, Rest

\* What a record leaves of the facts.
LEMMA VowedRecord ==
  ASSUME Sound, Single, BygoneInv, KeptInv, NEW p \in Procs, At(p, "append"),
         ~Unfinished(records)
  PROVE  LET D == ToSet(Current(WithRecord(records, Record(p))))
             o == job[p]
         IN  /\ \A f \in kept : Has(D, f, {})
             /\ o.promise /\ ~o.joined => Has(D, o.fact, o.doomed)
<1> DEFINE C == ToSet(Current(records))
           D == ToSet(Current(WithRecord(records, Record(p))))
           o == job[p]
           r == Record(p)
<1>1. /\ Vowed(o, C, kept) /\ Shaped /\ \A f \in kept : Has(C, f, {})
      /\ o.pc = "append"
  BY DEF KeptInv, Sound, At
<1>2. /\ o.part = "forget" => r.id = o.id
      /\ o.part = "store" => r = Last(o.list)
      /\ o.part \in {"store", "forget"}
  BY <1>1, RecordTyped, Turn DEF At, GoodJob
<1>3. D = {m \in C : m.id # r.id} \cup {r}
  BY <1>1, Appended
<1> HIDE DEF C, D, o, r
<1>4. CASE o.part = "store"
  <2>1. \A m \in C : m.id # r.id
    BY <1>1, <1>2, <1>4 DEF Vowed
  <2>2. \A f \in kept : Has(D, f, {})
    BY <1>1, <1>3, <2>1 DEF Has
  <2>3. o.promise => Has(D, o.fact, o.doomed)
    BY <1>1, <1>2, <1>3, <1>4 DEF Has, Vowed
  <2> QED BY <2>2, <2>3 DEF D, o
<1>5. CASE o.part = "forget"
  <2>1. \A f \in kept : Has(D, f, {})
    BY <1>1, <1>2, <1>3, <1>5 DEF Vowed, Has
  <2>2. o.promise /\ ~o.joined => Has(D, o.fact, o.doomed)
    BY <1>1, <1>2, <1>3, <1>5 DEF Vowed, Has
  <2> QED BY <2>1, <2>2 DEF D, o
<1> QED BY <1>2, <1>4, <1>5

LEMMA VowedAppend ==
  ASSUME Sound, Single, BygoneInv, KeptInv, NEW p \in Procs, AppendRecord(p)
  PROVE  KeptInv'
<1> DEFINE D == ToSet(Current(records))'
           j == job'[p]
           o == job[p]
<1>1. Shaped /\ At(p, "append") /\ records' = WithRecord(records, Record(p)) /\ kept' = kept
      /\ \A f \in kept : Has(ToSet(Current(records)), f, {})
  BY DEF Sound, AppendRecord, KeptInv
<1>2. /\ o.pc = "append" /\ j.pc \in {"index", "reload"}
      /\ j.doomed = o.doomed /\ j.fact = o.fact /\ j.promise = o.promise
      /\ j.joined = (o.joined \/ Unfinished(records))
      /\ \A q \in Procs : q # p => job'[q] = job[q]
  BY <1>1, StoreEffects DEF Becomes
<1>3. D = ToSet(Current(WithRecord(records, Record(p))))
  BY <1>1
<1>4. CASE Unfinished(records)
  <2>1. D = ToSet(Current(records))
    BY <1>1, <1>3, <1>4, Appended
  <2> HIDE DEF D, j, o
  <2>2. Vowed(j, D, kept')
    BY <1>2, <1>4 DEF Vowed
  <2> QED BY <1>1, <1>2, <2>1, <2>2, VowedStep DEF D, j, o, Rest
<1>5. CASE ~Unfinished(records)
  <2>1. /\ \A f \in kept : Has(D, f, {})
        /\ o.promise /\ ~o.joined => Has(D, o.fact, o.doomed)
    BY <1>1, <1>3, <1>5, VowedRecord
  <2> HIDE DEF D, j, o
  <2>2. Vowed(j, D, kept')
    BY <1>2, <2>1 DEF Vowed
  <2> QED BY <1>1, <1>2, <2>1, <2>2, VowedStep DEF D, j, o, Rest
<1> QED BY <1>4, <1>5

\* No two memories of a compaction have the same id.
LEMMA CompactionOwn ==
  ASSUME NEW S, OwnIds(S), NEW d, NEW list, CompactionOf(S, d, list)
  PROVE  OwnIds(ToSet(list))
<1> SUFFICES ASSUME NEW m \in ToSet(list), NEW n \in ToSet(list), m.id = n.id
             PROVE  m = n
  BY DEF OwnIds
<1>1. m.fact = n.fact
  BY DEF CompactionOf, OwnIds
<1>2. PICK i \in DOMAIN list, k \in DOMAIN list : m = list[i] /\ n = list[k]
  BY DEF ToSet
<1>3. FactsApart(list)
  BY DEF CompactionOf
<1> QED BY <1>1, <1>2, <1>3 DEF FactsApart

LEMMA VowedCompact ==
  ASSUME Sound, Single, KeptInv, NEW p \in Procs, NEW old, Compact(p, old)
  PROVE  KeptInv'
<1> DEFINE C == ToSet(Current(records))
           j == job'[p]
           o == job[p]
           d == Len(digest) - old.mark
           S == ToSet(j.list)
           trimmed == FactsOf(Current(records)) \ FactsOf(j.list)
<1>1. Vowed(o, C, kept) /\ Shaped /\ \A f \in kept : Has(C, f, {})
  BY DEF KeptInv, Sound
<1>2. /\ o.pc = "compact" /\ j.pc = "newRecords"
      /\ j.id = o.id /\ j.part = o.part /\ j.doomed = o.doomed /\ j.joined = o.joined
      /\ j.fact = o.fact
      /\ CompactionOf(C, d, j.list)
      /\ kept' = kept \ trimmed
      /\ j.promise => o.promise /\ o.fact \notin trimmed /\ ~MergesUpdate(p)
      /\ \A q \in Procs : q # p => job'[q] = job[q]
  BY CompactEffect DEF Becomes, Sound
<1>3. C = ToSet(Current(records))'
  BY DEF Compact
<1>4. Active(records) = {m \in C : ~m.gone} /\ OwnIds(C)
  BY <1>1, ActiveTyped
<1>5. OwnIds(S)
  BY <1>2, <1>4, CompactionOwn
<1>6. /\ FactsOf(Current(records)) = {m.fact : m \in {n \in C : ~n.gone}}
      /\ FactsOf(j.list) = {m.fact : m \in {n \in S : ~n.gone}}
  BY DEF FactsOf, Living
<1>7. MergesUpdate(p) <=> \E m, n \in Active(records) :
        m # n /\ m.fact = n.fact /\ m.fact = o.fact /\ m.id \in o.doomed
  BY DEF MergesUpdate
<1>8. \A m \in S : ~m.gone /\ \E n \in C : ~n.gone /\ n.id = m.id /\ n.fact = m.fact
  BY <1>2 DEF CompactionOf
<1> HIDE DEF C, j, o, d, S
<1>9. ASSUME NEW f, Has(C, f, {}), f \notin trimmed
      PROVE  Has(S, f, {})
  BY <1>6, <1>9 DEF Has
<1>10. \A f \in kept' : Has(C, f, {}) /\ Has(S, f, {})
  BY <1>1, <1>2, <1>9
<1>11. ASSUME j.promise, ~j.joined PROVE Has(S, o.fact, o.doomed)
  <2>1. o.promise /\ o.fact \notin trimmed /\ ~MergesUpdate(p) /\ ~o.joined
    BY <1>2, <1>11
  <2>2. PICK w \in C : ~w.gone /\ w.fact = o.fact /\ w.id \notin o.doomed
    BY <1>1, <1>2, <2>1 DEF Vowed, Promised, Has
  <2>3. Has(C, o.fact, {})
    BY <2>2 DEF Has
  <2>4. PICK m \in S : ~m.gone /\ m.fact = o.fact
    BY <1>9, <2>1, <2>3 DEF Has
  <2>5. PICK n \in C : ~n.gone /\ n.id = m.id /\ n.fact = m.fact
    BY <1>8
  <2>6. n.id \notin o.doomed
    BY <1>4, <1>7, <2>1, <2>2, <2>4, <2>5
  <2> QED BY <2>4, <2>5, <2>6 DEF Has
<1> HIDE DEF trimmed
<1>12. Vowed(j, C, kept')
  BY <1>2, <1>5, <1>10, <1>11 DEF Vowed, Promised, S
<1>13. \A f \in kept' : Has(C, f, {})
  BY <1>10
<1> QED BY <1>2, <1>3, <1>12, <1>13, VowedStep DEF j, o, Rest

\* The file that a compaction writes, if every line fits.
LEMMA VowedRewrite ==
  ASSUME Sound, Single, KeptInv, Long = {}, NEW p \in Procs, RewriteRecords(p)
  PROVE  KeptInv'
<1> DEFINE D == ToSet(Current(records))'
           j == job'[p]
           o == job[p]
<1>1. /\ Vowed(o, ToSet(Current(records)), kept) /\ Shaped
      /\ records' = Written(o.list) /\ kept' = kept
  BY DEF KeptInv, Sound, RewriteRecords
<1>2. /\ o.pc = "newRecords" /\ j.pc = "newIndex"
      /\ j.id = o.id /\ j.part = o.part /\ j.doomed = o.doomed /\ j.joined = o.joined
      /\ j.promise = o.promise /\ j.fact = o.fact
      /\ \A q \in Procs : q # p => job'[q] = job[q]
  BY <1>1, GotoEffects DEF Goes, Becomes
<1>3. o.list \in Seq(Items)
  BY <1>1, JobFields DEF Shaped, TypeOK
<1>4. records' = o.list
  BY <1>1, <1>3, ListWritten
<1>5. o.list \in Seq(Lines) /\ Torn \notin ToSet(o.list)
  BY <1>3, ToSetSeq, MemoryAssumption DEF Lines
<1>6. OwnIds(ToSet(o.list))
  BY <1>1, <1>2 DEF Vowed
<1>7. D = ToSet(o.list)
  <2>1. ToSet(o.list) \ {Torn} = ToSet(o.list)
    BY <1>5
  <2>2. D = ToSet(Current(o.list))
    BY <1>4
  <2>3. ToSet(Current(o.list)) = ToSet(o.list)
    BY <1>5, <1>6, <2>1, CurrentWhole
  <2> QED BY <2>2, <2>3
<1> HIDE DEF D, j, o
<1>8. \A f \in kept' : Has(D, f, {})
  BY <1>1, <1>2, <1>7 DEF Vowed
<1>9. Vowed(j, D, kept')
  BY <1>1, <1>2, <1>7 DEF Vowed, Promised
<1> QED BY <1>2, <1>8, <1>9, VowedStep DEF D, j, o, Rest

LEMMA VowedCut ==
  ASSUME Sound, Single, BygoneInv, KeptInv, NEW p \in Procs, Cut(p)
  PROVE  KeptInv'
<1> DEFINE C == ToSet(Current(records))
           D == ToSet(Current(records))'
<1>1. /\ records' \in RecordsCut(p) /\ Shaped /\ \A f \in kept : Has(C, f, {})
      /\ kept' = IF At(p, "newRecords") THEN kept \cap FactsOf(Current(records')) ELSE kept
  BY DEF Cut, Sound, KeptInv
<1>2. ASSUME At(p, "newRecords") PROVE \A f \in kept' : Has(D, f, {})
  <2>1. \A f \in FactsOf(Current(records')) : Has(D, f, {})
    BY DEF FactsOf, Living, Has
  <2> QED BY <1>1, <1>2, <2>1
<1>3. ASSUME ~At(p, "newRecords") PROVE \A f \in kept' : Has(D, f, {})
  <2>1. kept' = kept
    BY <1>1, <1>3
  <2>2. CASE records' = records
    BY <1>1, <2>1, <2>2
  <2>3. CASE At(p, "append") /\ records' = WithRecord(records, Record(p))
    <3>1. CASE Unfinished(records)
      BY <1>1, <2>1, <2>3, <3>1, Appended
    <3>2. CASE ~Unfinished(records)
      BY <2>1, <2>3, <3>2, VowedRecord
    <3> QED BY <3>1, <3>2
  <2>4. CASE records' = WithRecord(records, Torn)
    <3>1. records \in Seq(Lines) /\ Torn \in Lines
      BY <1>1, ActiveTyped DEF Lines
    <3>2. /\ Unfinished(records) => WithRecord(records, Torn) = records
          /\ ~Unfinished(records) => ToSet(Current(WithRecord(records, Torn))) = After(C, Torn)
      BY <3>1, RecordWritten
    <3>3. D = C
      BY <2>4, <3>2 DEF After
    <3> QED BY <1>1, <2>1, <3>3
  <2> QED BY <1>1, <1>3, <2>2, <2>3, <2>4 DEF RecordsCut
<1>4. \A f \in kept' : Has(D, f, {})
  BY <1>2, <1>3
<1>5. \A q \in Procs : job'[q].pc \in {"create", "idle"}
  BY DEF Cut, Quiet
<1> HIDE DEF D
<1>6. \A q \in Procs : Vowed(job'[q], D, kept')
  BY <1>5 DEF Vowed, Promised
<1> QED BY <1>4, <1>6 DEF KeptInv, D

LEMMA VowedCalls ==
  ASSUME Sound, Single, KeptInv, NEW w \in Writers
  PROVE  /\ \A fact \in Facts, label \in Labels, replace \in BOOLEAN :
              BeginStore(w, fact, label, replace) => KeptInv'
         /\ \A fact \in Facts, label \in Labels, id \in 1..lastId :
              BeginUpdate(w, id, fact, label) => KeptInv'
         /\ \A id \in 1..lastId : BeginForget(w, id) => KeptInv'
         /\ \A label \in Labels : Recall(w, label) => KeptInv'
         /\ Return(w) => KeptInv'
<1> DEFINE C == ToSet(Current(records))
           j == job'[w]
<1>1. w \in Procs /\ w # Main /\ Shaped
  BY MemoryAssumption DEF Procs, Sound
<1>2. ASSUME Up \/ job[w].pc \notin Rest, \A q \in Procs : q # w => job'[q] = job[q],
             records' = records, kept' = kept,
             \/ j.pc = "check" /\ j.doomed \subseteq {j.id}
             \/ j.pc = "find" /\ ~j.promise
             \/ j.pc = "idle"
      PROVE  KeptInv'
  <2> HIDE DEF j, C
  <2>1. Vowed(j, C, kept)
    BY <1>2 DEF Vowed, Promised
  <2> QED BY <1>1, <1>2, <2>1, VowedQuiet DEF C, j
<1>3. ASSUME NEW fact \in Facts, NEW label \in Labels, NEW replace \in BOOLEAN,
             BeginStore(w, fact, label, replace)
      PROVE  KeptInv'
  <2>1. /\ Up /\ job[w].pc = "idle"
        /\ Becomes(w, "check", "store", fact, label, 0, "store", {}, replace,
                   TRUE, FALSE, <<>>, NewIndex)
    BY <1>1, <1>3, CallEffects, Zenon
  <2>2. j.pc = "check" /\ j.doomed = {} /\ \A q \in Procs : q # w => job'[q] = job[q]
    BY <2>1 DEF Becomes
  <2>3. records' = records /\ kept' = kept
    BY <1>3 DEF BeginStore, Begin
  <2>4. j.pc = "check" /\ j.doomed \subseteq {j.id}
    BY <2>2
  <2>5. Up
    BY <2>1
  <2> HIDE DEF j
  <2> QED BY <1>2, <2>2, <2>3, <2>4, <2>5
<1>4. ASSUME NEW fact \in Facts, NEW label \in Labels, NEW id \in 1..lastId,
             BeginUpdate(w, id, fact, label)
      PROVE  KeptInv'
  <2>1. /\ Up /\ job[w].pc = "idle"
        /\ Becomes(w, "check", "update", fact, label, id, "store", {id}, FALSE,
                   TRUE, FALSE, <<>>, NewIndex)
    BY <1>1, <1>4, CallEffects, Zenon
  <2>2. /\ j.pc = "check" /\ j.doomed = {id} /\ j.id = id
        /\ \A q \in Procs : q # w => job'[q] = job[q]
    BY <2>1 DEF Becomes
  <2>3. records' = records /\ kept' = kept
    BY <1>4 DEF BeginUpdate, Begin
  <2>4. j.pc = "check" /\ j.doomed \subseteq {j.id}
    BY <2>2
  <2>5. Up
    BY <2>1
  <2> HIDE DEF j
  <2> QED BY <1>2, <2>2, <2>3, <2>4, <2>5
<1>5. ASSUME NEW id \in 1..lastId, BeginForget(w, id)
      PROVE  KeptInv'
  <2>1. /\ Up /\ job[w].pc = "idle" /\ j.pc = "find" /\ j.promise = FALSE
        /\ \A q \in Procs : q # w => job'[q] = job[q]
    BY <1>1, <1>5, CallEffects DEF Becomes
  <2>2. records' = records /\ kept' = kept
    BY <1>5 DEF BeginForget, Begin
  <2> QED BY <1>2, <2>1, <2>2
<1>6. ASSUME NEW label \in Labels, Recall(w, label)
      PROVE  KeptInv'
  <2>1. records' = records /\ kept' = kept /\ job' = job
    BY <1>6 DEF Recall
  <2> QED BY <2>1 DEF KeptInv
<1>7. ASSUME Return(w) PROVE KeptInv'
  <2>1. /\ job[w].pc \notin Rest /\ j.pc = "idle"
        /\ \A q \in Procs : q # w => job'[q] = job[q]
    BY <1>1, <1>7, CallEffects DEF Becomes, Rest
  <2>2. records' = records /\ kept' = kept
    BY <1>7 DEF Return
  <2> QED BY <1>2, <2>1, <2>2
<1> QED BY <1>3, <1>4, <1>5, <1>6, <1>7

LEMMA KeptInvStep ==
  ASSUME Sound, Single, Long = {}, BygoneInv, KeptInv, [Next]_vars
  PROVE  KeptInv'
<1>1. Writers \subseteq Procs /\ Main \in Procs
  BY DEF Procs
<1>2. CASE Next
  <2>1. \A w \in Writers : OpenFails(w) => KeptInv'
    BY <1>1, VowedStages
  <2>2. Create => KeptInv'
    BY <1>1, VowedStages
  <2> QED BY <1>1, <1>2, <2>1, <2>2, NextCases, VowedStages, VowedQuieter, VowedFind,
             VowedFinish, VowedNew, VowedAppend, VowedCompact, VowedRewrite, VowedCut,
             VowedCalls, Zenon
<1>3. CASE UNCHANGED vars
  BY <1>3 DEF vars, KeptInv
<1> QED BY <1>2, <1>3

LEMMA KeptInit == Init => KeptInv
<1> SUFFICES ASSUME Init PROVE KeptInv
  OBVIOUS
<1>1. \A p \in Procs : job[p].pc \in {"create", "idle"}
  BY DEF Init, Quiet
<1>2. kept = {}
  BY DEF Init
<1> QED BY <1>1, <1>2 DEF KeptInv, Vowed, Promised

\* With one task that stores and forgets, and memories whose lines fit the
\* buffer of a compaction, a fact whose store was answered with success is in
\* the records until it is forgotten, replaced or trimmed: neither a restart
\* between two files, nor a compaction, nor the torn line of another memory
\* loses it.
THEOREM StoredIsKept ==
  ASSUME Single, Long = {}
  PROVE  Spec => []Kept
<1>1. Sound /\ BygoneInv /\ KeptInv => Kept
  <2>1. SUFFICES ASSUME KeptInv, NEW f \in kept PROVE f \in FactsOf(Current(records))
    BY DEF Kept
  <2>2. Has(ToSet(Current(records)), f, {})
    BY <2>1 DEF KeptInv
  <2> QED BY <2>2 DEF Has, FactsOf, Living
<1>2. Init => Sound /\ BygoneInv /\ KeptInv
  BY SoundAlways, BygoneInit, KeptInit
<1>3. Sound /\ BygoneInv /\ KeptInv /\ [Next]_vars => (Sound /\ BygoneInv /\ KeptInv)'
  BY SoundStep, BygoneInvStep, KeptInvStep
<1> QED BY <1>1, <1>2, <1>3, PTL DEF Spec

-----------------------------------------------------------------------------
(* The files tell one story.                                                 *)

FactsIn(S) == {m.fact : m \in S}

\* The index knows the labels of the living memories S, with their ids and
\* their numbers.
Indexed(S, idx) ==
  /\ DOMAIN idx.sums = {m.label : m \in S}
  /\ \A m \in S : idx.sums[m.label].sid = m.sid
  /\ \A l \in DOMAIN idx.sums : idx.sums[l].refs = Cardinality({m \in S : m.label = l})

LEMMA FiniteMemories ==
  ASSUME NEW T, NEW list \in Seq(T)
  PROVE  \A S : S \subseteq ToSet(list) => IsFiniteSet(S)
<1>1. DOMAIN list = 1..Len(list) /\ Len(list) \in Nat
  BY LenProperties
<1>2. IsFiniteSet(DOMAIN list)
  BY <1>1, FS_Interval
<1> DEFINE f == [i \in DOMAIN list |-> list[i]]
<1>3. f \in Surjection(DOMAIN list, ToSet(list))
  BY DEF Surjection, ToSet
<1>4. IsFiniteSet(ToSet(list))
  BY <1>2, <1>3, FS_Surjection
<1> QED BY <1>4, FS_Subset

\* A memory more, and the index with its label and one reference more.
LEMMA IndexedMore ==
  ASSUME NEW S, IsFiniteSet(S), NEW old, GoodIndex(old), Indexed(S, old),
         NEW r, r \notin S, NEW idx, LabelAdded(old, r.label, idx),
         r.sid = idx.sums[r.label].sid, NEW new, RefsMoved(idx, r.sid, 1, new)
  PROVE  Indexed(S \cup {r}, new)
<1> DEFINE T == S \cup {r}
           with(l) == {m \in S : m.label = l}
           now(l) == {m \in T : m.label = l}
<1>1. /\ DOMAIN idx.sums = DOMAIN old.sums \cup {r.label}
      /\ DOMAIN new.sums = DOMAIN idx.sums
      /\ \A l \in DOMAIN idx.sums : new.sums[l].sid = idx.sums[l].sid
      /\ \A l \in DOMAIN old.sums : idx.sums[l] = old.sums[l]
      /\ \A l, k \in DOMAIN idx.sums : idx.sums[l].sid = idx.sums[k].sid => l = k
  BY DEF LabelAdded, RefsMoved, GoodIndex
<1>2. DOMAIN new.sums = {m.label : m \in T}
  BY <1>1 DEF Indexed
<1>3. \A m \in T : new.sums[m.label].sid = m.sid
  BY <1>1 DEF Indexed
<1>4. ASSUME NEW l \in DOMAIN new.sums
      PROVE  new.sums[l].refs = Cardinality(now(l))
  <2>1. IsFiniteSet(with(l)) /\ Cardinality(with(l)) \in Nat /\ r \notin with(l)
    <3>1. with(l) \subseteq S
      OBVIOUS
    <3> QED BY <3>1, FS_Subset, FS_CardinalityType
  <2>2. idx.sums[l].refs = Cardinality(with(l))
    <3>1. CASE l \in DOMAIN old.sums
      <4>1. old.sums[l].refs = Cardinality(with(l))
        BY <3>1 DEF Indexed
      <4>2. idx.sums[l] = old.sums[l]
        BY <1>1, <3>1
      <4> QED BY <4>1, <4>2
    <3>2. CASE l \notin DOMAIN old.sums
      <4>1. l = r.label /\ idx.sums[l].refs = 0
        BY <1>1, <3>2 DEF LabelAdded
      <4>2. with(l) = {}
        BY <3>2 DEF Indexed
      <4> QED BY <4>1, <4>2, FS_EmptySet
    <3> QED BY <3>1, <3>2
  <2>3. CASE l = r.label
    <3>1. now(l) = with(l) \cup {r}
      BY <2>3
    <3>2. Cardinality(now(l)) = Cardinality(with(l)) + 1
      <4> HIDE DEF now, with
      <4> QED BY <3>1, <2>1, FS_AddElement
    <3>3. new.sums[l].refs = IF idx.sums[l].refs + 1 < 0 THEN 0 ELSE idx.sums[l].refs + 1
      BY <1>1, <2>3 DEF RefsMoved
    <3> HIDE DEF now, with
    <3> QED BY <2>1, <2>2, <3>2, <3>3
  <2>4. CASE l # r.label
    <3>1. now(l) = with(l)
      BY <2>4
    <3>2. idx.sums[l].sid # r.sid
      BY <1>1, <2>4
    <3>3. new.sums[l].refs = idx.sums[l].refs
      BY <1>1, <3>2 DEF RefsMoved
    <3> QED BY <2>2, <3>1, <3>3
  <2> QED BY <2>3, <2>4
<1> QED BY <1>2, <1>3, <1>4 DEF Indexed

\* A memory less, and the index with one reference less and no empty label.
LEMMA IndexedLess ==
  ASSUME NEW S, NEW n, n \notin S, IsFiniteSet(S), NEW old, GoodIndex(old),
         Indexed(S \cup {n}, old), NEW idx, RefsMoved(old, n.sid, -1, idx),
         NEW new, UnusedDropped(idx, new)
  PROVE  Indexed(S, new)
<1> DEFINE T == S \cup {n}
           with(l) == {m \in S : m.label = l}
           was(l) == {m \in T : m.label = l}
<1>1. /\ DOMAIN idx.sums = DOMAIN old.sums
      /\ \A l \in DOMAIN idx.sums : idx.sums[l].sid = old.sums[l].sid
      /\ DOMAIN new.sums = {l \in DOMAIN idx.sums : idx.sums[l].refs > 0}
      /\ \A l \in DOMAIN new.sums : new.sums[l] = idx.sums[l]
      /\ \A l, k \in DOMAIN old.sums : old.sums[l].sid = old.sums[k].sid => l = k
      /\ n.label \in DOMAIN old.sums /\ old.sums[n.label].sid = n.sid
  BY DEF UnusedDropped, RefsMoved, GoodIndex, Indexed
<1>2. ASSUME NEW l \in DOMAIN old.sums
      PROVE  idx.sums[l].refs = Cardinality(with(l)) /\ IsFiniteSet(with(l))
             /\ Cardinality(with(l)) \in Nat
  <2>1. IsFiniteSet(with(l)) /\ Cardinality(with(l)) \in Nat /\ n \notin with(l)
    <3>1. with(l) \subseteq S
      OBVIOUS
    <3> QED BY <3>1, FS_Subset, FS_CardinalityType
  <2>2. old.sums[l].refs = Cardinality(was(l))
    BY DEF Indexed
  <2>3. CASE l = n.label
    <3>1. was(l) = with(l) \cup {n}
      BY <2>3
    <3>2. Cardinality(was(l)) = Cardinality(with(l)) + 1
      <4> HIDE DEF was, with
      <4> QED BY <3>1, <2>1, FS_AddElement
    <3>3. idx.sums[l].refs = IF old.sums[l].refs + -1 < 0 THEN 0 ELSE old.sums[l].refs + -1
      BY <1>1, <2>3 DEF RefsMoved
    <3> HIDE DEF was, with
    <3> QED BY <2>1, <2>2, <3>2, <3>3
  <2>4. CASE l # n.label
    <3>1. was(l) = with(l)
      BY <2>4
    <3>2. old.sums[l].sid # n.sid
      BY <1>1, <2>4
    <3>3. idx.sums[l].refs = old.sums[l].refs
      BY <1>1, <3>2 DEF RefsMoved
    <3> QED BY <2>1, <2>2, <3>1, <3>3
  <2> QED BY <2>3, <2>4
<1>3. DOMAIN new.sums = {m.label : m \in S}
  <2>1. ASSUME NEW m \in S
        PROVE  m.label \in DOMAIN new.sums
    <3>1. m.label \in DOMAIN old.sums
      BY DEF Indexed
    <3>2. with(m.label) # {}
      OBVIOUS
    <3>3. Cardinality(with(m.label)) # 0
      <4> HIDE DEF with
      <4> QED BY <1>2, <3>1, <3>2, FS_EmptySet
    <3> HIDE DEF with
    <3> QED BY <1>1, <1>2, <3>1, <3>3
  <2>2. ASSUME NEW l \in DOMAIN new.sums
        PROVE  l \in {m.label : m \in S}
    <3>1. l \in DOMAIN old.sums /\ Cardinality(with(l)) > 0
      <4> HIDE DEF with
      <4> QED BY <1>1, <1>2
    <3>2. with(l) # {}
      BY <3>1, FS_EmptySet
    <3> QED BY <3>2
  <2> QED BY <2>1, <2>2
<1>4. \A m \in S : new.sums[m.label].sid = m.sid
  BY <1>1, <1>3 DEF Indexed
<1>5. \A l \in DOMAIN new.sums : new.sums[l].refs = Cardinality(with(l))
  <2> HIDE DEF with
  <2> QED BY <1>1, <1>2
<1> QED BY <1>3, <1>4, <1>5 DEF Indexed

\* The list and the index that a compaction writes.
LEMMA IndexedListed ==
  ASSUME NEW list \in Seq(Items), NEW acc, RelabelOf(list, Len(list), acc),
         FactsApart(acc.list)
  PROVE  Indexed(ToSet(acc.list), acc.idx)
<1> DEFINE n == Len(list)
           new == acc.list
           sums == acc.idx.sums
<1>1. n \in Nat /\ new \in Seq(Items) /\ DOMAIN new = 1..n /\ \A k \in 1..n : list[k] \in Items
  BY LenProperties, ElementOfSeq DEF RelabelOf
<1>2. /\ DOMAIN sums = {list[k].label : k \in 1..n}
      /\ \A k \in 1..n : new[k] = [list[k] EXCEPT !.sid = sums[list[k].label].sid]
      /\ \A l \in DOMAIN sums : sums[l].refs = Count(list, n, l)
  BY DEF RelabelOf
<1>3. \A k \in 1..n : new[k].label = list[k].label /\ new[k].sid = sums[list[k].label].sid
  BY <1>1, <1>2 DEF Items
<1>4. ToSet(new) = {new[k] : k \in 1..n}
  BY <1>1 DEF ToSet
<1> HIDE DEF n, new, sums
<1>5. DOMAIN sums = {m.label : m \in ToSet(new)}
  BY <1>2, <1>3, <1>4
<1>6. \A m \in ToSet(new) : sums[m.label].sid = m.sid
  BY <1>3, <1>4
<1>7. ASSUME NEW l \in DOMAIN sums
      PROVE  sums[l].refs = Cardinality({m \in ToSet(new) : m.label = l})
  <2> DEFINE K == {k \in 1..n : list[k].label = l}
             T == {m \in ToSet(new) : m.label = l}
             f == [k \in K |-> new[k]]
  <2>1. f \in Surjection(K, T)
    BY <1>3, <1>4 DEF Surjection
  <2>2. f \in Injection(K, T)
    <3>1. f \in [K -> T]
      BY <1>3, <1>4
    <3>2. \A i, k \in K : f[i] = f[k] => i = k
      BY <1>1 DEF FactsApart, new
    <3> QED BY <3>1, <3>2 DEF Injection, IsInjective
  <2>3. IsFiniteSet(K)
    <3>1. K \subseteq 1..n /\ IsFiniteSet(1..n)
      BY <1>1, FS_Interval
    <3> QED BY <3>1, FS_Subset
  <2>4. Cardinality(T) = Cardinality(K)
    <3> HIDE DEF K, T, f
    <3> QED BY <2>1, <2>2, <2>3, FS_Surjection
  <2> QED BY <1>2, <2>4 DEF Count
<1> QED BY <1>5, <1>6, <1>7 DEF Indexed, new, sums

\* No two memories say the same, but for those that are to be forgotten (X).
ApartBut(S, X) ==
  \A m, n \in S : m.fact = n.fact => m = n \/ m.id \in X \/ n.id \in X

Fits(S, idx, X, whole) == Indexed(S, idx) /\ ApartBut(S, X) /\ whole

Sure == Up /\ ~stale
Trusted == Sure /\ index # Garbled
Whole == ~Unfinished(records)

\* What a call is still to forget.
Owed(j) ==
  IF j.pc \in {"next", "compact"} THEN j.doomed
  ELSE IF j.pc = "find" THEN j.doomed \cup {j.id} ELSE {}

Held(j) ==
  /\ j.replace => j.kind = "store" /\ j.doomed = {}
  /\ j.kind # "store" => j.doomed \subseteq {j.id}
  /\ j.kind # "store" /\ j.pc = "find" => j.doomed = {}
  /\ j.pc = "check" => j.id = 0 \/ j.id \in j.doomed

\* The stages at which the files agree with each other.
Settled == Rest \cup {"check", "find", "next", "compact", "done", "failed"}

\* What the stage of a call tells of the living memories S, the index and the
\* markdown view: what is not on its file yet is in hand.  From the check to
\* the view it takes that no failure left the files apart (sure) and that the
\* index parses (trusted); a compaction does not depend on what was before.
Told(j, S, idx, md, sure, trusted, whole) ==
  /\ Held(j)
  /\ j.pc \in Settled /\ trusted => Fits(S, idx, Owed(j), whole) /\ md = FactsIn(S)
  /\ j.pc = "append" /\ j.part = "store" /\ sure =>
       /\ Fits(S \cup {Last(j.list)}, j.idx, j.doomed, whole)
       /\ ~Last(j.list).gone /\ (\A m \in S : m.id # Last(j.list).id)
       /\ FactsOf(j.list) = FactsIn(S \cup {Last(j.list)})
  /\ j.pc = "append" /\ j.part = "forget" /\ trusted =>
       /\ Fits(S, idx, j.doomed \cup {j.id}, whole)
       /\ FactsOf(j.list) = FactsIn({m \in S : m.id # j.id})
       /\ \E n \in S : n.id = j.id /\ \A r \in ToSet(j.list) :
                         r.id = j.id => r.gone /\ r.sid = n.sid
  /\ j.pc = "reload" /\ trusted =>
       /\ ApartBut(S, j.doomed) /\ whole
       /\ FactsOf(j.list) = FactsIn(S)
       /\ \E n \in Items : /\ n \notin S /\ Indexed(S \cup {n}, idx)
                           /\ \A r \in ToSet(j.list) : r.id = j.id => r.sid = n.sid
  /\ j.pc = "index" /\ sure => Fits(S, j.idx, j.doomed, whole) /\ FactsOf(j.list) = FactsIn(S)
  /\ j.pc = "markdown" /\ sure => Fits(S, idx, j.doomed, whole) /\ FactsOf(j.list) = FactsIn(S)
  /\ j.pc = "newRecords" =>
       /\ OwnIds(ToSet(j.list)) /\ \A m \in ToSet(j.list) : ~m.gone
       /\ Fits(ToSet(j.list), j.idx, {}, TRUE)
  /\ j.pc = "newIndex" => Fits(S, j.idx, {}, whole) /\ FactsOf(j.list) = FactsIn(S)
  /\ j.pc = "newMarkdown" => Fits(S, idx, {}, whole) /\ FactsOf(j.list) = FactsIn(S)

FilesInv ==
  LET S == Active(records)
  IN  /\ \A p \in Procs : job[p].pc \notin Rest =>
           Told(job[p], S, index, markdown, Sure, Trusted, Whole)
      /\ (\A p \in Procs : job[p].pc \in Rest) /\ Trusted =>
           Fits(S, index, {}, Whole) /\ markdown = FactsIn(S)

\* What is to show of a step of p.
LEMMA ToldStep ==
  ASSUME Sound, Single, NEW p \in Procs,
         job[p].pc \notin Rest \/ (p # Main /\ Up),
         \A q \in Procs : q # p => job'[q] = job[q],
         NEW S, S = Active(records)',
         Told(job'[p], S, index', markdown', Sure', Trusted', Whole')
  PROVE  FilesInv'
<1>1. \A q \in Procs : q # p => job'[q].pc \in Rest
  BY OthersRest DEF Sound
<1>2. job'[p].pc \in Rest /\ Trusted' => Fits(S, index', {}, Whole') /\ markdown' = FactsIn(S)
  BY DEF Told, Rest, Settled, Owed
<1> QED BY <1>1, <1>2 DEF FilesInv

\* What holds when p takes a step.
LEMMA ToldNow ==
  ASSUME Sound, Single, FilesInv, NEW p \in Procs,
         job[p].pc \notin Rest \/ (p # Main /\ Up)
  PROVE  LET S == Active(records)
         IN  /\ job[p].pc \notin Rest =>
                  Told(job[p], S, index, markdown, Sure, Trusted, Whole)
             /\ job[p].pc \in Rest /\ Trusted =>
                  Fits(S, index, {}, Whole) /\ markdown = FactsIn(S)
<1>1. \A q \in Procs : q # p => job[q].pc \in Rest
  BY OthersRest DEF Sound
<1> QED BY <1>1 DEF FilesInv

LEMMA UpSame ==
  ASSUME NEW p \in Procs, \A q \in Procs : q # p => job'[q] = job[q], p # Main
  PROVE  Up' = Up
BY DEF Up, At, Procs

\* What is to show of a step of a task that leaves the files.
LEMMA ToldQuiet ==
  ASSUME Sound, Single, NEW p \in Procs, p # Main,
         job[p].pc \notin Rest \/ Up,
         \A q \in Procs : q # p => job'[q] = job[q],
         records' = records, index' = index, markdown' = markdown, stale' = stale,
         Told(job'[p], Active(records), index, markdown, Sure, Trusted, Whole)
  PROVE  FilesInv'
<1> DEFINE S == Active(records)
<1>1. Sure' = Sure /\ Trusted' = Trusted /\ Whole' = Whole /\ S = Active(records)'
  BY UpSame DEF Sure, Trusted, Whole
<1>2. Told(job'[p], S, index', markdown', Sure', Trusted', Whole')
  BY <1>1
<1> HIDE DEF S
<1> QED BY <1>1, <1>2, ToldStep

\* A step after which the files are not trusted.
LEMMA ToldUntrusted ==
  ASSUME Sound, Single, FilesInv, NEW p \in Procs, NEW from, NEW pc, Goes(p, from, pc),
         from \notin Rest, pc \in Settled \ {"check", "find"}, ~Trusted'
  PROVE  FilesInv'
<1> DEFINE j == job'[p]
           o == job[p]
           S == Active(records)
           T == Active(records)'
<1>1. /\ j.pc = pc /\ j.id = o.id /\ j.doomed = o.doomed /\ j.kind = o.kind
      /\ j.replace = o.replace /\ o.pc = from
      /\ \A q \in Procs : q # p => job'[q] = job[q]
  BY DEF Goes, Becomes
<1>2. Held(o)
  <2>1. Told(o, S, index, markdown, Sure, Trusted, Whole)
    BY <1>1, ToldNow
  <2> QED BY <2>1 DEF Told
<1> HIDE DEF j, o
<1>3. Held(j)
  BY <1>1, <1>2 DEF Held
<1>4. Told(j, T, index', markdown', Sure', Trusted', Whole')
  BY <1>1, <1>3 DEF Told, Settled, Rest
<1> HIDE DEF T
<1> QED BY <1>1, <1>4, ToldStep DEF j, o, T

LEMMA ToldApart ==
  ASSUME Sound, Single, FilesInv, NEW p \in Procs
  PROVE  /\ Create => FilesInv'
         /\ IndexUnread(p) => FilesInv'
         /\ OpenFails(p) => FilesInv'
<1>1. Main \in Procs /\ Shaped
  BY DEF Procs, Sound
<1>2. ASSUME Create PROVE FilesInv'
  <2>1. Goes(Main, "create", "compact")
    BY <1>1, <1>2, GotoEffects
  <2>2. ~Trusted'
    BY <2>1 DEF Goes, Becomes, Trusted, Sure, Up, At
  <2> QED BY <1>1, <2>1, <2>2, ToldUntrusted DEF Rest, Settled
<1>3. ASSUME IndexUnread(p) PROVE FilesInv'
  <2>1. /\ job[p].pc \in {"check", "reload", "compact"}
        /\ Goes(p, job[p].pc, IF p = Main THEN "up" ELSE "failed")
    BY <1>1, <1>3, GotoEffects
  <2>2. ~Trusted'
    BY <1>3 DEF IndexUnread, Trusted
  <2> QED BY <2>1, <2>2, ToldUntrusted DEF Rest, Settled
<1>4. ASSUME OpenFails(p) PROVE FilesInv'
  <2>1. /\ job[p].pc \in {"append", "index", "markdown", "newRecords", "newIndex", "newMarkdown"}
        /\ Goes(p, job[p].pc, "failed")
    BY <1>1, <1>4, GotoEffects
  <2>2. ~Trusted'
    BY <1>4 DEF OpenFails, Trusted, Sure
  <2> QED BY <2>1, <2>2, ToldUntrusted DEF Rest, Settled
<1> QED BY <1>2, <1>3, <1>4

LEMMA HeldNow ==
  ASSUME Sound, Single, FilesInv, NEW p \in Procs, job[p].pc \notin Rest
  PROVE  Held(job[p])
<1>1. Told(job[p], Active(records), index, markdown, Sure, Trusted, Whole)
  BY ToldNow
<1> QED BY <1>1 DEF Told

\* What is to show of a step between stages at which the files agree.
LEMMA ToldOn ==
  ASSUME Sound, Single, FilesInv, NEW p \in Procs, p # Main,
         job[p].pc \notin Rest \/ Up, job[p].pc \in Settled, job'[p].pc \in Settled,
         \A q \in Procs : q # p => job'[q] = job[q],
         records' = records, index' = index, markdown' = markdown, stale' = stale,
         Held(job'[p]),
         ApartBut(Active(records), Owed(job[p])) => ApartBut(Active(records), Owed(job'[p]))
  PROVE  FilesInv'
<1> DEFINE S == Active(records)
           j == job'[p]
           o == job[p]
<1>1. Trusted => Fits(S, index, Owed(o), Whole) /\ markdown = FactsIn(S)
  <2>1. CASE o.pc \notin Rest
    <3>1. Told(o, S, index, markdown, Sure, Trusted, Whole)
      BY <2>1, ToldNow
    <3> QED BY <3>1 DEF Told
  <2>2. CASE o.pc \in Rest
    <3>1. Owed(o) = {}
      BY <2>2 DEF Owed, Rest
    <3>2. Trusted => Fits(S, index, {}, Whole) /\ markdown = FactsIn(S)
      BY <2>2, ToldNow
    <3> QED BY <3>1, <3>2
  <2> QED BY <2>1, <2>2
<1>2. Trusted => Fits(S, index, Owed(j), Whole) /\ markdown = FactsIn(S)
  BY <1>1 DEF Fits
<1> HIDE DEF S, j, o
<1>3. j.pc \in Settled /\ Held(j)
  BY DEF j
<1>4. Told(j, S, index, markdown, Sure, Trusted, Whole)
  BY <1>2, <1>3 DEF Told, Settled, Rest
<1> QED BY <1>4, ToldQuiet DEF j, o, S

LEMMA ToldQuieter ==
  ASSUME Sound, Single, FilesInv, NEW p \in Procs
  PROVE  /\ CheckKnown(p) => FilesInv'
         /\ NotFound(p) => FilesInv'
         /\ Conflicts(p) => FilesInv'
         /\ ForgetNext(p) => FilesInv'
         /\ Finish(p) => FilesInv'
<1> DEFINE S == Active(records)
           j == job'[p]
           o == job[p]
<1>1. Shaped
  BY DEF Sound
<1>2. o.pc \in {"check", "find", "next"} => Held(o) /\ p # Main
  BY <1>1, HeldNow, Turn DEF Rest, BootStages
<1>3. ASSUME CheckKnown(p) PROVE FilesInv'
  <2>1. records' = records /\ index' = index /\ markdown' = markdown /\ stale' = stale
    BY <1>3 DEF CheckKnown
  <2>2. /\ o.pc = "check" /\ j.pc = "next" /\ j.kind = o.kind /\ j.id = o.id
        /\ j.doomed = o.doomed /\ j.replace = FALSE
        /\ \A q \in Procs : q # p => job'[q] = job[q]
    BY <1>1, <1>3, StoreEffects DEF Becomes
  <2> HIDE DEF S, j, o
  <2>3. Held(j)
    BY <1>2, <2>2 DEF Held
  <2>4. Owed(o) = {} /\ (ApartBut(S, {}) => ApartBut(S, Owed(j)))
    BY <2>2 DEF Owed, ApartBut
  <2> QED BY <1>2, <2>1, <2>2, <2>3, <2>4, ToldOn DEF S, j, o, Rest, Settled
<1>4. ASSUME NotFound(p) PROVE FilesInv'
  <2>1. /\ records' = records /\ index' = index /\ markdown' = markdown /\ stale' = stale
        /\ \A m \in S : m.id # o.id
    BY <1>4 DEF NotFound
  <2>2. /\ o.pc = "find" /\ j.pc = IF o.kind = "store" THEN "next" ELSE "failed"
        /\ j.kind = o.kind /\ j.id = o.id /\ j.doomed = o.doomed /\ j.replace = o.replace
        /\ \A q \in Procs : q # p => job'[q] = job[q]
    BY <1>1, <1>4, StoreEffects DEF Becomes
  <2> HIDE DEF S, j, o
  <2>3. Held(j)
    BY <1>2, <2>2 DEF Held
  <2>4. Owed(j) = o.doomed
    BY <1>2, <2>2 DEF Owed, Held
  <2>5. ApartBut(S, Owed(o)) => ApartBut(S, Owed(j))
    BY <2>1, <2>2, <2>4 DEF Owed, ApartBut
  <2>6. j.pc \in {"next", "failed"}
    BY <2>2
  <2> QED BY <1>2, <2>1, <2>2, <2>3, <2>5, <2>6, ToldOn DEF S, j, o, Rest, Settled
<1>5. ASSUME Conflicts(p) PROVE FilesInv'
  <2>1. records' = records /\ index' = index /\ markdown' = markdown /\ stale' = stale /\ o.replace
    BY <1>5 DEF Conflicts
  <2>2. /\ o.pc = "next" /\ j.pc = "next" /\ j.kind = o.kind /\ j.id = o.id
        /\ j.replace = FALSE
        /\ \A q \in Procs : q # p => job'[q] = job[q]
    BY <1>1, <1>5, StoreEffects DEF Becomes
  <2> HIDE DEF S, j, o
  <2>3. o.kind = "store" /\ o.doomed = {}
    BY <1>2, <2>1, <2>2 DEF Held
  <2>4. Held(j)
    BY <2>2, <2>3 DEF Held
  <2>5. Owed(o) = {} /\ (ApartBut(S, {}) => ApartBut(S, Owed(j)))
    BY <2>2, <2>3 DEF Owed, ApartBut
  <2> QED BY <1>2, <2>1, <2>2, <2>4, <2>5, ToldOn DEF S, j, o, Rest, Settled
<1>6. ASSUME ForgetNext(p) PROVE FilesInv'
  <2>1. /\ records' = records /\ index' = index /\ markdown' = markdown /\ stale' = stale
        /\ ~o.replace
    BY <1>6 DEF ForgetNext
  <2>2. /\ o.pc = "next" /\ j.pc = "find" /\ j.kind = o.kind /\ j.replace = o.replace
        /\ j.id \in o.doomed /\ j.doomed = o.doomed \ {j.id}
        /\ \A q \in Procs : q # p => job'[q] = job[q]
    BY <1>1, <1>6, NextEffects DEF Becomes
  <2> HIDE DEF S, j, o
  <2>3. Held(j)
    BY <1>2, <2>1, <2>2 DEF Held
  <2>4. Owed(o) = Owed(j)
    BY <2>2 DEF Owed
  <2> QED BY <1>2, <2>1, <2>2, <2>3, <2>4, ToldOn DEF S, j, o, Rest, Settled
<1>7. ASSUME Finish(p) PROVE FilesInv'
  <2>1. /\ records' = records /\ index' = index /\ markdown' = markdown /\ stale' = stale
        /\ o.doomed = {} /\ ~o.replace
    BY <1>7 DEF Finish
  <2>2. /\ o.pc = "next" /\ j.pc \in {"compact", "done"} /\ j.kind = o.kind
        /\ j.replace = o.replace /\ j.doomed = o.doomed
        /\ \A q \in Procs : q # p => job'[q] = job[q]
    BY <1>1, <1>7, NextEffects DEF Becomes
  <2> HIDE DEF S, j, o
  <2>3. Held(j)
    BY <2>1, <2>2 DEF Held
  <2>4. Owed(o) = {} /\ Owed(j) = {}
    BY <2>1, <2>2 DEF Owed
  <2> QED BY <1>2, <2>1, <2>2, <2>3, <2>4, ToldOn DEF S, j, o, Rest, Settled
<1> QED BY <1>3, <1>4, <1>5, <1>6, <1>7

LEMMA ToldCalls ==
  ASSUME Sound, Single, FilesInv, NEW w \in Writers
  PROVE  /\ \A fact \in Facts, label \in Labels, replace \in BOOLEAN :
              BeginStore(w, fact, label, replace) => FilesInv'
         /\ \A fact \in Facts, label \in Labels, id \in 1..lastId :
              BeginUpdate(w, id, fact, label) => FilesInv'
         /\ \A id \in 1..lastId : BeginForget(w, id) => FilesInv'
         /\ \A label \in Labels : Recall(w, label) => FilesInv'
         /\ Return(w) => FilesInv'
<1> DEFINE S == Active(records)
           j == job'[w]
           o == job[w]
<1>1. w \in Procs /\ w # Main /\ Shaped
  BY MemoryAssumption DEF Procs, Sound
<1>2. ASSUME Up \/ o.pc \notin Rest, \A q \in Procs : q # w => job'[q] = job[q],
             records' = records, index' = index, markdown' = markdown, stale' = stale,
             o.pc \in {"idle", "done", "failed"},
             \/ j.pc = "check" /\ j.id = 0 /\ j.doomed = {} /\ j.kind = "store"
             \/ j.pc = "check" /\ j.id \in j.doomed /\ j.doomed = {j.id} /\ ~j.replace
             \/ j.pc = "find" /\ j.doomed = {} /\ ~j.replace
             \/ j.pc = "idle" /\ j.doomed = {} /\ ~j.replace
      PROVE  FilesInv'
  <2> HIDE DEF j, o, S
  <2>1. Held(j) /\ Owed(o) = {}
    BY <1>2 DEF Held, Owed
  <2>2. ApartBut(S, {}) => ApartBut(S, Owed(j))
    BY DEF ApartBut
  <2>3. j.pc \in Settled /\ o.pc \in Settled
    BY <1>2 DEF Settled, Rest
  <2> QED BY <1>1, <1>2, <2>1, <2>2, <2>3, ToldOn DEF S, j, o
<1>3. ASSUME NEW fact \in Facts, NEW label \in Labels, NEW replace \in BOOLEAN,
             BeginStore(w, fact, label, replace)
      PROVE  FilesInv'
  <2>1. /\ Up /\ o.pc = "idle"
        /\ Becomes(w, "check", "store", fact, label, 0, "store", {}, replace,
                   TRUE, FALSE, <<>>, NewIndex)
    BY <1>1, <1>3, CallEffects, Zenon
  <2>2. /\ j.pc = "check" /\ j.id = 0 /\ j.doomed = {} /\ j.kind = "store"
        /\ \A q \in Procs : q # w => job'[q] = job[q]
    BY <2>1 DEF Becomes
  <2>3. records' = records /\ index' = index /\ markdown' = markdown /\ stale' = stale
    BY <1>3 DEF BeginStore, Begin
  <2> HIDE DEF j, o
  <2> QED BY <1>2, <2>1, <2>2, <2>3
<1>4. ASSUME NEW fact \in Facts, NEW label \in Labels, NEW id \in 1..lastId,
             BeginUpdate(w, id, fact, label)
      PROVE  FilesInv'
  <2>1. /\ Up /\ o.pc = "idle"
        /\ Becomes(w, "check", "update", fact, label, id, "store", {id}, FALSE,
                   TRUE, FALSE, <<>>, NewIndex)
    BY <1>1, <1>4, CallEffects, Zenon
  <2>2. /\ j.pc = "check" /\ j.doomed = {id} /\ j.id = id /\ j.replace = FALSE
        /\ \A q \in Procs : q # w => job'[q] = job[q]
    BY <2>1 DEF Becomes
  <2>3. records' = records /\ index' = index /\ markdown' = markdown /\ stale' = stale
    BY <1>4 DEF BeginUpdate, Begin
  <2> HIDE DEF j, o
  <2>4. j.pc = "check" /\ j.id \in j.doomed /\ j.doomed = {j.id} /\ ~j.replace
    BY <2>2
  <2> QED BY <1>2, <2>1, <2>2, <2>3, <2>4
<1>5. ASSUME NEW id \in 1..lastId, BeginForget(w, id)
      PROVE  FilesInv'
  <2>1. /\ Up /\ o.pc = "idle" /\ j.pc = "find" /\ j.doomed = {} /\ j.replace = FALSE
        /\ \A q \in Procs : q # w => job'[q] = job[q]
    BY <1>1, <1>5, CallEffects DEF Becomes
  <2>2. records' = records /\ index' = index /\ markdown' = markdown /\ stale' = stale
    BY <1>5 DEF BeginForget, Begin
  <2> HIDE DEF j, o
  <2> QED BY <1>2, <2>1, <2>2
<1>6. ASSUME NEW label \in Labels, Recall(w, label)
      PROVE  FilesInv'
  <2>1. records' = records /\ index' = index /\ markdown' = markdown /\ stale' = stale
        /\ job' = job
    BY <1>6 DEF Recall
  <2> QED BY <2>1 DEF FilesInv, Sure, Trusted, Whole, Up, At
<1>7. ASSUME Return(w) PROVE FilesInv'
  <2>1. /\ o.pc \in {"done", "failed"} /\ j.pc = "idle" /\ j.doomed = {} /\ j.replace = FALSE
        /\ \A q \in Procs : q # w => job'[q] = job[q]
    BY <1>1, <1>7, CallEffects DEF Becomes
  <2>2. records' = records /\ index' = index /\ markdown' = markdown /\ stale' = stale
    BY <1>7 DEF Return
  <2>3. o.pc \notin Rest
    BY <2>1 DEF Rest
  <2> HIDE DEF j, o
  <2> QED BY <1>2, <2>1, <2>2, <2>3
<1> QED BY <1>3, <1>4, <1>5, <1>6, <1>7

LEMMA ToldFiled ==
  ASSUME Sound, Single, FilesInv, NEW p \in Procs
  PROVE  /\ SaveIndex(p) => FilesInv'
         /\ SyncMarkdown(p) => FilesInv'
         /\ CompactEnd(p) => FilesInv'
<1> DEFINE S == Active(records)
           T == Active(records)'
           j == job'[p]
           o == job[p]
<1>1. Shaped
  BY DEF Sound
<1>2. o.pc \notin Rest => Told(o, S, index, markdown, Sure, Trusted, Whole) /\ Held(o)
  BY ToldNow, HeldNow
<1>3. ASSUME NEW from, NEW pc, Goes(p, from, pc)
      PROVE  /\ o.pc = from /\ j.pc = pc /\ j.kind = o.kind /\ j.id = o.id
             /\ j.doomed = o.doomed /\ j.replace = o.replace
             /\ j.list = o.list /\ j.idx = o.idx
             /\ \A q \in Procs : q # p => job'[q] = job[q]
  BY <1>3 DEF Goes, Becomes
<1>4. ASSUME SaveIndex(p) PROVE FilesInv'
  <2>1. /\ records' = records /\ markdown' = markdown /\ stale' = stale /\ index' = o.idx
        /\ T = S /\ Whole' = Whole
    BY <1>4 DEF SaveIndex, Whole
  <2>2. Goes(p, "index", "markdown") \/ Goes(p, "newIndex", "newMarkdown")
    BY <1>1, <1>4, GotoEffects
  <2>3. CASE Goes(p, "index", "markdown")
    <3>1. /\ o.pc = "index" /\ j.pc = "markdown" /\ j.kind = o.kind /\ j.id = o.id
          /\ j.doomed = o.doomed /\ j.replace = o.replace /\ j.list = o.list
          /\ \A q \in Procs : q # p => job'[q] = job[q]
      BY <1>3, <2>3
    <3>2. p # Main
      BY <1>1, <3>1, Turn DEF BootStages
    <3>3. Sure' = Sure
      BY <2>1, <3>1, <3>2, UpSame DEF Sure
    <3> HIDE DEF S, T, j, o
    <3>4. Held(j) /\ (Sure => Fits(S, o.idx, o.doomed, Whole) /\ FactsOf(o.list) = FactsIn(S))
      BY <1>2, <3>1 DEF Told, Held, Rest
    <3>5. Told(j, T, index', markdown', Sure', Trusted', Whole')
      BY <2>1, <3>1, <3>3, <3>4 DEF Told, Settled, Rest
    <3> QED BY <3>1, <3>5, ToldStep DEF Rest, T, j, o
  <2>4. CASE Goes(p, "newIndex", "newMarkdown")
    <3>1. /\ o.pc = "newIndex" /\ j.pc = "newMarkdown" /\ j.kind = o.kind /\ j.id = o.id
          /\ j.doomed = o.doomed /\ j.replace = o.replace /\ j.list = o.list
          /\ \A q \in Procs : q # p => job'[q] = job[q]
      BY <1>3, <2>4
    <3> HIDE DEF S, T, j, o
    <3>2. Held(j) /\ Fits(S, o.idx, {}, Whole) /\ FactsOf(o.list) = FactsIn(S)
      BY <1>2, <3>1 DEF Told, Held, Rest
    <3>3. Told(j, T, index', markdown', Sure', Trusted', Whole')
      BY <2>1, <3>1, <3>2 DEF Told, Settled, Rest
    <3> QED BY <3>1, <3>3, ToldStep DEF Rest, T, j, o
  <2> QED BY <2>2, <2>3, <2>4
<1>5. ASSUME SyncMarkdown(p) PROVE FilesInv'
  <2>1. /\ records' = records /\ index' = index /\ stale' = stale
        /\ markdown' = FactsOf(o.list) /\ T = S /\ Whole' = Whole
    BY <1>5 DEF SyncMarkdown, Whole
  <2>2. Goes(p, "markdown", "compact") \/ Goes(p, "markdown", "next")
    BY <1>1, <1>5, GotoEffects
  <2>3. /\ o.pc = "markdown" /\ j.pc \in {"compact", "next"} /\ j.kind = o.kind /\ j.id = o.id
        /\ j.doomed = o.doomed /\ j.replace = o.replace
        /\ \A q \in Procs : q # p => job'[q] = job[q]
    BY <1>3, <2>2
  <2>4. p # Main
    BY <1>1, <2>3, Turn DEF BootStages
  <2>5. Sure' = Sure /\ Trusted' = Trusted
    BY <2>1, <2>3, <2>4, UpSame DEF Sure, Trusted
  <2> HIDE DEF S, T, j, o
  <2>6. Held(j) /\ (Sure => Fits(S, index, o.doomed, Whole) /\ FactsOf(o.list) = FactsIn(S))
    BY <1>2, <2>3 DEF Told, Held, Rest
  <2>7. Owed(j) = o.doomed
    BY <2>3 DEF Owed
  <2>8. Trusted => Sure
    BY DEF Trusted
  <2>9. Told(j, T, index', markdown', Sure', Trusted', Whole')
    BY <2>1, <2>3, <2>5, <2>6, <2>7, <2>8 DEF Told, Settled, Rest
  <2> QED BY <2>3, <2>9, ToldStep DEF Rest, T, j, o
<1>6. ASSUME CompactEnd(p) PROVE FilesInv'
  <2>1. /\ records' = records /\ index' = index
        /\ markdown' = FactsOf(o.list) /\ T = S /\ Whole' = Whole
    BY <1>6 DEF CompactEnd, Whole
  <2>2. Goes(p, "newMarkdown", IF p = Main THEN "up" ELSE "next")
    BY <1>1, <1>6, GotoEffects
  <2>3. /\ o.pc = "newMarkdown" /\ j.pc \in {"up", "next"} /\ j.kind = o.kind /\ j.id = o.id
        /\ j.doomed = o.doomed /\ j.replace = o.replace
        /\ \A q \in Procs : q # p => job'[q] = job[q]
    BY <1>3, <2>2
  <2> HIDE DEF S, T, j, o
  <2>4. Held(j) /\ Fits(S, index, {}, Whole) /\ FactsOf(o.list) = FactsIn(S)
    BY <1>2, <2>3 DEF Told, Held, Rest
  <2>5. Fits(T, index', Owed(j), Whole') /\ markdown' = FactsIn(T)
    BY <2>1, <2>4 DEF Fits, ApartBut
  <2>6. Told(j, T, index', markdown', Sure', Trusted', Whole')
    BY <2>3, <2>4, <2>5 DEF Told, Settled, Rest
  <2> QED BY <2>3, <2>6, ToldStep DEF Rest, T, j, o
<1> QED BY <1>4, <1>5, <1>6

LEMMA ToldRewrite ==
  ASSUME Sound, Single, FilesInv, Long = {}, NEW p \in Procs, RewriteRecords(p)
  PROVE  FilesInv'
<1> DEFINE T == Active(records)'
           j == job'[p]
           o == job[p]
           L == ToSet(o.list)
<1>1. /\ Shaped /\ records' = Written(o.list) /\ index' = index
  BY DEF Sound, RewriteRecords
<1>2. /\ o.pc = "newRecords" /\ j.pc = "newIndex" /\ j.kind = o.kind /\ j.id = o.id
      /\ j.doomed = o.doomed /\ j.replace = o.replace /\ j.list = o.list /\ j.idx = o.idx
      /\ \A q \in Procs : q # p => job'[q] = job[q]
  BY <1>1, GotoEffects DEF Goes, Becomes
<1>3. o.list \in Seq(Items)
  BY <1>1, JobFields DEF Shaped, TypeOK
<1>4. records' = o.list
  BY <1>1, <1>3, ListWritten
<1>5. o.list \in Seq(Lines) /\ Torn \notin L
  BY <1>3, ToSetSeq, MemoryAssumption DEF Lines
<1>6. Told(o, Active(records), index, markdown, Sure, Trusted, Whole) /\ Held(o)
  BY <1>2, ToldNow, HeldNow DEF Rest
<1>7. OwnIds(L) /\ (\A m \in L : ~m.gone) /\ Fits(L, o.idx, {}, TRUE)
  BY <1>2, <1>6 DEF Told
<1>8. ToSet(Current(records))' = L
  <2>1. L \ {Torn} = L
    BY <1>5
  <2>2. ToSet(Current(records))' = ToSet(Current(o.list))
    BY <1>4
  <2>3. ToSet(Current(o.list)) = L
    BY <1>5, <1>7, <2>1, CurrentWhole
  <2> QED BY <2>2, <2>3
<1>9. T = L
  BY <1>7, <1>8 DEF Active, Living
<1>10. Whole'
  <2>1. SUFFICES ASSUME o.list # <<>>, Last(o.list) = Torn PROVE FALSE
    BY <1>4 DEF Whole, Unfinished
  <2>2. Len(o.list) \in Nat \ {0} /\ DOMAIN o.list = 1..Len(o.list)
    BY <1>3, <2>1, LenProperties, EmptySeq
  <2>3. Torn \in L
    BY <2>1, <2>2 DEF Last, ToSet
  <2> QED BY <1>5, <2>3
<1>11. FactsOf(o.list) = FactsIn(L)
  BY <1>7 DEF FactsOf, FactsIn, Living
<1> HIDE DEF T, j, o, L
<1>12. Held(j)
  BY <1>2, <1>6 DEF Held
<1>13. Told(j, T, index', markdown', Sure', Trusted', Whole')
  BY <1>2, <1>7, <1>9, <1>10, <1>11, <1>12 DEF Told, Settled, Rest, Fits
<1> QED BY <1>2, <1>13, ToldStep DEF T, j, o, Rest

\* A record that was written ends the file.
LEMMA RecordWhole ==
  ASSUME Shaped, NEW p \in Procs, AppendRecord(p), ~Unfinished(records)
  PROVE  Whole'
<1> DEFINE r == Record(p)
           file == Append(records, r)
<1>1. records \in Seq(Lines) /\ r \in Items /\ records' = file
  BY ActiveTyped, RecordTyped DEF AppendRecord, WithRecord
<1>2. r \in Lines /\ r # Torn
  BY <1>1, MemoryAssumption DEF Lines
<1> HIDE DEF r
<1>3. file \in Seq(Lines) /\ Len(file) = Len(records) + 1 /\ file[Len(records) + 1] = r
  BY <1>1, <1>2, AppendProperties
<1>4. Last(file) = r
  BY <1>3 DEF Last
<1> HIDE DEF file
<1> QED BY <1>1, <1>2, <1>4 DEF Whole, Unfinished

LEMMA ToldStored ==
  ASSUME Sound, Single, FilesInv, NEW p \in Procs, AppendRecord(p), job[p].part = "store"
  PROVE  FilesInv'
<1> DEFINE S == Active(records)
           T == Active(records)'
           C == ToSet(Current(records))
           D == ToSet(Current(records))'
           j == job'[p]
           o == job[p]
           r == Record(p)
<1>1. /\ Shaped /\ At(p, "append") /\ records' = WithRecord(records, Record(p))
      /\ index' = index /\ stale' = stale
  BY DEF Sound, AppendRecord
<1>2. /\ o.pc = "append" /\ j.pc = "index" /\ j.kind = o.kind /\ j.id = o.id
      /\ j.doomed = o.doomed /\ j.replace = o.replace /\ j.list = o.list /\ j.idx = o.idx
      /\ \A q \in Procs : q # p => job'[q] = job[q]
  BY <1>1, StoreEffects DEF Becomes
<1>3. p # Main
  BY <1>1, <1>2, Turn DEF BootStages
<1>4. Sure' = Sure
  BY <1>1, <1>2, <1>3, UpSame DEF Sure
<1>5. Told(o, S, index, markdown, Sure, Trusted, Whole) /\ Held(o)
  BY <1>2, ToldNow, HeldNow DEF Rest
<1>6. r = Last(o.list)
  BY <1>1, RecordTyped
<1>7. S = {m \in C : ~m.gone} /\ T = {m \in D : ~m.gone}
  <2>1. T = {m \in D : ~m.gone}
    BY DEF Active, Living
  <2> QED BY <1>1, <2>1, ActiveTyped
<1>8. ~Unfinished(records) => D = {m \in C : m.id # r.id} \cup {r}
  BY <1>1, Appended
<1>9. ~Unfinished(records) => Whole'
  BY <1>1, RecordWhole
<1>10. Whole => ~Unfinished(records)
  BY DEF Whole
<1> HIDE DEF S, T, C, D, j, o, r
<1>11. ASSUME Sure
       PROVE  Fits(T, o.idx, o.doomed, Whole') /\ FactsOf(o.list) = FactsIn(T)
  <2>1. /\ Fits(S \cup {r}, o.idx, o.doomed, Whole)
        /\ ~r.gone /\ (\A m \in S : m.id # r.id)
        /\ FactsOf(o.list) = FactsIn(S \cup {r})
    BY <1>2, <1>5, <1>6, <1>11 DEF Told, o
  <2>2. ~Unfinished(records)
    BY <1>10, <2>1 DEF Fits
  <2>3. T = S \cup {r}
    BY <1>7, <1>8, <2>1, <2>2
  <2> QED BY <1>9, <2>1, <2>2, <2>3 DEF Fits
<1>12. Held(j)
  BY <1>2, <1>5 DEF Held
<1>13. Told(j, T, index', markdown', Sure', Trusted', Whole')
  BY <1>2, <1>4, <1>11, <1>12 DEF Told, Settled, Rest
<1> QED BY <1>2, <1>13, ToldStep DEF T, j, o, Rest

LEMMA ToldForgot ==
  ASSUME Sound, Single, FilesInv, NEW p \in Procs, AppendRecord(p), job[p].part = "forget"
  PROVE  FilesInv'
<1> DEFINE S == Active(records)
           T == Active(records)'
           C == ToSet(Current(records))
           D == ToSet(Current(records))'
           j == job'[p]
           o == job[p]
           r == Record(p)
<1>1. /\ Shaped /\ At(p, "append") /\ records' = WithRecord(records, Record(p))
      /\ index' = index /\ stale' = stale
  BY DEF Sound, AppendRecord
<1>2. /\ o.pc = "append" /\ j.pc = "reload" /\ j.kind = o.kind /\ j.id = o.id
      /\ j.doomed = o.doomed /\ j.replace = o.replace /\ j.list = o.list /\ j.part = o.part
      /\ \A q \in Procs : q # p => job'[q] = job[q]
  BY <1>1, StoreEffects DEF Becomes
<1>3. p # Main
  BY <1>1, <1>2, Turn DEF BootStages
<1>4. Trusted' = Trusted
  BY <1>1, <1>2, <1>3, UpSame DEF Sure, Trusted
<1>5. Told(o, S, index, markdown, Sure, Trusted, Whole) /\ Held(o)
  BY <1>2, ToldNow, HeldNow DEF Rest
<1>6. r \in ToSet(o.list) /\ r.id = o.id
  BY <1>1, RecordTyped
<1>7. /\ S = {m \in C : ~m.gone} /\ T = {m \in D : ~m.gone}
      /\ OwnIds(C) /\ C \subseteq Items
  <2>1. T = {m \in D : ~m.gone}
    BY DEF Active, Living
  <2> QED BY <1>1, <2>1, ActiveTyped
<1>8. ~Unfinished(records) => D = {m \in C : m.id # r.id} \cup {r}
  BY <1>1, Appended
<1>9. ~Unfinished(records) => Whole'
  BY <1>1, RecordWhole
<1>10. Whole => ~Unfinished(records)
  BY DEF Whole
<1> HIDE DEF S, T, C, D, j, o, r
<1>11. ASSUME Trusted'
       PROVE  /\ ApartBut(T, j.doomed) /\ Whole'
              /\ FactsOf(j.list) = FactsIn(T)
              /\ \E n \in Items : /\ n \notin T /\ Indexed(T \cup {n}, index')
                                  /\ \A m \in ToSet(j.list) : m.id = j.id => m.sid = n.sid
  <2>1. /\ Fits(S, index, o.doomed \cup {o.id}, Whole)
        /\ FactsOf(o.list) = FactsIn({m \in S : m.id # o.id})
        /\ \E n \in S : n.id = o.id /\ \A m \in ToSet(o.list) :
                           m.id = o.id => m.gone /\ m.sid = n.sid
    BY <1>2, <1>4, <1>5, <1>11 DEF Told, o
  <2>2. PICK n \in S : n.id = o.id /\ \A m \in ToSet(o.list) :
                          m.id = o.id => m.gone /\ m.sid = n.sid
    BY <2>1
  <2>3. ~Unfinished(records) /\ r.gone
    BY <1>6, <1>10, <2>1, <2>2 DEF Fits
  <2>4. T = {m \in S : m.id # o.id}
    BY <1>6, <1>7, <1>8, <2>3
  <2>5. T \cup {n} = S /\ n \notin T /\ n \in Items
    BY <1>7, <2>2, <2>4 DEF OwnIds
  <2>6. ApartBut(T, o.doomed)
    BY <2>1, <2>4 DEF Fits, ApartBut
  <2>7. Indexed(T \cup {n}, index)
    BY <2>1, <2>5 DEF Fits
  <2>8. index' = index /\ j.doomed = o.doomed /\ j.list = o.list /\ j.id = o.id
    BY <1>1, <1>2
  <2>9. ApartBut(T, j.doomed) /\ Whole' /\ FactsOf(j.list) = FactsIn(T)
    BY <1>9, <2>1, <2>3, <2>4, <2>6, <2>8
  <2>10. Indexed(T \cup {n}, index')
    BY <2>7, <2>8
  <2>11. \A m \in ToSet(j.list) : m.id = j.id => m.sid = n.sid
    BY <2>2, <2>8
  <2> QED BY <2>5, <2>9, <2>10, <2>11
<1>12. Held(j)
  BY <1>2, <1>5 DEF Held
<1>13. Told(j, T, index', markdown', Sure', Trusted', Whole')
  <2>1. j.pc = "reload"
    BY <1>2
  <2> QED BY <1>11, <1>12, <2>1 DEF Told, Settled, Rest
<1>14. o.pc \notin Rest /\ \A q \in Procs : q # p => job'[q] = job[q]
  BY <1>2 DEF Rest
<1> QED BY <1>13, <1>14, ToldStep DEF T, j, o

LEMMA ToldFind ==
  ASSUME Sound, Single, FilesInv, NEW p \in Procs, Find(p)
  PROVE  FilesInv'
<1> DEFINE S == Active(records)
           C == ToSet(Current(records))
           j == job'[p]
           o == job[p]
           L == ToSet(Marked(Current(records), o.id))
<1>1. /\ Shaped /\ records' = records /\ index' = index /\ markdown' = markdown
      /\ stale' = stale /\ \E n \in S : n.id = o.id
  BY DEF Sound, Find
<1>2. /\ o.pc = "find" /\ j.pc = "append" /\ j.kind = o.kind /\ j.id = o.id
      /\ j.doomed = o.doomed /\ j.replace = o.replace /\ j.part = o.part
      /\ j.list = Marked(Current(records), o.id)
      /\ \A q \in Procs : q # p => job'[q] = job[q]
  BY <1>1, StoreEffects DEF Becomes
<1>3. p # Main /\ o.part = "forget" /\ o.pc \notin Rest
  BY <1>1, <1>2, Turn DEF BootStages, GoodJob, Rest
<1>4. Told(o, S, index, markdown, Sure, Trusted, Whole) /\ Held(o)
  BY <1>2, ToldNow, HeldNow DEF Rest
<1>5. S = {m \in C : ~m.gone} /\ OwnIds(C)
  BY <1>1, ActiveTyped
<1>6. /\ \A m \in L : /\ m.id = o.id => m.gone
                      /\ \E n \in C : n.id = m.id /\ n.sid = m.sid
                      /\ m.id # o.id => m \in C
      /\ \A m \in C : m.id # o.id => m \in L
  BY <1>1, MarkedList
<1>7. FactsOf(j.list) = {m.fact : m \in {n \in L : ~n.gone}}
  BY <1>2 DEF FactsOf, Living
<1>8. ToSet(j.list) = L
  BY <1>2
<1> HIDE DEF S, C, j, o, L
<1>9. FactsOf(j.list) = FactsIn({m \in S : m.id # o.id})
  <2>1. {n \in L : ~n.gone} = {m \in S : m.id # o.id}
    BY <1>5, <1>6
  <2> QED BY <1>7, <2>1 DEF FactsIn
<1>10. \E n \in S : n.id = j.id /\ \A r \in ToSet(j.list) :
                      r.id = j.id => r.gone /\ r.sid = n.sid
  <2>1. PICK n \in S : n.id = o.id
    BY <1>1
  <2>2. ASSUME NEW r \in L, r.id = o.id PROVE r.gone /\ r.sid = n.sid
    BY <1>5, <1>6, <2>1, <2>2 DEF OwnIds
  <2> QED BY <1>2, <1>8, <2>1, <2>2
<1>11. Trusted => Fits(S, index, j.doomed \cup {j.id}, Whole)
  BY <1>2, <1>4 DEF Told, Owed, Settled
<1>12. Held(j)
  BY <1>2, <1>4 DEF Held
<1>13. Told(j, S, index, markdown, Sure, Trusted, Whole)
  <2>1. j.pc = "append" /\ j.part = "forget" /\ j.id = o.id
    BY <1>2, <1>3
  <2> QED BY <1>9, <1>10, <1>11, <1>12, <2>1 DEF Told, Settled, Rest
<1> QED BY <1>1, <1>2, <1>3, <1>13, ToldQuiet DEF S, j, o

LEMMA ToldNew ==
  ASSUME Sound, Single, BygoneInv, FilesInv, NEW p \in Procs, NEW old, CheckNew(p, old)
  PROVE  FilesInv'
<1> DEFINE S == Active(records)
           T == Active(records)'
           C == ToSet(Current(records))
           j == job'[p]
           o == job[p]
           r == NewRecord(p, old)
           idx == WithLabel(old, o.label, 0)
           sid == idx.sums[o.label].sid
           last == WithRefs(idx, sid, 1)
<1>1. /\ Shaped /\ At(p, "check") /\ Read(old) /\ ~Known(p)
      /\ records' = records /\ index' = index /\ T = S /\ Whole' = Whole
  BY DEF Sound, CheckNew, Whole
<1>2. /\ o.pc = "check" /\ j.pc = "append" /\ j.kind = o.kind /\ j.id = o.id
      /\ j.doomed = o.doomed /\ j.replace = o.replace /\ j.part = o.part
      /\ j.list = Append(Current(records), r) /\ j.idx = last
      /\ \A q \in Procs : q # p => job'[q] = job[q]
  BY <1>1, IndexEffects DEF Becomes
<1>3. /\ p # Main /\ o.part = "store" /\ o.pc \notin Rest /\ o.doomed \subseteq Nat
  BY <1>1, <1>2, Turn, JobFields DEF BootStages, GoodJob, Rest
<1>4. Told(o, S, index, markdown, Sure, Trusted, Whole) /\ Held(o)
  BY <1>2, ToldNow, HeldNow DEF Rest
<1>5. GoodIndex(old) /\ (~stale' => old = index /\ ~stale /\ index # Garbled)
  <2>1. GoodIndex(old) /\ ((old = index /\ stale' = stale) \/ stale')
    BY <1>1, ReadGood
  <2>2. old # Garbled
    BY <1>1 DEF Read
  <2> QED BY <2>1, <2>2
<1>6. Sure' => Trusted /\ old = index
  <2>1. Up' = Up
    BY <1>2, <1>3, UpSame
  <2> QED BY <1>5, <2>1 DEF Sure, Trusted
<1>7. /\ r \in Items /\ r.sid = sid /\ r.id = lastId + 1 /\ r.fact = o.fact
      /\ r.label = o.label /\ ~r.gone
      /\ LabelAdded(old, o.label, idx) /\ RefsMoved(idx, sid, 1, last)
  BY <1>1, <1>5, NewRecordGood
<1>8. /\ S = {m \in C : ~m.gone} /\ Current(records) \in Seq(Items)
      /\ \A m \in C : m \in Items /\ m.id <= lastId /\ m.id \in Nat
  BY <1>1, ActiveTyped DEF BygoneInv
<1>9. Last(j.list) = r
  <2>1. /\ Append(Current(records), r) \in Seq(Items)
        /\ Len(Append(Current(records), r)) = Len(Current(records)) + 1
        /\ Append(Current(records), r)[Len(Current(records)) + 1] = r
    BY <1>7, <1>8, AppendProperties
  <2> QED BY <1>2, <2>1 DEF Last
<1>10. ToSet(j.list) = C \cup {r}
  BY <1>2, <1>7, <1>8, ToSetAppend
<1>11. IsFiniteSet(S)
  <2>1. S \subseteq ToSet(Current(records))
    BY <1>8
  <2> QED BY <1>8, <2>1, FiniteMemories
<1>12. lastId \in Nat /\ \A m \in S : m.fact = o.fact => m.id = o.id
  BY <1>1 DEF Shaped, TypeOK, Known
<1>13. r.sid = idx.sums[r.label].sid
  BY <1>7
<1> HIDE DEF S, T, C, j, o, r, idx, sid, last
<1>14. \A m \in S : m.id # r.id
  BY <1>7, <1>8, <1>12
<1>15. FactsOf(j.list) = FactsIn(S \cup {r})
  <2>1. {m \in ToSet(j.list) : ~m.gone} = S \cup {r}
    BY <1>7, <1>8, <1>10
  <2> QED BY <2>1 DEF FactsOf, FactsIn, Living
<1>16. ASSUME Sure'
       PROVE  Fits(S \cup {r}, last, o.doomed, Whole)
  <2>1. Fits(S, index, {}, Whole) /\ old = index
    BY <1>2, <1>4, <1>6, <1>16 DEF Told, Settled, Owed
  <2>2. Indexed(S \cup {r}, last)
    <3>1. Indexed(S, old) /\ r \notin S /\ LabelAdded(old, r.label, idx)
          /\ RefsMoved(idx, r.sid, 1, last)
      BY <1>7, <1>14, <2>1 DEF Fits
    <3> QED BY <1>5, <1>11, <1>13, <3>1, IndexedMore
  <2>3. ASSUME NEW m \in S, m.fact = r.fact PROVE m.id \in o.doomed
    <3>1. m.id = o.id
      BY <1>7, <1>12, <2>3
    <3>2. m.id # 0
      BY <1>8 DEF Items
    <3> QED BY <1>2, <1>4, <3>1, <3>2 DEF Held
  <2>4. ApartBut(S \cup {r}, o.doomed)
    BY <2>1, <2>3 DEF Fits, ApartBut
  <2> QED BY <2>1, <2>2, <2>4 DEF Fits
<1>17. Held(j)
  BY <1>2, <1>4 DEF Held
<1>18. Told(j, T, index', markdown', Sure', Trusted', Whole')
  <2>1. j.pc = "append" /\ j.part = "store" /\ j.doomed = o.doomed /\ j.idx = last
    BY <1>2, <1>3
  <2>2. Sure' => /\ Fits(T \cup {Last(j.list)}, j.idx, j.doomed, Whole')
                 /\ ~Last(j.list).gone /\ (\A m \in T : m.id # Last(j.list).id)
                 /\ FactsOf(j.list) = FactsIn(T \cup {Last(j.list)})
    BY <1>1, <1>7, <1>9, <1>14, <1>15, <1>16, <2>1
  <2> QED BY <1>17, <2>1, <2>2 DEF Told, Settled, Rest
<1> QED BY <1>2, <1>3, <1>18, ToldStep DEF T, j, o

LEMMA ToldReload ==
  ASSUME Sound, Single, FilesInv, NEW p \in Procs, NEW old, Reload(p, old)
  PROVE  FilesInv'
<1> DEFINE S == Active(records)
           T == Active(records)'
           j == job'[p]
           o == job[p]
           r == Record(p)
           less == WithRefs(old, r.sid, -1)
           last == WithoutUnused(less)
<1>1. /\ Shaped /\ At(p, "reload") /\ Read(old)
      /\ records' = records /\ index' = index /\ T = S /\ Whole' = Whole
  BY DEF Sound, Reload, Whole
<1>2. /\ o.pc = "reload" /\ j.pc = "index" /\ j.kind = o.kind /\ j.id = o.id
      /\ j.doomed = o.doomed /\ j.replace = o.replace
      /\ j.list = o.list /\ j.idx = last
      /\ \A q \in Procs : q # p => job'[q] = job[q]
  BY <1>1, IndexEffects DEF Becomes
<1>3. p # Main /\ o.part = "forget" /\ o.pc \notin Rest
  BY <1>1, <1>2, Turn DEF BootStages, GoodJob, Rest
<1>4. Told(o, S, index, markdown, Sure, Trusted, Whole) /\ Held(o)
  BY <1>2, ToldNow, HeldNow DEF Rest
<1>5. GoodIndex(old) /\ (~stale' => old = index /\ ~stale /\ index # Garbled)
  <2>1. GoodIndex(old) /\ ((old = index /\ stale' = stale) \/ stale')
    BY <1>1, ReadGood
  <2>2. old # Garbled
    BY <1>1 DEF Read
  <2> QED BY <2>1, <2>2
<1>6. Sure' => Trusted /\ old = index
  <2>1. Up' = Up
    BY <1>2, <1>3, UpSame
  <2> QED BY <1>5, <2>1 DEF Sure, Trusted
<1>7. r \in Items /\ r \in ToSet(o.list) /\ r.id = o.id
  BY <1>1, <1>3, RecordTyped
<1>8. RefsMoved(old, r.sid, -1, less)
  <2>1. r.sid \in Nat /\ -1 \in Int
    BY <1>7 DEF Items
  <2> QED BY <1>5, <2>1, WithRefsGood
<1>9. UnusedDropped(less, last)
  BY <1>8, WithoutUnusedGood DEF RefsMoved
<1>10. IsFiniteSet(S)
  <2>1. S \subseteq ToSet(Current(records)) /\ Current(records) \in Seq(Items)
    BY <1>1, ActiveTyped
  <2> QED BY <2>1, FiniteMemories
<1> HIDE DEF S, T, j, o, r, less, last
<1>11. ASSUME Sure'
       PROVE  Fits(S, last, o.doomed, Whole) /\ FactsOf(o.list) = FactsIn(S)
  <2>1. /\ ApartBut(S, o.doomed) /\ Whole /\ FactsOf(o.list) = FactsIn(S)
        /\ \E n \in Items : /\ n \notin S /\ Indexed(S \cup {n}, index)
                            /\ \A m \in ToSet(o.list) : m.id = o.id => m.sid = n.sid
    BY <1>2, <1>4, <1>6, <1>11 DEF Told, Settled, Rest
  <2>2. PICK n \in Items : /\ n \notin S /\ Indexed(S \cup {n}, index)
                           /\ \A m \in ToSet(o.list) : m.id = o.id => m.sid = n.sid
    BY <2>1
  <2>3. r.sid = n.sid /\ Indexed(S \cup {n}, old) /\ n \notin S
    BY <1>6, <1>7, <1>11, <2>2
  <2>4. RefsMoved(old, n.sid, -1, less)
    BY <1>8, <2>3
  <2>5. Indexed(S, last)
    BY <1>5, <1>9, <1>10, <2>3, <2>4, IndexedLess
  <2> QED BY <2>1, <2>5 DEF Fits
<1>12. Held(j)
  BY <1>2, <1>4 DEF Held
<1>13. Told(j, T, index', markdown', Sure', Trusted', Whole')
  <2>1. j.pc = "index" /\ j.doomed = o.doomed /\ j.idx = last /\ j.list = o.list
    BY <1>2
  <2>2. Sure' => Fits(T, j.idx, j.doomed, Whole') /\ FactsOf(j.list) = FactsIn(T)
    BY <1>1, <1>11, <2>1
  <2> QED BY <1>12, <2>1, <2>2 DEF Told, Settled, Rest
<1> QED BY <1>2, <1>3, <1>13, ToldStep DEF T, j, o

LEMMA ToldCompact ==
  ASSUME Sound, Single, FilesInv, NEW p \in Procs, NEW old, Compact(p, old)
  PROVE  FilesInv'
<1> DEFINE T == Active(records)'
           C == ToSet(Current(records))
           j == job'[p]
           o == job[p]
           d == Len(digest) - old.mark
           L == ToSet(j.list)
<1>1. Shaped /\ MarkBounded
  BY DEF Sound
<1>2. /\ o.pc = "compact"
      /\ \E list \in Seq(Items), promise \in BOOLEAN : \E trimmed :
           LET new == Relabelled(list, old)
           IN /\ Becomes(p, "newRecords", o.kind, o.fact, o.label, o.id, o.part,
                         o.doomed, o.replace, promise, o.joined, new.list, new.idx)
              /\ CompactionOf(C, d, new.list)
              /\ RelabelOf(list, Len(list), new)
  BY <1>1, CompactEffect
<1>3. PICK list \in Seq(Items), promise \in BOOLEAN :
        LET new == Relabelled(list, old)
        IN /\ Becomes(p, "newRecords", o.kind, o.fact, o.label, o.id, o.part,
                      o.doomed, o.replace, promise, o.joined, new.list, new.idx)
           /\ CompactionOf(C, d, new.list)
           /\ RelabelOf(list, Len(list), new)
  BY <1>2
<1> DEFINE new == Relabelled(list, old)
<1>4. /\ Becomes(p, "newRecords", o.kind, o.fact, o.label, o.id, o.part,
                 o.doomed, o.replace, promise, o.joined, new.list, new.idx)
      /\ CompactionOf(C, d, new.list) /\ RelabelOf(list, Len(list), new)
  BY <1>3
<1> HIDE DEF new
<1>5. /\ j.pc = "newRecords" /\ j.kind = o.kind /\ j.id = o.id
      /\ j.doomed = o.doomed /\ j.replace = o.replace
      /\ j.list = new.list /\ j.idx = new.idx
      /\ \A q \in Procs : q # p => job'[q] = job[q]
  BY <1>4 DEF Becomes
<1>6. FactsApart(new.list) /\ \A m \in L : ~m.gone
  BY <1>4, <1>5 DEF CompactionOf
<1>7. OwnIds(L)
  <2>1. OwnIds(C)
    BY <1>1, ActiveTyped
  <2> QED BY <1>4, <1>5, <2>1, CompactionOwn
<1>8. Indexed(L, new.idx)
  BY <1>4, <1>5, <1>6, IndexedListed
<1>9. ApartBut(L, {})
  BY <1>5, <1>6 DEF ApartBut, FactsApart, ToSet
<1>10. Held(o) /\ o.pc \notin Rest
  BY <1>2, HeldNow DEF Rest
<1> HIDE DEF T, C, j, o, d, L
<1>11. Held(j)
  BY <1>5, <1>10 DEF Held
<1>12. Fits(L, j.idx, {}, TRUE)
  BY <1>5, <1>8, <1>9 DEF Fits
<1>13. Told(j, T, index', markdown', Sure', Trusted', Whole')
  BY <1>5, <1>6, <1>7, <1>11, <1>12 DEF Told, Settled, Rest, L
<1> QED BY <1>5, <1>10, <1>13, ToldStep DEF T, j, o

\* Before the boot has compacted, nothing is told of the files.
LEMMA ToldNothing ==
  ASSUME NEW f, f = [q \in Procs |-> IF q = Main THEN [Quiet EXCEPT !.pc = "create"] ELSE Quiet]
  PROVE  /\ Main \in Procs /\ f[Main].pc = "create"
         /\ \A q \in Procs : \A S, idx, md, sure, trusted, whole :
              f[q].pc \notin Rest => Told(f[q], S, idx, md, sure, trusted, whole)
<1>1. Main \in Procs
  BY DEF Procs
<1>2. \A q \in Procs : /\ f[q].kind = "none" /\ f[q].doomed = {} /\ f[q].replace = FALSE
                       /\ f[q].pc = IF q = Main THEN "create" ELSE "idle"
  BY DEF Quiet
<1>3. ASSUME NEW q \in Procs, NEW S, NEW idx, NEW md, NEW sure, NEW trusted, NEW whole,
             f[q].pc \notin Rest
      PROVE  Told(f[q], S, idx, md, sure, trusted, whole)
  <2>1. f[q].pc = "create"
    BY <1>2, <1>3 DEF Rest
  <2>2. Held(f[q])
    BY <1>2, <2>1 DEF Held
  <2> QED BY <2>1, <2>2 DEF Told, Settled, Rest
<1> QED BY <1>1, <1>2, <1>3

LEMMA ToldCut ==
  ASSUME NEW p \in Procs, Cut(p)
  PROVE  FilesInv'
<1>1. job' = [q \in Procs |-> IF q = Main THEN [Quiet EXCEPT !.pc = "create"] ELSE Quiet]
  BY DEF Cut
<1> HIDE DEF Quiet
<1>2. /\ Main \in Procs /\ job'[Main].pc = "create"
      /\ \A q \in Procs : \A S, idx, md, sure, trusted, whole :
           job'[q].pc \notin Rest => Told(job'[q], S, idx, md, sure, trusted, whole)
  BY <1>1, ToldNothing
<1> QED BY <1>2 DEF FilesInv, Rest

LEMMA FilesInit == Init => FilesInv
<1> SUFFICES ASSUME Init PROVE FilesInv
  OBVIOUS
<1>1. job = [q \in Procs |-> IF q = Main THEN [Quiet EXCEPT !.pc = "create"] ELSE Quiet]
  BY DEF Init
<1>2. /\ Main \in Procs /\ job[Main].pc = "create"
      /\ \A q \in Procs : \A S, idx, md, sure, trusted, whole :
           job[q].pc \notin Rest => Told(job[q], S, idx, md, sure, trusted, whole)
  BY <1>1, ToldNothing
<1> QED BY <1>2 DEF FilesInv, Rest

LEMMA FilesInvStep ==
  ASSUME Sound, Single, Long = {}, BygoneInv, FilesInv, [Next]_vars
  PROVE  FilesInv'
<1>1. Writers \subseteq Procs /\ Main \in Procs
  BY DEF Procs
<1>2. CASE Next
  <2>1. \A w \in Writers : OpenFails(w) => FilesInv'
    BY <1>1, ToldApart
  <2>2. Create => FilesInv'
    BY <1>1, ToldApart
  <2>3. \A p \in Procs : AppendRecord(p) => FilesInv'
    <3>1. \A p \in Procs : AppendRecord(p) => job[p].part \in {"store", "forget"}
      BY Turn DEF AppendRecord, At, Sound, GoodJob
    <3> QED BY <3>1, ToldStored, ToldForgot
  <2> QED BY <1>2, <2>1, <2>2, <2>3, NextCases, ToldApart, ToldQuieter, ToldFind,
             ToldFiled, ToldNew, ToldReload, ToldCompact, ToldRewrite, ToldCut,
             ToldCalls, Zenon
<1>3. CASE UNCHANGED vars
  BY <1>3 DEF vars, FilesInv, Sure, Trusted, Whole, Up, At
<1> QED BY <1>2, <1>3

\* With one task that stores and forgets, and memories whose lines fit the
\* buffer of a compaction, the files agree whenever no call is under way, no
\* write failed since the last compaction and the index parses: the catalog
\* counts exactly the living memories, with the ids that the records carry, the
\* markdown view lists their facts, and no fact is there twice, whatever step
\* of an update or of a compaction the power cuts interrupted.
THEOREM FilesTellOneStory ==
  ASSUME Single, Long = {}
  PROVE  Spec => []FilesAgree
<1>1. Sound /\ FilesInv => FilesAgree
  <2> DEFINE S == Active(records)
  <2>1. SUFFICES ASSUME Sound, FilesInv, AtRest, ~stale, index # Garbled
                 PROVE  Fits(S, index, {}, Whole) /\ markdown = FactsIn(S)
    BY DEF FilesAgree, Fits, Indexed, ApartBut, NoFactTwice, FactsIn, FactsOf, Active
  <2>2. Trusted
    BY <2>1 DEF AtRest, Trusted, Sure
  <2>3. \A p \in Procs : job[p].pc \in {"idle", "done", "failed", "up"}
    BY <2>1 DEF AtRest, Up, At, Procs
  <2>4. CASE \A p \in Procs : job[p].pc \in Rest
    BY <2>1, <2>2, <2>4 DEF FilesInv
  <2>5. ASSUME NEW p \in Procs, job[p].pc \notin Rest
        PROVE  Fits(S, index, {}, Whole) /\ markdown = FactsIn(S)
    <3>1. job[p].pc \in {"done", "failed"}
      BY <2>3, <2>5 DEF Rest
    <3>2. Told(job[p], S, index, markdown, Sure, Trusted, Whole)
      BY <2>1, <2>5 DEF FilesInv
    <3>3. Owed(job[p]) = {}
      BY <3>1 DEF Owed
    <3> HIDE DEF S
    <3> QED BY <2>2, <3>1, <3>2, <3>3 DEF Told, Settled, Rest
  <2> QED BY <2>4, <2>5
<1>2. Init => Sound /\ BygoneInv /\ FilesInv
  BY SoundAlways, BygoneInit, FilesInit
<1>3. Sound /\ BygoneInv /\ FilesInv /\ [Next]_vars => (Sound /\ BygoneInv /\ FilesInv)'
  BY SoundStep, BygoneInvStep, FilesInvStep
<1> QED BY <1>1, <1>2, <1>3, PTL DEF Spec
=============================================================================
