------------------------- MODULE DamageRing_proofs -------------------------
(***************************************************************************)
(* Proofs about DamageRing for any set of buffers, any sizes, any screen   *)
(* and any limit on the number of rectangles.                              *)
(***************************************************************************)
EXTENDS DamageRing, TLAPS

(* What a buffer can hold lies on the screen. *)
LEMMA WholeType == \A b \in Buffer : Whole(b) \in Region
  BY DEF Whole, Rect, Region

(* Every entry of the list is an entry. *)
LEMMA EntryFacts ==
  ASSUME TypeOK
  PROVE  /\ Len(buffers) \in Nat
         /\ \A i \in 1 .. Len(buffers) :
              /\ buffers[i] \in Entry
              /\ buffers[i].buffer \in Buffer
              /\ buffers[i].damage \in Region
  <1>1. buffers \in Seq(Entry)
    BY DEF TypeOK
  <1>2. Len(buffers) \in Nat /\ \A i \in 1 .. Len(buffers) : buffers[i] \in Entry
    BY <1>1
  <1>3. \A e \in Entry : e.buffer \in Buffer /\ e.damage \in Region
    BY DEF Entry
  <1> QED BY <1>2, <1>3

LEMMA UnionRegion ==
  ASSUME NEW C \in Region, NEW D \in Region
  PROVE  C \cup D \in Region
  BY DEF Region

(* entry_squash_damage keeps entries well formed and their buffers. *)
LEMMA SquashEntryFacts ==
  ASSUME TypeOK, NEW i \in 1 .. Len(buffers), NEW j \in 1 .. Len(buffers)
  PROVE  /\ SquashEntry(i, j) \in Entry
         /\ SquashEntry(i, j).buffer = buffers[j].buffer
         /\ SquashEntry(i, j).damage =
              buffers[j].damage \cup (IF j = i - 1 THEN buffers[i].damage ELSE {})
  <1>1. /\ buffers[j].buffer \in Buffer
        /\ buffers[j].damage \cup (IF j = i - 1 THEN buffers[i].damage ELSE {}) \in Region
    BY EntryFacts, UnionRegion DEF Region
  <1> QED BY <1>1 DEF SquashEntry, Entry

LEMMA SquashCurrentType ==
  ASSUME TypeOK, NEW i \in 1 .. Len(buffers)
  PROVE  SquashCurrent(i) \in Region
  <1>1. current \in Region /\ 1 \in 1 .. Len(buffers)
    BY EntryFacts DEF TypeOK
  <1> QED BY <1>1, EntryFacts, UnionRegion DEF SquashCurrent

(* The loop of rotate_buffer stops at an entry of the buffer. *)
LEMMA IndexOfFacts ==
  ASSUME TypeOK, NEW b, InRing(b)
  PROVE  IndexOf(b) \in 1 .. Len(buffers) /\ buffers[IndexOf(b)].buffer = b
  BY DEF InRing, IndexOf

LEMMA SeqOfFunction ==
  ASSUME NEW S, NEW n \in Nat, NEW f, f \in [1 .. n -> S]
  PROVE  f \in Seq(S) /\ Len(f) = n
  OBVIOUS

(* Moving entry i to the head keeps the list well formed. *)
LEMMA MoveToFrontFacts ==
  ASSUME TypeOK, NEW i \in 1 .. Len(buffers)
  PROVE  /\ MoveToFront(i) \in Seq(Entry)
         /\ Len(MoveToFront(i)) = Len(buffers)
         /\ MoveToFront(i)[1].buffer = buffers[i].buffer
         /\ MoveToFront(i)[1].damage = SquashCurrent(i)
         /\ \A j \in 1 .. Len(buffers) :
              /\ j # 1 /\ j <= i => MoveToFront(i)[j] = SquashEntry(i, j - 1)
              /\ j > i => MoveToFront(i)[j] = buffers[j]
  <1>1. Len(buffers) \in Nat
    BY DEF TypeOK
  <1>2. MoveToFront(i) \in [1 .. Len(buffers) -> Entry]
    <2> SUFFICES ASSUME NEW j \in 1 .. Len(buffers)
                 PROVE  (IF j = 1 THEN [buffer |-> buffers[i].buffer, damage |-> SquashCurrent(i)]
                         ELSE IF j <= i THEN SquashEntry(i, j - 1)
                         ELSE buffers[j]) \in Entry
      BY DEF MoveToFront
    <2>1. CASE j = 1
      BY <2>1, SquashCurrentType, EntryFacts DEF Entry
    <2>2. CASE j # 1 /\ j <= i
      <3>1. j - 1 \in 1 .. Len(buffers)
        BY <2>2, <1>1
      <3> QED BY <2>2, <3>1, SquashEntryFacts
    <2>3. CASE j # 1 /\ ~(j <= i)
      BY <2>3, EntryFacts
    <2> QED BY <2>1, <2>2, <2>3
  <1>3. MoveToFront(i) \in Seq(Entry) /\ Len(MoveToFront(i)) = Len(buffers)
    BY <1>1, <1>2, SeqOfFunction
  <1>4. 1 \in 1 .. Len(buffers)
    BY <1>1
  <1>5. MoveToFront(i)[1] = [buffer |-> buffers[i].buffer, damage |-> SquashCurrent(i)]
    BY <1>4 DEF MoveToFront
  <1>6. \A j \in 1 .. Len(buffers) :
          /\ j # 1 /\ j <= i => MoveToFront(i)[j] = SquashEntry(i, j - 1)
          /\ j > i => MoveToFront(i)[j] = buffers[j]
    BY <1>1 DEF MoveToFront
  <1> QED BY <1>3, <1>5, <1>6

(* A new entry at the head keeps the list well formed. *)
LEMMA InsertFrontFacts ==
  ASSUME TypeOK, NEW b \in Buffer
  PROVE  /\ InsertFront(b) \in Seq(Entry)
         /\ Len(InsertFront(b)) = Len(buffers) + 1
         /\ InsertFront(b)[1].buffer = b
         /\ InsertFront(b)[1].damage = current
         /\ \A j \in 1 .. (Len(buffers) + 1) :
              j # 1 => InsertFront(b)[j] = buffers[j - 1]
  <1>1. Len(buffers) + 1 \in Nat
    BY EntryFacts
  <1>2. InsertFront(b) \in [1 .. (Len(buffers) + 1) -> Entry]
    <2>1. [buffer |-> b, damage |-> current] \in Entry
      BY DEF TypeOK, Entry
    <2>2. \A j \in 1 .. (Len(buffers) + 1) : j # 1 => buffers[j - 1] \in Entry
      BY EntryFacts
    <2> QED BY <2>1, <2>2 DEF InsertFront
  <1>3. InsertFront(b) \in Seq(Entry) /\ Len(InsertFront(b)) = Len(buffers) + 1
    BY <1>1, <1>2, SeqOfFunction
  <1>4. 1 \in 1 .. (Len(buffers) + 1)
    BY <1>1
  <1>5. InsertFront(b)[1] = [buffer |-> b, damage |-> current]
    BY <1>4 DEF InsertFront
  <1>6. \A j \in 1 .. (Len(buffers) + 1) : j # 1 => InsertFront(b)[j] = buffers[j - 1]
    BY DEF InsertFront
  <1> QED BY <1>3, <1>5, <1>6

(* Taking entry i out keeps the list well formed. *)
LEMMA WithoutEntryFacts ==
  ASSUME TypeOK, NEW i \in 1 .. Len(buffers)
  PROVE  /\ WithoutEntry(i) \in Seq(Entry)
         /\ Len(WithoutEntry(i)) = Len(buffers) - 1
         /\ \A j \in 1 .. (Len(buffers) - 1) :
              WithoutEntry(i)[j] =
                IF j < i THEN SquashEntry(i, j) ELSE buffers[j + 1]
  <1>1. Len(buffers) - 1 \in Nat
    BY EntryFacts
  <1>2. WithoutEntry(i) \in [1 .. (Len(buffers) - 1) -> Entry]
    <2>1. ASSUME NEW j \in 1 .. (Len(buffers) - 1)
          PROVE  SquashEntry(i, j) \in Entry /\ buffers[j + 1] \in Entry
      <3>1. j \in 1 .. Len(buffers) /\ j + 1 \in 1 .. Len(buffers)
        BY EntryFacts
      <3> QED BY <3>1, EntryFacts, SquashEntryFacts
    <2> QED BY <2>1 DEF WithoutEntry
  <1>3. WithoutEntry(i) \in Seq(Entry) /\ Len(WithoutEntry(i)) = Len(buffers) - 1
    BY <1>1, <1>2, SeqOfFunction
  <1> QED BY <1>3 DEF WithoutEntry

-----------------------------------------------------------------------------
(* DamageBefore of a given ring: the walk of rotate_buffer, state by state. *)
Lacks(cur, seq, k) == cur \cup UNION {seq[j].damage : j \in 1 .. (k - 1)}

LEMMA InLacks ==
  ASSUME NEW cur, NEW seq, NEW k, NEW c
  PROVE  c \in Lacks(cur, seq, k) <=>
            (c \in cur \/ \E j \in 1 .. (k - 1) : c \in seq[j].damage)
  BY DEF Lacks

(* Rotating entry i clears what its buffer lacks and nobody else's. *)
LEMMA MoveToFrontLacks ==
  ASSUME TypeOK, NEW i \in 1 .. Len(buffers), NEW k \in 1 .. Len(buffers)
  PROVE  Lacks({}, MoveToFront(i), k) =
           IF k = 1 THEN {}
           ELSE IF k <= i THEN Lacks(current, buffers, k - 1)
           ELSE Lacks(current, buffers, k)
  <1> DEFINE M == MoveToFront(i)
  <1>0. Len(buffers) \in Nat /\ 1 \in 1 .. Len(buffers)
    BY EntryFacts
  <1>a. M[1].damage = SquashCurrent(i)
    BY <1>0, MoveToFrontFacts
  <1>b. \A j \in 1 .. Len(buffers) : j # 1 /\ j <= i =>
           M[j].damage = buffers[j - 1].damage \cup
                           (IF j = i THEN buffers[i].damage ELSE {})
    <2> SUFFICES ASSUME NEW j \in 1 .. Len(buffers), j # 1, j <= i
                 PROVE  M[j].damage = buffers[j - 1].damage \cup
                                        (IF j = i THEN buffers[i].damage ELSE {})
      OBVIOUS
    <2>1. j - 1 \in 1 .. Len(buffers) /\ (j - 1 = i - 1 <=> j = i)
      BY <1>0
    <2>2. M[j] = SquashEntry(i, j - 1)
      BY MoveToFrontFacts
    <2> QED BY <2>1, <2>2, SquashEntryFacts
  <1>c. \A j \in 1 .. Len(buffers) : j > i => M[j].damage = buffers[j].damage
    BY <1>0, MoveToFrontFacts
  <1> HIDE DEF M
  <1>1. CASE k = 1
    BY <1>1 DEF Lacks, M
  <1>2. CASE k # 1 /\ k <= i
    <2>1. \A c : c \in Lacks({}, M, k) <=> c \in Lacks(current, buffers, k - 1)
      <3> TAKE c
      <3>1. i # 1 /\ SquashCurrent(i) = current
        BY <1>2, <1>0 DEF SquashCurrent
      <3>2. ASSUME c \in Lacks({}, M, k) PROVE c \in Lacks(current, buffers, k - 1)
        <4>1. PICK j \in 1 .. (k - 1) : c \in M[j].damage
          BY <3>2, InLacks
        <4>2. CASE j = 1
          BY <4>1, <4>2, <3>1, <1>a, InLacks
        <4>3. CASE j # 1
          <5>1. j \in 1 .. Len(buffers) /\ j <= i /\ j # i /\ j - 1 \in 1 .. ((k - 1) - 1)
            BY <4>3, <1>0, <1>2
          <5>2. c \in buffers[j - 1].damage
            BY <4>1, <4>3, <5>1, <1>b
          <5> QED BY <5>1, <5>2, InLacks
        <4> QED BY <4>2, <4>3
      <3>3. ASSUME c \in Lacks(current, buffers, k - 1) PROVE c \in Lacks({}, M, k)
        <4>1. CASE c \in current
          <5>1. 1 \in 1 .. (k - 1) /\ c \in M[1].damage
            BY <4>1, <3>1, <1>0, <1>2, <1>a
          <5> QED BY <5>1, InLacks
        <4>2. CASE \E j \in 1 .. ((k - 1) - 1) : c \in buffers[j].damage
          <5>1. PICK j \in 1 .. ((k - 1) - 1) : c \in buffers[j].damage
            BY <4>2
          <5>2. j + 1 \in 1 .. (k - 1) /\ j + 1 \in 1 .. Len(buffers) /\ j + 1 # 1 /\ j + 1 <= i
                /\ (j + 1) - 1 = j
            BY <1>0, <1>2
          <5>3. c \in M[j + 1].damage
            BY <5>1, <5>2, <1>b
          <5> QED BY <5>2, <5>3, InLacks
        <4> QED BY <3>3, <4>1, <4>2, InLacks
      <3> QED BY <3>2, <3>3
    <2> QED BY <2>1, <1>2 DEF M
  <1>3. CASE k > i
    <2>1. \A c : c \in Lacks({}, M, k) <=> c \in Lacks(current, buffers, k)
      <3> TAKE c
      <3>1. 1 \in 1 .. (k - 1) /\ i \in 1 .. (k - 1)
        BY <1>3, <1>0
      <3>2. ASSUME c \in Lacks({}, M, k) PROVE c \in Lacks(current, buffers, k)
        <4>1. PICK j \in 1 .. (k - 1) : c \in M[j].damage
          BY <3>2, InLacks
        <4>2. j \in 1 .. Len(buffers)
          BY <1>0
        <4>3. CASE j = 1
          <5>1. c \in current \/ (i = 1 /\ c \in buffers[1].damage)
            BY <4>1, <4>3, <1>a DEF SquashCurrent
          <5> QED BY <5>1, <3>1, InLacks
        <4>4. CASE j # 1 /\ j <= i
          <5>1. j - 1 \in 1 .. (k - 1)
            BY <4>4, <1>0
          <5>2. c \in buffers[j - 1].damage \/ c \in buffers[i].damage
            BY <4>1, <4>2, <4>4, <1>b
          <5> QED BY <5>1, <5>2, <3>1, InLacks
        <4>5. CASE j # 1 /\ ~(j <= i)
          <5>1. c \in buffers[j].damage
            BY <4>1, <4>2, <4>5, <1>0, <1>c
          <5> QED BY <5>1, InLacks
        <4> QED BY <4>3, <4>4, <4>5
      <3>3. ASSUME c \in Lacks(current, buffers, k) PROVE c \in Lacks({}, M, k)
        <4>1. CASE c \in current
          <5>1. c \in M[1].damage
            BY <4>1, <1>a DEF SquashCurrent
          <5> QED BY <5>1, <3>1, InLacks
        <4>2. CASE \E j \in 1 .. (k - 1) : c \in buffers[j].damage
          <5>1. PICK j \in 1 .. (k - 1) : c \in buffers[j].damage
            BY <4>2
          <5>2. CASE j < i
            <6>1. j + 1 \in 1 .. (k - 1) /\ j + 1 \in 1 .. Len(buffers) /\ j + 1 # 1
                  /\ j + 1 <= i /\ (j + 1) - 1 = j
              BY <5>2, <1>0, <1>3
            <6>2. c \in M[j + 1].damage
              BY <5>1, <6>1, <1>b
            <6> QED BY <6>1, <6>2, InLacks
          <5>3. CASE j = i /\ i = 1
            <6>1. c \in M[1].damage
              BY <5>1, <5>3, <1>a DEF SquashCurrent
            <6> QED BY <6>1, <3>1, InLacks
          <5>4. CASE j = i /\ i # 1
            <6>1. c \in M[i].damage
              BY <5>1, <5>4, <1>0, <1>b
            <6> QED BY <6>1, <3>1, InLacks
          <5>5. CASE j > i
            <6>1. j \in 1 .. Len(buffers)
              BY <1>0
            <6>2. c \in M[j].damage
              BY <5>1, <5>5, <6>1, <1>c
            <6> QED BY <6>2, InLacks
          <5> QED BY <5>2, <5>3, <5>4, <5>5, <1>0
        <4> QED BY <3>3, <4>1, <4>2, InLacks
      <3> QED BY <3>2, <3>3
    <2> QED BY <2>1, <1>3, <1>0 DEF M
  <1> QED BY <1>0, <1>1, <1>2, <1>3

(* A new entry at the head lacks nothing and changes nobody else's lack. *)
LEMMA InsertFrontLacks ==
  ASSUME TypeOK, NEW b \in Buffer, NEW k \in 1 .. (Len(buffers) + 1)
  PROVE  Lacks({}, InsertFront(b), k) =
           IF k = 1 THEN {} ELSE Lacks(current, buffers, k - 1)
  <1> DEFINE F == InsertFront(b)
  <1>0. Len(buffers) \in Nat /\ 1 \in 1 .. (Len(buffers) + 1)
    BY EntryFacts
  <1>a. F[1].damage = current
    BY <1>0, InsertFrontFacts
  <1>b. \A j \in 1 .. (Len(buffers) + 1) : j # 1 => F[j].damage = buffers[j - 1].damage
    BY <1>0, InsertFrontFacts
  <1> HIDE DEF F
  <1>1. CASE k = 1
    BY <1>1 DEF Lacks, F
  <1>2. CASE k # 1
    <2>1. \A c : c \in Lacks({}, F, k) <=> c \in Lacks(current, buffers, k - 1)
      <3> TAKE c
      <3>1. ASSUME c \in Lacks({}, F, k) PROVE c \in Lacks(current, buffers, k - 1)
        <4>1. PICK j \in 1 .. (k - 1) : c \in F[j].damage
          BY <3>1, InLacks
        <4>2. CASE j = 1
          BY <4>1, <4>2, <1>a, InLacks
        <4>3. CASE j # 1
          <5>1. j \in 1 .. (Len(buffers) + 1) /\ j - 1 \in 1 .. ((k - 1) - 1)
            BY <4>3, <1>0
          <5>2. c \in buffers[j - 1].damage
            BY <4>1, <4>3, <5>1, <1>b
          <5> QED BY <5>1, <5>2, InLacks
        <4> QED BY <4>2, <4>3
      <3>2. ASSUME c \in Lacks(current, buffers, k - 1) PROVE c \in Lacks({}, F, k)
        <4>1. CASE c \in current
          <5>1. 1 \in 1 .. (k - 1) /\ c \in F[1].damage
            BY <4>1, <1>0, <1>2, <1>a
          <5> QED BY <5>1, InLacks
        <4>2. CASE \E j \in 1 .. ((k - 1) - 1) : c \in buffers[j].damage
          <5>1. PICK j \in 1 .. ((k - 1) - 1) : c \in buffers[j].damage
            BY <4>2
          <5>2. /\ j + 1 \in 1 .. (k - 1)
                /\ j + 1 \in 1 .. (Len(buffers) + 1)
                /\ j + 1 # 1
                /\ (j + 1) - 1 = j
            BY <1>0, <1>2
          <5>3. c \in F[j + 1].damage
            BY <5>1, <5>2, <1>b
          <5> QED BY <5>2, <5>3, InLacks
        <4> QED BY <3>2, <4>1, <4>2, InLacks
      <3> QED BY <3>1, <3>2
    <2> QED BY <2>1, <1>2 DEF F
  <1> QED BY <1>1, <1>2

(* Destroying the buffer of entry i changes nobody else's lack. *)
LEMMA WithoutEntryLacks ==
  ASSUME TypeOK, NEW i \in 1 .. Len(buffers), NEW k \in 1 .. (Len(buffers) - 1)
  PROVE  Lacks(SquashCurrent(i), WithoutEntry(i), k) =
           IF k < i THEN Lacks(current, buffers, k)
                    ELSE Lacks(current, buffers, k + 1)
  <1> DEFINE W == WithoutEntry(i)
             C == SquashCurrent(i)
  <1>0. Len(buffers) \in Nat /\ 1 \in 1 .. Len(buffers)
    BY EntryFacts
  <1>a. \A j \in 1 .. (Len(buffers) - 1) : j < i =>
           W[j].damage = buffers[j].damage \cup
                           (IF j = i - 1 THEN buffers[i].damage ELSE {})
    <2> SUFFICES ASSUME NEW j \in 1 .. (Len(buffers) - 1), j < i
                 PROVE  W[j].damage = buffers[j].damage \cup
                           (IF j = i - 1 THEN buffers[i].damage ELSE {})
      OBVIOUS
    <2>1. j \in 1 .. Len(buffers)
      BY <1>0
    <2>2. W[j] = SquashEntry(i, j)
      BY WithoutEntryFacts
    <2> QED BY <2>1, <2>2, SquashEntryFacts
  <1>b. \A j \in 1 .. (Len(buffers) - 1) : ~(j < i) => W[j].damage = buffers[j + 1].damage
    BY WithoutEntryFacts
  <1>c. C = current \cup (IF i = 1 THEN buffers[1].damage ELSE {})
    BY DEF SquashCurrent
  <1> HIDE DEF W, C
  <1>1. CASE k < i
    <2>1. \A c : c \in Lacks(C, W, k) <=> c \in Lacks(current, buffers, k)
      <3> TAKE c
      <3>1. C = current
        BY <1>c, <1>1, <1>0
      <3>2. \A j \in 1 .. (k - 1) : W[j].damage = buffers[j].damage
        <4> TAKE j \in 1 .. (k - 1)
        <4>1. j \in 1 .. (Len(buffers) - 1) /\ j < i /\ j # i - 1
          BY <1>0, <1>1
        <4> QED BY <4>1, <1>a
      <3> QED BY <3>1, <3>2, InLacks
    <2> QED BY <2>1, <1>1 DEF W, C
  <1>2. CASE ~(k < i)
    <2>1. \A c : c \in Lacks(C, W, k) <=> c \in Lacks(current, buffers, k + 1)
      <3> TAKE c
      <3>0. i \in 1 .. ((k + 1) - 1)
        BY <1>2, <1>0
      <3>1. ASSUME c \in Lacks(C, W, k) PROVE c \in Lacks(current, buffers, k + 1)
        <4>1. CASE c \in C
          BY <4>1, <1>c, <3>0, InLacks
        <4>2. CASE \E j \in 1 .. (k - 1) : c \in W[j].damage
          <5>1. PICK j \in 1 .. (k - 1) : c \in W[j].damage
            BY <4>2
          <5>2. /\ j \in 1 .. (Len(buffers) - 1)
                /\ j \in 1 .. ((k + 1) - 1)
                /\ j + 1 \in 1 .. ((k + 1) - 1)
            BY <1>0
          <5>3. CASE j < i
            <6>1. c \in buffers[j].damage \/ c \in buffers[i].damage
              BY <5>1, <5>2, <5>3, <1>a
            <6> QED BY <6>1, <5>2, <3>0, InLacks
          <5>4. CASE ~(j < i)
            <6>1. c \in buffers[j + 1].damage
              BY <5>1, <5>2, <5>4, <1>b
            <6> QED BY <6>1, <5>2, InLacks
          <5> QED BY <5>3, <5>4
        <4> QED BY <3>1, <4>1, <4>2, InLacks
      <3>2. ASSUME c \in Lacks(current, buffers, k + 1) PROVE c \in Lacks(C, W, k)
        <4>1. CASE c \in current
          BY <4>1, <1>c, InLacks
        <4>2. CASE \E j \in 1 .. ((k + 1) - 1) : c \in buffers[j].damage
          <5>1. PICK j \in 1 .. ((k + 1) - 1) : c \in buffers[j].damage
            BY <4>2
          <5>2. CASE j < i
            <6>1. j \in 1 .. (k - 1) /\ j \in 1 .. (Len(buffers) - 1)
              BY <5>2, <1>2, <1>0
            <6>2. c \in W[j].damage
              BY <5>1, <5>2, <6>1, <1>a
            <6> QED BY <6>1, <6>2, InLacks
          <5>3. CASE j = i /\ i = 1
            BY <5>1, <5>3, <1>c, InLacks
          <5>4. CASE j = i /\ i # 1
            <6>1. /\ i - 1 \in 1 .. (k - 1)
                  /\ i - 1 \in 1 .. (Len(buffers) - 1)
                  /\ i - 1 < i
              BY <5>4, <1>2, <1>0
            <6>2. c \in W[i - 1].damage
              BY <5>1, <5>4, <6>1, <1>a
            <6> QED BY <6>1, <6>2, InLacks
          <5>5. CASE j > i
            <6>1. /\ j - 1 \in 1 .. (k - 1)
                  /\ j - 1 \in 1 .. (Len(buffers) - 1)
                  /\ ~(j - 1 < i)
                  /\ (j - 1) + 1 = j
              BY <5>5, <1>2, <1>0
            <6>2. c \in W[j - 1].damage
              BY <5>1, <6>1, <1>b
            <6> QED BY <6>1, <6>2, InLacks
          <5> QED BY <5>2, <5>3, <5>4, <5>5, <1>0
        <4> QED BY <3>2, <4>1, <4>2, InLacks
      <3> QED BY <3>1, <3>2
    <2> QED BY <2>1, <1>2 DEF W, C
  <1> QED BY <1>1, <1>2

-----------------------------------------------------------------------------
LEMMA DamageBeforeLacks ==
  \A k : DamageBefore(k) = Lacks(current, buffers, k)
  BY DEF DamageBefore, Lacks

LEMMA DamageBeforeLacksPrime ==
  \A k : DamageBefore(k)' = Lacks(current', buffers', k)
  BY DEF DamageBefore, Lacks

(***************************************************************************)
(* The region rotate_buffer returns holds every out-of-date cell: either   *)
(* the buffer is in the ring and the walk found all of them, or it is not  *)
(* and it is repainted whole.                                              *)
(***************************************************************************)
THEOREM IInvSound == IInv => RotateSound
  <1> SUFFICES ASSUME IInv, NEW b \in Buffer
               PROVE  stale[b] \subseteq RotateDamage(b)
    BY DEF RotateSound
  <1>1. CASE InRing(b)
    <2>1. IndexOf(b) \in 1 .. Len(buffers) /\ buffers[IndexOf(b)].buffer = b
      BY <1>1, IndexOfFacts DEF IInv
    <2>2. stale[b] = DamageBefore(IndexOf(b)) \cap Whole(b)
      BY <2>1 DEF IInv, StaleExact
    <2>3. RotateDamage(b) = LimitRects(DamageBefore(IndexOf(b)) \cap Whole(b))
      BY <1>1 DEF RotateDamage
    <2> QED BY <2>2, <2>3 DEF LimitRects
  <1>2. CASE ~InRing(b)
    BY <1>2 DEF RotateDamage, IInv, StaleWithinBuffer
  <1> QED BY <1>1, <1>2

(* wlr_damage_ring_add_whole covers every buffer of the list. *)
LEMMA WholeOfFacts ==
  ASSUME NEW seq \in Seq(Entry)
  PROVE  /\ WholeOf(seq) \in Region
         /\ \A i \in 1 .. Len(seq) : Whole(seq[i].buffer) \subseteq WholeOf(seq)
  <1>1. \A w, h : Rect(w, h) \subseteq Cell
    BY DEF Rect
  <1>2. WholeOf(seq) \in Region
    BY <1>1 DEF WholeOf, Region
  <1>3. ASSUME NEW i \in 1 .. Len(seq)
        PROVE  Rect(Width[seq[i].buffer], Height[seq[i].buffer]) \subseteq WholeOf(seq)
    BY DEF WholeOf
  <1> QED BY <1>2, <1>3 DEF Whole

(* A list whose buffers are all damaged whole is exact. *)
LEMMA AllStaleExact ==
  ASSUME buffers' \in Seq(Entry), WholeOf(buffers') \subseteq current',
         stale' = [a \in Buffer |-> Whole(a)]
  PROVE  StaleExact' /\ StaleWithinBuffer'
  <1>1. StaleWithinBuffer'
    BY DEF StaleWithinBuffer, Whole, Rect
  <1>2. ASSUME NEW i \in 1 .. Len(buffers')
        PROVE  stale'[buffers'[i].buffer] = DamageBefore(i)' \cap Whole(buffers'[i].buffer)
    <2>1. buffers'[i].buffer \in Buffer
      <3>1. buffers'[i] \in Entry
        OBVIOUS
      <3> QED BY <3>1 DEF Entry
    <2>2. Whole(buffers'[i].buffer) \subseteq current'
      BY WholeOfFacts
    <2>3. current' \subseteq DamageBefore(i)'
      BY DEF DamageBefore
    <2> QED BY <2>1, <2>2, <2>3
  <1>3. StaleExact'
    BY <1>2 DEF StaleExact, Whole, Rect
  <1> QED BY <1>1, <1>3

LEMMA AllStaleType ==
  ASSUME stale' = [a \in Buffer |-> Whole(a)]
  PROVE  stale' \in [Buffer -> Region]
  BY WholeType

(* Moving, inserting and removing entries list no buffer twice. *)
LEMMA MoveToFrontUnique ==
  ASSUME TypeOK, EntriesUnique, NEW i \in 1 .. Len(buffers), buffers' = MoveToFront(i)
  PROVE  EntriesUnique'
  <1> DEFINE Old(j) == IF j = 1 THEN i ELSE IF j <= i THEN j - 1 ELSE j
  <1>0. Len(buffers) \in Nat /\ Len(buffers') = Len(buffers)
    BY EntryFacts, MoveToFrontFacts
  <1>1. ASSUME NEW j \in 1 .. Len(buffers)
        PROVE  Old(j) \in 1 .. Len(buffers) /\ buffers'[j].buffer = buffers[Old(j)].buffer
    <2>1. Old(j) \in 1 .. Len(buffers)
      BY <1>0
    <2>2. CASE j = 1
      BY <2>2, MoveToFrontFacts
    <2>3. CASE j # 1 /\ j <= i
      BY <2>1, <2>3, MoveToFrontFacts, SquashEntryFacts
    <2>4. CASE j # 1 /\ ~(j <= i)
      BY <2>4, MoveToFrontFacts
    <2> QED BY <2>1, <2>2, <2>3, <2>4
  <1>2. \A j, k \in 1 .. Len(buffers) : Old(j) = Old(k) => j = k
    BY <1>0
  <1> HIDE DEF Old
  <1> SUFFICES ASSUME NEW j \in 1 .. Len(buffers), NEW k \in 1 .. Len(buffers),
                      buffers'[j].buffer = buffers'[k].buffer
               PROVE  j = k
    BY <1>0 DEF EntriesUnique
  <1>3. Old(j) = Old(k)
    <2>1. buffers[Old(j)].buffer = buffers[Old(k)].buffer
      BY <1>1
    <2>2. Old(j) \in 1 .. Len(buffers) /\ Old(k) \in 1 .. Len(buffers)
      BY <1>1
    <2> QED BY <2>1, <2>2 DEF EntriesUnique
  <1> QED BY <1>2, <1>3

LEMMA InsertFrontUnique ==
  ASSUME TypeOK, EntriesUnique, NEW b \in Buffer, ~InRing(b), buffers' = InsertFront(b)
  PROVE  EntriesUnique'
  <1>0. Len(buffers) \in Nat /\ Len(buffers') = Len(buffers) + 1
    BY EntryFacts, InsertFrontFacts
  <1>1. buffers'[1].buffer = b
    BY InsertFrontFacts
  <1>2. \A j \in 1 .. (Len(buffers) + 1) : j # 1 =>
           /\ buffers'[j].buffer = buffers[j - 1].buffer
           /\ j - 1 \in 1 .. Len(buffers)
           /\ buffers[j - 1].buffer # b
    BY <1>0, InsertFrontFacts DEF InRing
  <1> SUFFICES ASSUME NEW j \in 1 .. (Len(buffers) + 1), NEW k \in 1 .. (Len(buffers) + 1),
                      buffers'[j].buffer = buffers'[k].buffer
               PROVE  j = k
    BY <1>0 DEF EntriesUnique
  <1>3. CASE j = 1 \/ k = 1
    BY <1>1, <1>2, <1>3
  <1>4. CASE j # 1 /\ k # 1
    <2>1. j - 1 = k - 1
      BY <1>2, <1>4 DEF EntriesUnique
    <2> QED BY <2>1, <1>0
  <1> QED BY <1>3, <1>4

LEMMA WithoutEntryUnique ==
  ASSUME TypeOK, EntriesUnique, NEW i \in 1 .. Len(buffers), buffers' = WithoutEntry(i)
  PROVE  EntriesUnique'
  <1> DEFINE Old(j) == IF j < i THEN j ELSE j + 1
  <1>0. Len(buffers) \in Nat /\ Len(buffers') = Len(buffers) - 1
    BY EntryFacts, WithoutEntryFacts
  <1>1. ASSUME NEW j \in 1 .. (Len(buffers) - 1)
        PROVE  Old(j) \in 1 .. Len(buffers) /\ buffers'[j].buffer = buffers[Old(j)].buffer
    <2>1. j \in 1 .. Len(buffers) /\ j + 1 \in 1 .. Len(buffers)
      BY <1>0
    <2>2. CASE j < i
      <3>1. buffers'[j] = SquashEntry(i, j)
        BY <2>2, WithoutEntryFacts
      <3> QED BY <2>1, <2>2, <3>1, SquashEntryFacts
    <2>3. CASE ~(j < i)
      BY <2>1, <2>3, WithoutEntryFacts
    <2> QED BY <2>2, <2>3
  <1>2. \A j, k \in 1 .. (Len(buffers) - 1) : Old(j) = Old(k) => j = k
    BY <1>0
  <1> HIDE DEF Old
  <1> SUFFICES ASSUME NEW j \in 1 .. (Len(buffers) - 1), NEW k \in 1 .. (Len(buffers) - 1),
                      buffers'[j].buffer = buffers'[k].buffer
               PROVE  j = k
    BY <1>0 DEF EntriesUnique
  <1>3. Old(j) = Old(k)
    <2>1. buffers[Old(j)].buffer = buffers[Old(k)].buffer
      BY <1>1
    <2>2. Old(j) \in 1 .. Len(buffers) /\ Old(k) \in 1 .. Len(buffers)
      BY <1>1
    <2> QED BY <2>1, <2>2 DEF EntriesUnique
  <1> QED BY <1>2, <1>3

-----------------------------------------------------------------------------
(* Each operation preserves the inductive invariant. *)
LEMMA AddStep ==
  ASSUME IInv, NEW D \in Region, Add(D)
  PROVE  IInv'
  <1> USE DEF IInv
  <1>1. TypeOK'
    <2>1. \A b \in Buffer : stale[b] \cup (D \cap Whole(b)) \in Region
      BY WholeType DEF TypeOK, Region
    <2> QED BY <2>1, UnionRegion DEF TypeOK, Add, Damaged
  <1>2. EntriesUnique'
    BY DEF Add, EntriesUnique
  <1>3. StaleExact'
    <2> SUFFICES ASSUME NEW i \in 1 .. Len(buffers)
                 PROVE  stale'[buffers[i].buffer] =
                          DamageBefore(i)' \cap Whole(buffers[i].buffer)
      BY DEF Add, StaleExact, Whole, Rect
    <2>1. stale'[buffers[i].buffer] =
            stale[buffers[i].buffer] \cup (D \cap Whole(buffers[i].buffer))
      BY EntryFacts DEF Add, Damaged
    <2>2. DamageBefore(i)' = DamageBefore(i) \cup D
      BY DEF Add, DamageBefore
    <2>3. stale[buffers[i].buffer] = DamageBefore(i) \cap Whole(buffers[i].buffer)
      BY DEF StaleExact
    <2> QED BY <2>1, <2>2, <2>3
  <1>4. StaleWithinBuffer'
    BY DEF Add, Damaged, StaleWithinBuffer, Whole, Rect
  <1> QED BY <1>1, <1>2, <1>3, <1>4

LEMMA AddWholeStep ==
  ASSUME IInv, AddWhole
  PROVE  IInv'
  <1> USE DEF IInv
  <1>1. buffers' \in Seq(Entry) /\ buffers' = buffers
    BY DEF TypeOK, AddWhole
  <1>2. current' \in Region /\ WholeOf(buffers') \subseteq current'
    BY <1>1, WholeOfFacts, UnionRegion DEF AddWhole, TypeOK
  <1>3. TypeOK'
    BY <1>1, <1>2, AllStaleType DEF TypeOK, AddWhole
  <1>4. EntriesUnique'
    BY <1>1 DEF EntriesUnique
  <1>5. StaleExact' /\ StaleWithinBuffer'
    BY <1>1, <1>2, AllStaleExact DEF AddWhole
  <1> QED BY <1>3, <1>4, <1>5

(* Painting what rotate_buffer returns leaves nothing out of date in b. *)
LEMMA PaintedFacts ==
  ASSUME IInv, NEW b \in Buffer, stale' = Painted(b)
  PROVE  /\ stale' \in [Buffer -> Region]
         /\ stale'[b] = {}
         /\ \A a \in Buffer : a # b => stale'[a] = stale[a]
         /\ StaleWithinBuffer'
  <1>1. stale[b] \subseteq RotateDamage(b)
    BY IInvSound DEF RotateSound
  <1>2. stale \in [Buffer -> Region]
    BY DEF IInv, TypeOK
  <1>3. stale' = [stale EXCEPT ![b] = {}]
    BY <1>1, <1>2 DEF Painted
  <1>4. {} \in Region
    BY DEF Region
  <1> QED BY <1>2, <1>3, <1>4 DEF IInv, StaleWithinBuffer, Whole, Rect

LEMMA RotateKnownStep ==
  ASSUME IInv, NEW b \in Buffer, RotateKnown(b), stale' = Painted(b)
  PROVE  IInv'
  <1> USE DEF IInv
  <1> DEFINE i == IndexOf(b)
  <1>0. /\ i \in 1 .. Len(buffers)
        /\ buffers[i].buffer = b
        /\ buffers' = MoveToFront(i)
        /\ current' = {}
        /\ Len(buffers) \in Nat
    BY IndexOfFacts, EntryFacts DEF RotateKnown
  <1> HIDE DEF i
  <1>1. TypeOK'
    BY <1>0, MoveToFrontFacts, PaintedFacts DEF TypeOK, Region
  <1>2. EntriesUnique'
    BY <1>0, MoveToFrontUnique
  <1>3. StaleExact'
    <2>0. Len(buffers') = Len(buffers)
      BY <1>0, MoveToFrontFacts
    <2> SUFFICES ASSUME NEW k \in 1 .. Len(buffers)
                 PROVE  stale'[buffers'[k].buffer] =
                          Lacks({}, buffers', k) \cap Whole(buffers'[k].buffer)
      BY <1>0, <2>0, DamageBeforeLacksPrime DEF StaleExact, Whole, Rect
    <2>1. CASE k = 1
      <3>1. Lacks({}, buffers', k) = {}
        BY <1>0, <2>1, MoveToFrontLacks
      <3>2. buffers'[k].buffer = b
        BY <1>0, <2>1, MoveToFrontFacts
      <3> QED BY <3>1, <3>2, PaintedFacts
    <2>2. CASE k # 1 /\ k <= i
      <3>1. k - 1 \in 1 .. Len(buffers) /\ k - 1 # i
        BY <1>0, <2>2
      <3>2. buffers'[k].buffer = buffers[k - 1].buffer
        <4>1. buffers'[k] = SquashEntry(i, k - 1)
          BY <1>0, <2>2, MoveToFrontFacts
        <4> QED BY <1>0, <3>1, <4>1, SquashEntryFacts
      <3>3. Lacks({}, buffers', k) = DamageBefore(k - 1)
        BY <1>0, <2>2, MoveToFrontLacks, DamageBeforeLacks
      <3>4. buffers[k - 1].buffer \in Buffer /\ buffers[k - 1].buffer # b
        BY <1>0, <3>1, EntryFacts DEF EntriesUnique
      <3>5. stale[buffers[k - 1].buffer] =
              DamageBefore(k - 1) \cap Whole(buffers[k - 1].buffer)
        BY <3>1 DEF StaleExact
      <3> QED BY <3>2, <3>3, <3>4, <3>5, PaintedFacts
    <2>3. CASE k > i
      <3>1. buffers'[k].buffer = buffers[k].buffer
        BY <1>0, <2>3, MoveToFrontFacts
      <3>2. Lacks({}, buffers', k) = DamageBefore(k)
        <4>1. k # 1 /\ ~(k <= i)
          BY <1>0, <2>3
        <4> QED BY <1>0, <4>1, MoveToFrontLacks, DamageBeforeLacks
      <3>3. buffers[k].buffer \in Buffer /\ buffers[k].buffer # b
        BY <1>0, <2>3, EntryFacts DEF EntriesUnique
      <3>4. stale[buffers[k].buffer] = DamageBefore(k) \cap Whole(buffers[k].buffer)
        BY DEF StaleExact
      <3> QED BY <3>1, <3>2, <3>3, <3>4, PaintedFacts
    <2> QED BY <1>0, <2>1, <2>2, <2>3
  <1>4. StaleWithinBuffer'
    BY PaintedFacts
  <1> QED BY <1>1, <1>2, <1>3, <1>4

LEMMA RotateNewStep ==
  ASSUME IInv, NEW b \in Buffer, NEW allocated \in BOOLEAN,
         RotateNew(b, allocated), stale' = Painted(b)
  PROVE  IInv'
  <1> USE DEF IInv
  <1>0. ~InRing(b) /\ Len(buffers) \in Nat
    BY EntryFacts DEF RotateNew
  <1>1. CASE allocated
    <2>0. buffers' = InsertFront(b) /\ current' = {}
      BY <1>1 DEF RotateNew
    <2>1. TypeOK'
      BY <2>0, InsertFrontFacts, PaintedFacts DEF TypeOK, Region
    <2>2. EntriesUnique'
      BY <1>0, <2>0, InsertFrontUnique
    <2>3. StaleExact'
      <3>0. Len(buffers') = Len(buffers) + 1
        BY <2>0, InsertFrontFacts
      <3> SUFFICES ASSUME NEW k \in 1 .. (Len(buffers) + 1)
                   PROVE  stale'[buffers'[k].buffer] =
                            Lacks({}, buffers', k) \cap Whole(buffers'[k].buffer)
        BY <2>0, <3>0, DamageBeforeLacksPrime DEF StaleExact, Whole, Rect
      <3>1. CASE k = 1
        <4>1. Lacks({}, buffers', k) = {}
          BY <2>0, <3>1, InsertFrontLacks
        <4>2. buffers'[k].buffer = b
          BY <2>0, <3>1, InsertFrontFacts
        <4> QED BY <4>1, <4>2, PaintedFacts
      <3>2. CASE k # 1
        <4>1. k - 1 \in 1 .. Len(buffers)
          BY <1>0, <3>2
        <4>2. buffers'[k].buffer = buffers[k - 1].buffer
          BY <2>0, <3>2, InsertFrontFacts
        <4>3. Lacks({}, buffers', k) = DamageBefore(k - 1)
          BY <2>0, <3>2, InsertFrontLacks, DamageBeforeLacks
        <4>4. buffers[k - 1].buffer \in Buffer /\ buffers[k - 1].buffer # b
          BY <1>0, <4>1, EntryFacts DEF InRing
        <4>5. stale[buffers[k - 1].buffer] =
                DamageBefore(k - 1) \cap Whole(buffers[k - 1].buffer)
          BY <4>1 DEF StaleExact
        <4> QED BY <4>2, <4>3, <4>4, <4>5, PaintedFacts
      <3> QED BY <3>1, <3>2
    <2> QED BY <2>1, <2>2, <2>3, PaintedFacts
  <1>2. CASE ~allocated
    <2>0. buffers' = buffers /\ current' = current
      BY <1>2 DEF RotateNew
    <2>1. TypeOK'
      BY <2>0, PaintedFacts DEF TypeOK
    <2>2. EntriesUnique'
      BY <2>0 DEF EntriesUnique
    <2>3. StaleExact'
      <3> SUFFICES ASSUME NEW k \in 1 .. Len(buffers)
                   PROVE  stale'[buffers[k].buffer] =
                            DamageBefore(k) \cap Whole(buffers[k].buffer)
        BY <2>0 DEF StaleExact, Whole, Rect, DamageBefore
      <3>1. buffers[k].buffer \in Buffer /\ buffers[k].buffer # b
        BY <1>0, EntryFacts DEF InRing
      <3>2. stale[buffers[k].buffer] = DamageBefore(k) \cap Whole(buffers[k].buffer)
        BY DEF StaleExact
      <3> QED BY <3>1, <3>2, PaintedFacts
    <2> QED BY <2>1, <2>2, <2>3, PaintedFacts
  <1> QED BY <1>1, <1>2

LEMMA RotateAndFailStep ==
  ASSUME IInv, NEW b \in Buffer, RotateAndFail(b)
  PROVE  IInv'
  <1> USE DEF IInv
  <1>0. stale' = [a \in Buffer |-> Whole(a)]
    BY DEF RotateAndFail
  <1> SUFFICES /\ buffers' \in Seq(Entry)
               /\ current' \in Region
               /\ WholeOf(buffers') \subseteq current'
               /\ EntriesUnique'
    BY <1>0, AllStaleExact, AllStaleType DEF TypeOK
  <1>1. CASE RotateKnownAndFail(b)
    <2>0. IndexOf(b) \in 1 .. Len(buffers)
      BY <1>1, IndexOfFacts DEF RotateKnownAndFail
    <2>1. buffers' = MoveToFront(IndexOf(b)) /\ current' = WholeOf(buffers')
      BY <1>1 DEF RotateKnownAndFail
    <2>2. buffers' \in Seq(Entry)
      BY <2>0, <2>1, MoveToFrontFacts
    <2>3. EntriesUnique'
      BY <2>0, <2>1, MoveToFrontUnique
    <2> QED BY <2>1, <2>2, <2>3, WholeOfFacts
  <1>2. ASSUME NEW allocated \in BOOLEAN, RotateNewAndFail(b, allocated)
        PROVE  /\ buffers' \in Seq(Entry)
               /\ current' \in Region
               /\ WholeOf(buffers') \subseteq current'
               /\ EntriesUnique'
    <2>1. CASE allocated
      <3>1. buffers' = InsertFront(b) /\ current' = WholeOf(buffers') /\ ~InRing(b)
        BY <1>2, <2>1 DEF RotateNewAndFail
      <3>2. buffers' \in Seq(Entry)
        BY <3>1, InsertFrontFacts
      <3>3. EntriesUnique'
        BY <3>1, InsertFrontUnique
      <3> QED BY <3>1, <3>2, <3>3, WholeOfFacts
    <2>2. CASE ~allocated
      <3>1. buffers' = buffers /\ current' = current \cup WholeOf(buffers')
        BY <1>2, <2>2 DEF RotateNewAndFail
      <3>2. buffers' \in Seq(Entry)
        BY <3>1 DEF TypeOK
      <3>3. EntriesUnique'
        BY <3>1 DEF EntriesUnique
      <3>4. current' \in Region
        BY <3>1, <3>2, WholeOfFacts, UnionRegion DEF TypeOK
      <3> QED BY <3>1, <3>2, <3>3, <3>4
    <2> QED BY <2>1, <2>2
  <1> QED BY <1>1, <1>2 DEF RotateAndFail

LEMMA BufferDestroyStep ==
  ASSUME IInv, NEW b \in Buffer, BufferDestroy(b)
  PROVE  IInv'
  <1> USE DEF IInv
  <1> DEFINE i == IndexOf(b)
  <1>0. /\ i \in 1 .. Len(buffers)
        /\ buffers[i].buffer = b
        /\ buffers' = WithoutEntry(i)
        /\ current' = SquashCurrent(i)
        /\ stale' = [stale EXCEPT ![b] = Whole(b)]
        /\ Len(buffers) \in Nat
    BY IndexOfFacts, EntryFacts DEF BufferDestroy
  <1> HIDE DEF i
  <1>1. /\ stale' \in [Buffer -> Region]
        /\ \A a \in Buffer : a # b => stale'[a] = stale[a]
        /\ StaleWithinBuffer'
    BY <1>0, WholeType DEF TypeOK, StaleWithinBuffer, Whole, Rect
  <1>2. TypeOK'
    BY <1>0, <1>1, WithoutEntryFacts, SquashCurrentType DEF TypeOK
  <1>3. EntriesUnique'
    BY <1>0, WithoutEntryUnique
  <1>4. StaleExact'
    <2>0. Len(buffers') = Len(buffers) - 1
      BY <1>0, WithoutEntryFacts
    <2> SUFFICES ASSUME NEW k \in 1 .. (Len(buffers) - 1)
                 PROVE  stale'[buffers'[k].buffer] =
                          Lacks(SquashCurrent(i), buffers', k) \cap Whole(buffers'[k].buffer)
      BY <1>0, <2>0, DamageBeforeLacksPrime DEF StaleExact, Whole, Rect
    <2> DEFINE o == IF k < i THEN k ELSE k + 1
    <2>1. o \in 1 .. Len(buffers) /\ o # i
      BY <1>0
    <2>2. buffers'[k].buffer = buffers[o].buffer
      <3>1. CASE k < i
        <4>1. k \in 1 .. Len(buffers)
          BY <1>0
        <4>2. buffers'[k] = SquashEntry(i, k)
          BY <1>0, <3>1, WithoutEntryFacts
        <4> QED BY <1>0, <3>1, <4>1, <4>2, SquashEntryFacts
      <3>2. CASE ~(k < i)
        BY <1>0, <3>2, WithoutEntryFacts
      <3> QED BY <3>1, <3>2
    <2>3. Lacks(SquashCurrent(i), buffers', k) = DamageBefore(o)
      BY <1>0, WithoutEntryLacks, DamageBeforeLacks
    <2> HIDE DEF o
    <2>4. buffers[o].buffer \in Buffer /\ buffers[o].buffer # b
      BY <1>0, <2>1, EntryFacts DEF EntriesUnique
    <2>5. stale[buffers[o].buffer] = DamageBefore(o) \cap Whole(buffers[o].buffer)
      BY <2>1 DEF StaleExact
    <2> QED BY <1>1, <2>2, <2>3, <2>4, <2>5
  <1> QED BY <1>1, <1>2, <1>3, <1>4

LEMMA FreshStep ==
  ASSUME current' = {}, buffers' = <<>>, stale' = [a \in Buffer |-> Whole(a)]
  PROVE  IInv'
  <1>1. buffers' \in Seq(Entry) /\ Len(buffers') = 0
    OBVIOUS
  <1>2. WholeOf(buffers') \subseteq current'
    BY <1>1 DEF WholeOf
  <1>3. TypeOK'
    BY <1>1, AllStaleType DEF TypeOK, Region
  <1>4. EntriesUnique'
    BY <1>1 DEF EntriesUnique
  <1> QED BY <1>1, <1>2, <1>3, <1>4, AllStaleExact DEF IInv

LEMMA InitIInv == Init => IInv
  <1> SUFFICES ASSUME Init PROVE IInv
    OBVIOUS
  <1>1. Len(buffers) = 0
    BY DEF Init
  <1>2. TypeOK
    BY WholeType DEF Init, TypeOK, Region
  <1>3. EntriesUnique /\ StaleExact
    BY <1>1 DEF EntriesUnique, StaleExact
  <1>4. StaleWithinBuffer
    BY DEF Init, StaleWithinBuffer
  <1> QED BY <1>2, <1>3, <1>4 DEF IInv

(* The inductive invariant is preserved by every operation. *)
LEMMA NextIInv == IInv /\ [Next]_vars => IInv'
  <1> SUFFICES ASSUME IInv, [Next]_vars PROVE IInv'
    OBVIOUS
  <1>1. ASSUME NEW D \in Region, Add(D) PROVE IInv'
    BY <1>1, AddStep
  <1>2. CASE AddWhole
    BY <1>2, AddWholeStep
  <1>3. ASSUME NEW b \in Buffer, RotateAndPaint(b) PROVE IInv'
    BY <1>3, RotateKnownStep, RotateNewStep DEF RotateAndPaint
  <1>4. ASSUME NEW b \in Buffer, RotateAndFail(b) PROVE IInv'
    BY <1>4, RotateAndFailStep
  <1>5. ASSUME NEW b \in Buffer, BufferDestroy(b) PROVE IInv'
    BY <1>5, BufferDestroyStep
  <1>6. CASE Finish
    BY <1>6, FreshStep DEF Finish
  <1>7. CASE UNCHANGED vars
    BY <1>7 DEF vars, IInv, TypeOK, EntriesUnique, StaleExact, StaleWithinBuffer,
                DamageBefore, Whole, Rect
  <1> QED BY <1>1, <1>2, <1>3, <1>4, <1>5, <1>6, <1>7 DEF Next

-----------------------------------------------------------------------------
(***************************************************************************)
(* The list that rotate_buffer, add and buffer_handle_destroy maintain     *)
(* tells exactly what each buffer lacks, at all times.                     *)
(***************************************************************************)
THEOREM Inductive == Spec => []IInv
  BY InitIInv, NextIInv, PTL DEF Spec

(* The ring's state is well formed after any sequence of operations. *)
THEOREM TypeCorrect == Spec => []TypeOK
  <1>1. IInv => TypeOK
    BY DEF IInv
  <1> QED BY <1>1, Inductive, PTL

(* wlr_damage_ring_rotate_buffer never leaves out a cell that is out of date. *)
THEOREM Soundness == Spec => []RotateSound
  BY IInvSound, Inductive, PTL

(* wlr_damage_ring_rotate_buffer accumulates only what is out of date. *)
THEOREM Tightness == Spec => []RotateTight
  <1>1. IInv => RotateTight
    BY DEF IInv, StaleExact, RotateTight
  <1> QED BY <1>1, Inductive, PTL

(* No buffer is listed twice by rotate_buffer. *)
THEOREM Uniqueness == Spec => []EntriesUnique
  <1>1. IInv => EntriesUnique
    BY DEF IInv
  <1> QED BY <1>1, Inductive, PTL

(* The extents of a region of a buffer lie within that buffer. *)
LEMMA ExtentsWithin ==
  ASSUME NEW b \in Buffer, NEW D, D \subseteq Whole(b)
  PROVE  Extents(D) \subseteq Whole(b)
  <1> SUFFICES ASSUME NEW c \in Extents(D)
               PROVE  c \in Whole(b)
    OBVIOUS
  <1>1. c \in Cell /\ c[1] \in Int /\ c[2] \in Int
    BY SizeAssumption DEF Extents, Cell
  <1>2. \A d \in D : /\ d[1] \in Int /\ d[2] \in Int
                     /\ d[1] < Width[b] /\ d[2] < Height[b]
    BY SizeAssumption DEF Whole, Rect, Cell
  <1>3. PICK p \in D : c[1] <= p[1]
    BY DEF Extents
  <1>4. PICK q \in D : c[2] <= q[2]
    BY DEF Extents
  <1>5. Width[b] \in Int /\ Height[b] \in Int
    BY SizeAssumption
  <1>6. c[1] < Width[b] /\ c[2] < Height[b]
    BY <1>1, <1>2, <1>3, <1>4, <1>5
  <1> QED BY <1>1, <1>6 DEF Whole, Rect

(* wlr_damage_ring_rotate_buffer returns damage local to the buffer. *)
THEOREM BufferLocal == Spec => []DamageWithinBuffer
  <1>1. DamageWithinBuffer
    BY ExtentsWithin DEF DamageWithinBuffer, RotateDamage, LimitRects
  <1> QED BY <1>1, PTL
=============================================================================
