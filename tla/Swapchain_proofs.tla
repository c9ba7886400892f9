-------------------------- MODULE Swapchain_proofs --------------------------
(***************************************************************************)
(* Proofs about Swapchain, for any number of slots, buffers and            *)
(* references.  Good is the inductive invariant of the functions; between  *)
(* two functions of one call a local variable may hold a buffer.           *)
(***************************************************************************)
EXTENDS Swapchain, FiniteSetTheorems, TLAPS

(* What is locked is alive, what a slot points to is alive. *)
Alive(s) ==
    /\ \A b \in Buffer : s.locks[b] > 0 => b \in s.live
    /\ \A i \in Slot : s.slots[i] \in s.live \cup {None}
    /\ s.dropped \subseteq s.live

Good(s) ==
    /\ s \in State
    /\ RefCounted(s)
    /\ Alive(s)
    /\ AcquiredIffLocked(s)
    /\ NoBufferLeak(s)
    /\ DroppedOnce(s)

IInv ==
    /\ Good(sc)
    /\ CallsReturned(sc)
    /\ config \in Mode \cup {None}
    /\ alloc \in BOOLEAN

-----------------------------------------------------------------------------
(* The references are finitely many, and so are a buffer's holders. *)
LEMMA HoldersFinite ==
    ASSUME NEW s, NEW b
    PROVE  /\ IsFiniteSet(Holders(s, b))
           /\ Cardinality(Holders(s, b)) \in Nat
<1>1. IsFiniteSet(Holder)
  BY SwapchainAssumption, FS_AddElement DEF Holder
<1>2. Holders(s, b) \subseteq Holder
  BY DEF Holders
<1>3. IsFiniteSet(Holders(s, b))
  BY <1>1, <1>2, FS_Subset
<1> QED
  BY <1>3, FS_CardinalityType

(* A buffer somebody points to is locked (n_locks) and alive. *)
LEMMA HeldLocked ==
    ASSUME NEW s, Good(s), NEW h \in Holder, s.holds[h] # None
    PROVE  /\ s.holds[h] \in Buffer
           /\ s.locks[s.holds[h]] > 0
           /\ s.holds[h] \in s.live
<1> DEFINE b == s.holds[h]
<1>1. b \in Buffer
  BY DEF Good, State
<1>2. h \in Holders(s, b)
  BY DEF Holders
<1>3. Cardinality(Holders(s, b)) # 0
  BY <1>2, HoldersFinite, FS_EmptySet
<1>4. s.locks[b] = Cardinality(Holders(s, b)) + s.lost[b]
  BY <1>1 DEF Good, RefCounted
<1>5. s.lost[b] \in Nat /\ Cardinality(Holders(s, b)) \in Nat
  BY <1>1, HoldersFinite DEF Good, State
<1>6. s.locks[b] > 0
  BY <1>3, <1>4, <1>5
<1> QED
  BY <1>1, <1>6 DEF Good, Alive

(***************************************************************************)
(* Storing b in an empty reference adds one holder to b and changes no     *)
(* other buffer's holders; clearing a reference takes one away.            *)
(***************************************************************************)
LEMMA HoldersAdd ==
    ASSUME NEW s, NEW t, s.holds \in [Holder -> Buffer \cup {None}],
           NEW h \in Holder, s.holds[h] = None, NEW b \in Buffer,
           t.holds = [s.holds EXCEPT ![h] = b], NEW c \in Buffer
    PROVE  Cardinality(Holders(t, c)) =
             IF c = b THEN Cardinality(Holders(s, c)) + 1 ELSE Cardinality(Holders(s, c))
<1>0. None \notin Buffer
  BY SwapchainAssumption
<1>1. CASE c = b
  <2>1. Holders(t, c) = Holders(s, c) \cup {h} /\ h \notin Holders(s, c)
    BY <1>0, <1>1 DEF Holders
  <2> QED
    BY <1>1, <2>1, HoldersFinite, FS_AddElement
<1>2. CASE c # b
  <2>1. Holders(t, c) = Holders(s, c)
    BY <1>0, <1>2 DEF Holders
  <2> QED
    BY <1>2, <2>1
<1> QED
  BY <1>1, <1>2

LEMMA HoldersRemove ==
    ASSUME NEW s, NEW t, s.holds \in [Holder -> Buffer \cup {None}],
           NEW h \in Holder, s.holds[h] # None,
           t.holds = [s.holds EXCEPT ![h] = None], NEW c \in Buffer
    PROVE  Cardinality(Holders(t, c)) =
             IF c = s.holds[h] THEN Cardinality(Holders(s, c)) - 1
                               ELSE Cardinality(Holders(s, c))
<1>0. None \notin Buffer
  BY SwapchainAssumption
<1>1. CASE c = s.holds[h]
  <2>1. Holders(t, c) = Holders(s, c) \ {h} /\ h \in Holders(s, c)
    BY <1>0, <1>1 DEF Holders
  <2>2. IsFiniteSet(Holders(s, c))
    BY HoldersFinite
  <2>3. Cardinality(Holders(s, c) \ {h}) = Cardinality(Holders(s, c)) - 1
    BY <2>1, <2>2, FS_RemoveElement
  <2> QED
    BY <1>1, <2>1, <2>3
<1>2. CASE c # s.holds[h]
  <2>1. Holders(t, c) = Holders(s, c)
    BY <1>0, <1>2 DEF Holders
  <2> QED
    BY <1>2, <2>1
<1> QED
  BY <1>1, <1>2

-----------------------------------------------------------------------------
(* wlr_buffer_lock of a buffer that is locked already. *)
LEMMA LockGood ==
    ASSUME NEW s, Good(s), NEW h \in Holder, s.holds[h] = None,
           NEW b \in Buffer, s.locks[b] > 0
    PROVE  /\ Good(wlr_buffer_lock(s, h, b))
           /\ wlr_buffer_lock(s, h, b).holds = [s.holds EXCEPT ![h] = b]
<1> DEFINE t == wlr_buffer_lock(s, h, b)
<1>1. t \in State
  BY DEF Good, State, wlr_buffer_lock
<1>2. RefCounted(t)
  <2> SUFFICES ASSUME NEW c \in Buffer
               PROVE  t.locks[c] = Cardinality(Holders(t, c)) + t.lost[c]
    BY DEF RefCounted
  <2>1. s.holds \in [Holder -> Buffer \cup {None}] /\ t.holds = [s.holds EXCEPT ![h] = b]
    BY DEF Good, State, wlr_buffer_lock
  <2>2. Cardinality(Holders(t, c)) =
          IF c = b THEN Cardinality(Holders(s, c)) + 1 ELSE Cardinality(Holders(s, c))
    BY <2>1, HoldersAdd
  <2>3. s.locks[c] = Cardinality(Holders(s, c)) + s.lost[c]
    BY DEF Good, RefCounted
  <2>4. s.lost[c] \in Nat /\ Cardinality(Holders(s, c)) \in Nat
    BY HoldersFinite DEF Good, State
  <2>5. t.lost = s.lost /\ t.locks[c] = IF c = b THEN s.locks[c] + 1 ELSE s.locks[c]
    BY DEF wlr_buffer_lock, Good, State
  <2> QED
    BY <2>2, <2>3, <2>4, <2>5
<1>3. /\ t.slots = s.slots /\ t.acquired = s.acquired /\ t.live = s.live
      /\ t.dropped = s.dropped
      /\ \A c \in Buffer : t.locks[c] > 0 <=> s.locks[c] > 0
  BY DEF wlr_buffer_lock, Good, State
<1>4. \A i \in Slot : s.slots[i] # None => s.slots[i] \in Buffer
  BY DEF Good, State
<1>5. Alive(t)
  BY <1>3 DEF Good, Alive
<1>6. AcquiredIffLocked(t)
  BY <1>3, <1>4 DEF Good, AcquiredIffLocked
<1>7. NoBufferLeak(t)
  <2>1. s.live \subseteq Buffer
    BY DEF Good, State
  <2> QED
    BY <1>3, <2>1 DEF Good, NoBufferLeak
<1>8. DroppedOnce(t)
  BY <1>3 DEF Good, DroppedOnce
<1>9. t.holds = [s.holds EXCEPT ![h] = b]
  BY DEF wlr_buffer_lock
<1> QED
  BY <1>1, <1>2, <1>5, <1>6, <1>7, <1>8, <1>9 DEF Good

(* wlr_buffer_unlock: the last lock frees the slot, and a dropped buffer. *)
LEMMA UnlockGood ==
    ASSUME NEW s, Good(s), NEW h \in Holder
    PROVE  /\ Good(wlr_buffer_unlock(s, h))
           /\ wlr_buffer_unlock(s, h).holds = [s.holds EXCEPT ![h] = None]
<1> DEFINE b == s.holds[h]
           t == wlr_buffer_unlock(s, h)
           last == s.locks[b] = 1
           freed == IF last /\ b \in s.dropped THEN {b} ELSE {}
<1>1. CASE b = None
  <2>1. t = s
    BY <1>1 DEF wlr_buffer_unlock
  <2>2. s.holds = [s.holds EXCEPT ![h] = None]
    BY <1>1 DEF Good, State
  <2> QED
    BY <2>1, <2>2
<1>2. CASE b # None
  <2>0. b \in Buffer /\ s.locks[b] > 0 /\ b \in s.live /\ None \notin Buffer
    BY <1>2, HeldLocked, SwapchainAssumption
  <2>t. /\ t.slots = s.slots
        /\ t.acquired = [i \in Slot |-> s.acquired[i] /\ ~(last /\ s.slots[i] = b)]
        /\ t.live = s.live \ freed
        /\ t.locks = [s.locks EXCEPT ![b] = s.locks[b] - 1]
        /\ t.dropped = s.dropped \ freed
        /\ t.holds = [s.holds EXCEPT ![h] = None]
        /\ t.lost = s.lost
    BY <1>2 DEF wlr_buffer_unlock
  <2>s. /\ s.slots \in [Slot -> Buffer \cup {None}] /\ s.acquired \in [Slot -> BOOLEAN]
        /\ s.live \subseteq Buffer /\ s.locks \in [Buffer -> Nat] /\ s.dropped \subseteq Buffer
        /\ s.holds \in [Holder -> Buffer \cup {None}] /\ s.lost \in [Buffer -> Nat]
    BY DEF Good, State
  <2>1. t \in State
    <3>1. s.locks[b] - 1 \in Nat
      BY <2>0, <2>s
    <3>2. [i \in Slot |-> s.acquired[i] /\ ~(last /\ s.slots[i] = b)] \in [Slot -> BOOLEAN]
      OBVIOUS
    <3> QED
      BY <1>2, <2>0, <2>s, <3>1, <3>2 DEF wlr_buffer_unlock, State
  <2>2. RefCounted(t)
    <3> SUFFICES ASSUME NEW c \in Buffer
                 PROVE  t.locks[c] = Cardinality(Holders(t, c)) + t.lost[c]
      BY DEF RefCounted
    <3>1. s.holds[h] # None /\ t.holds = [s.holds EXCEPT ![h] = None]
      BY <1>2, <2>t
    <3>2. Cardinality(Holders(t, c)) =
            IF c = b THEN Cardinality(Holders(s, c)) - 1 ELSE Cardinality(Holders(s, c))
      <4>1. s.holds \in [Holder -> Buffer \cup {None}]
        BY <2>s
      <4> HIDE DEF t
      <4> QED
        BY <3>1, <4>1, HoldersRemove, SMTT(30)
    <3>3. s.locks[c] = Cardinality(Holders(s, c)) + s.lost[c]
      BY DEF Good, RefCounted
    <3>4. s.lost[c] \in Nat /\ Cardinality(Holders(s, c)) \in Nat
      BY <2>s, HoldersFinite
    <3>5. t.lost = s.lost /\ t.locks[c] = IF c = b THEN s.locks[c] - 1 ELSE s.locks[c]
      BY <2>t, <2>s
    <3> QED
      BY <3>2, <3>3, <3>4, <3>5
  <2>3. \A c \in Buffer : t.locks[c] > 0 <=> s.locks[c] > 0 /\ ~(c = b /\ last)
    BY <2>t, <2>s, <2>0
  <2>4. Alive(t)
    <3>1. \A c \in Buffer : t.locks[c] > 0 => c \in t.live
      BY <2>3, <2>t DEF Good, Alive
    <3>2. \A i \in Slot : t.slots[i] \in t.live \cup {None}
      <4> SUFFICES ASSUME NEW i \in Slot, t.slots[i] # None PROVE t.slots[i] \in t.live
        OBVIOUS
      <4>1. s.slots[i] \in s.live /\ s.slots[i] \notin s.dropped
        BY <2>t DEF Good, Alive, DroppedOnce
      <4> QED
        BY <4>1, <2>t
    <3>3. t.dropped \subseteq t.live
      BY <2>t DEF Good, Alive
    <3> QED
      BY <3>1, <3>2, <3>3 DEF Alive
  <2>5. AcquiredIffLocked(t)
    <3> SUFFICES ASSUME NEW i \in Slot
                 PROVE  t.acquired[i] <=> t.slots[i] # None /\ t.locks[t.slots[i]] > 0
      BY DEF AcquiredIffLocked
    <3>1. s.acquired[i] <=> s.slots[i] # None /\ s.locks[s.slots[i]] > 0
      BY DEF Good, AcquiredIffLocked
    <3>2. s.slots[i] # None => s.slots[i] \in Buffer
      BY <2>s
    <3>3. t.acquired[i] <=> s.acquired[i] /\ ~(last /\ s.slots[i] = b)
      BY <2>t
    <3>4. t.slots = s.slots
      BY <2>t
    <3> HIDE DEF t, last, b
    <3> QED
      BY <2>3, <3>1, <3>2, <3>3, <3>4
  <2>6. NoBufferLeak(t)
    <3> SUFFICES ASSUME NEW c \in t.live
                 PROVE  \/ \E i \in Slot : t.slots[i] = c
                        \/ c \in t.dropped /\ t.locks[c] > 0
      BY DEF NoBufferLeak
    <3>1. c \in s.live /\ c \notin freed /\ c \in Buffer
      BY <2>t, <2>s
    <3>2. CASE \E i \in Slot : s.slots[i] = c
      BY <3>2, <2>t
    <3>3. CASE c \in s.dropped /\ s.locks[c] > 0
      BY <3>1, <3>3, <2>t, <2>3
    <3> QED
      BY <3>1, <3>2, <3>3 DEF Good, NoBufferLeak
  <2>7. DroppedOnce(t)
    BY <2>t DEF Good, DroppedOnce
  <2> QED
    BY <2>1, <2>2, <2>4, <2>5, <2>6, <2>7, <2>t DEF Good
<1> QED
  BY <1>1, <1>2

(* slot_acquire of a slot whose buffer is free. *)
LEMMA AcquireGood ==
    ASSUME NEW s, Good(s), CallsReturned(s), NEW i \in Ready(s)
    PROVE  /\ Good(slot_acquire(s, i))
           /\ slot_acquire(s, i).holds[Local] # None
<1> DEFINE b == s.slots[i]
           t == slot_acquire(s, i)
<1>s. /\ s.slots \in [Slot -> Buffer \cup {None}] /\ s.acquired \in [Slot -> BOOLEAN]
      /\ s.live \subseteq Buffer /\ s.locks \in [Buffer -> Nat] /\ s.dropped \subseteq Buffer
      /\ s.holds \in [Holder -> Buffer \cup {None}] /\ s.lost \in [Buffer -> Nat]
  BY DEF Good, State
<1>0. /\ i \in Slot /\ ~s.acquired[i] /\ b # None /\ b \in Buffer
      /\ Local \in Holder /\ s.holds[Local] = None
  BY <1>s DEF Ready, CallsReturned, Holder
<1>t. /\ t.slots = s.slots
      /\ t.acquired = [s.acquired EXCEPT ![i] = TRUE]
      /\ t.live = s.live
      /\ t.locks = [s.locks EXCEPT ![b] = s.locks[b] + 1]
      /\ t.dropped = s.dropped
      /\ t.holds = [s.holds EXCEPT ![Local] = b]
      /\ t.lost = s.lost
  BY DEF slot_acquire, wlr_buffer_lock
<1>1. t \in State
  BY <1>s, <1>0 DEF slot_acquire, wlr_buffer_lock, State
<1>2. RefCounted(t)
  <2> SUFFICES ASSUME NEW c \in Buffer
               PROVE  t.locks[c] = Cardinality(Holders(t, c)) + t.lost[c]
    BY DEF RefCounted
  <2>1. Cardinality(Holders(t, c)) =
          IF c = b THEN Cardinality(Holders(s, c)) + 1 ELSE Cardinality(Holders(s, c))
    <3>1. t.holds = [s.holds EXCEPT ![Local] = b] /\ b \in Buffer
      BY <1>t, <1>0
    <3> HIDE DEF t, b
    <3> QED
      BY <3>1, <1>0, <1>s, HoldersAdd
  <2>2. s.locks[c] = Cardinality(Holders(s, c)) + s.lost[c]
    BY DEF Good, RefCounted
  <2>3. s.lost[c] \in Nat /\ Cardinality(Holders(s, c)) \in Nat
    BY <1>s, HoldersFinite
  <2>4. t.lost = s.lost /\ t.locks[c] = IF c = b THEN s.locks[c] + 1 ELSE s.locks[c]
    BY <1>t, <1>s
  <2> QED
    BY <2>1, <2>2, <2>3, <2>4
<1>3. \A c \in Buffer : t.locks[c] > 0 <=> s.locks[c] > 0 \/ c = b
  BY <1>t, <1>s, <1>0
<1>4. Alive(t)
  <2>1. b \in s.live
    BY <1>0 DEF Good, Alive
  <2> QED
    BY <1>3, <1>t, <2>1 DEF Good, Alive
<1>5. AcquiredIffLocked(t)
  <2> SUFFICES ASSUME NEW j \in Slot
               PROVE  t.acquired[j] <=> t.slots[j] # None /\ t.locks[t.slots[j]] > 0
    BY DEF AcquiredIffLocked
  <2>1. s.acquired[j] <=> s.slots[j] # None /\ s.locks[s.slots[j]] > 0
    BY DEF Good, AcquiredIffLocked
  <2>2. s.slots[j] # None => s.slots[j] \in Buffer
    BY <1>s
  <2>3. s.slots[j] = b <=> j = i
    BY <1>0 DEF Good, DroppedOnce
  <2>4. t.acquired[j] <=> s.acquired[j] \/ j = i
    BY <1>t, <1>s
  <2>5. t.slots = s.slots /\ b # None
    BY <1>t, <1>0
  <2> HIDE DEF t, b
  <2> QED
    BY <1>3, <2>1, <2>2, <2>3, <2>4, <2>5
<1>6. NoBufferLeak(t)
  BY <1>3, <1>t, <1>s DEF Good, NoBufferLeak
<1>7. DroppedOnce(t)
  BY <1>t DEF Good, DroppedOnce
<1>8. t.holds[Local] = b
  BY <1>t, <1>0, <1>s
<1> QED
  BY <1>1, <1>2, <1>4, <1>5, <1>6, <1>7, <1>8, <1>0 DEF Good

(* A reference that changes its place is still counted once. *)
LEMMA TransferGood ==
    ASSUME NEW s, Good(s), NEW to \in Holder, NEW from \in Holder, to # from,
           s.holds[to] = None, s.holds[from] # None
    PROVE  Good(Transfer(s, to, from))
<1> DEFINE t == Transfer(s, to, from)
           f == [s.holds EXCEPT ![from] = None]
           g == [f EXCEPT ![to] = s.holds[from]]
           mid == [holds |-> f]
<1>s. s.holds \in [Holder -> Buffer \cup {None}] /\ s.holds[from] \in Buffer
  BY HeldLocked DEF Good, State
<1>0. None \notin Buffer
  BY SwapchainAssumption
<1>1. t \in State
  BY <1>s DEF Good, State, Transfer
<1>t. /\ t.slots = s.slots /\ t.acquired = s.acquired /\ t.live = s.live
      /\ t.locks = s.locks /\ t.dropped = s.dropped /\ t.lost = s.lost
      /\ t.holds = g
  <2>1. t.holds = g
    BY <1>s DEF Transfer
  <2> QED
    BY <2>1 DEF Transfer
<1>2. RefCounted(t)
  <2> SUFFICES ASSUME NEW c \in Buffer
               PROVE  t.locks[c] = Cardinality(Holders(t, c)) + t.lost[c]
    BY DEF RefCounted
  <2>m. /\ mid.holds = f /\ mid.holds \in [Holder -> Buffer \cup {None}]
        /\ mid.holds[to] = None
    BY <1>s
  <2>1. Cardinality(Holders(mid, c)) =
          IF c = s.holds[from] THEN Cardinality(Holders(s, c)) - 1
                               ELSE Cardinality(Holders(s, c))
    <3> HIDE DEF mid
    <3> QED
      BY <2>m, <1>s, HoldersRemove
  <2>2. Cardinality(Holders(t, c)) =
          IF c = s.holds[from] THEN Cardinality(Holders(mid, c)) + 1
                               ELSE Cardinality(Holders(mid, c))
    <3>1. t.holds = [mid.holds EXCEPT ![to] = s.holds[from]]
      BY <1>t, <2>m
    <3> HIDE DEF mid, t
    <3> QED
      BY <3>1, <2>m, <1>s, HoldersAdd
  <2>3. Cardinality(Holders(s, c)) \in Nat
    BY HoldersFinite
  <2>4. Cardinality(Holders(t, c)) = Cardinality(Holders(s, c))
    <3> HIDE DEF mid, t
    <3> QED
      BY <2>1, <2>2, <2>3
  <2> QED
    BY <2>4, <1>t DEF Good, RefCounted
<1>3. Alive(t) /\ AcquiredIffLocked(t) /\ NoBufferLeak(t) /\ DroppedOnce(t)
  BY <1>t DEF Good, Alive, AcquiredIffLocked, NoBufferLeak, DroppedOnce
<1> QED
  BY <1>1, <1>2, <1>3 DEF Good

(* A lock the local variable leaves behind is counted as lost. *)
LEMMA ForgetGood ==
    ASSUME NEW s, Good(s)
    PROVE  Good(Forget(s)) /\ CallsReturned(Forget(s))
<1> DEFINE b == s.holds[Local]
           t == Forget(s)
<1>1. CASE b = None
  BY <1>1 DEF Forget, CallsReturned
<1>2. CASE b # None
  <2>0. Local \in Holder
    BY DEF Holder
  <2>s. /\ s.holds \in [Holder -> Buffer \cup {None}] /\ b \in Buffer
        /\ s.lost \in [Buffer -> Nat]
    BY <1>2, <2>0, HeldLocked DEF Good, State
  <2>1. t \in State
    <3>1. [s.lost EXCEPT ![b] = s.lost[b] + 1] \in [Buffer -> Nat]
      BY <2>s
    <3>2. [s.holds EXCEPT ![Local] = None] \in [Holder -> Buffer \cup {None}]
      BY <2>s
    <3> QED
      BY <1>2, <3>1, <3>2 DEF Good, State, Forget
  <2>t. /\ t.slots = s.slots /\ t.acquired = s.acquired /\ t.live = s.live
        /\ t.locks = s.locks /\ t.dropped = s.dropped
        /\ t.holds = [s.holds EXCEPT ![Local] = None]
        /\ t.lost = [s.lost EXCEPT ![b] = s.lost[b] + 1]
    BY <1>2 DEF Forget
  <2>2. RefCounted(t)
    <3> SUFFICES ASSUME NEW c \in Buffer
                 PROVE  t.locks[c] = Cardinality(Holders(t, c)) + t.lost[c]
      BY DEF RefCounted
    <3>1. Cardinality(Holders(t, c)) =
            IF c = b THEN Cardinality(Holders(s, c)) - 1 ELSE Cardinality(Holders(s, c))
      <4>1. /\ s.holds \in [Holder -> Buffer \cup {None}]
            /\ s.holds[Local] # None /\ t.holds = [s.holds EXCEPT ![Local] = None]
        BY <1>2, <2>s, <2>t
      <4> HIDE DEF t
      <4> QED
        BY <2>0, <4>1, HoldersRemove, SMTT(30)
    <3>2. s.locks[c] = Cardinality(Holders(s, c)) + s.lost[c]
      BY DEF Good, RefCounted
    <3>3. s.lost[c] \in Nat /\ Cardinality(Holders(s, c)) \in Nat
      BY <2>s, HoldersFinite
    <3>4. t.locks = s.locks /\ t.lost[c] = IF c = b THEN s.lost[c] + 1 ELSE s.lost[c]
      BY <2>t, <2>s
    <3> QED
      BY <3>1, <3>2, <3>3, <3>4
  <2>3. Alive(t) /\ AcquiredIffLocked(t) /\ NoBufferLeak(t) /\ DroppedOnce(t)
    BY <2>t DEF Good, Alive, AcquiredIffLocked, NoBufferLeak, DroppedOnce
  <2>4. CallsReturned(t)
    BY <2>t, <2>s, <2>0 DEF CallsReturned
  <2> QED
    BY <2>1, <2>2, <2>3, <2>4 DEF Good
<1> QED
  BY <1>1, <1>2

(* A new buffer in an empty slot is free. *)
LEMMA AllocateGood ==
    ASSUME NEW s, Good(s), NEW i \in Slot, ~s.acquired[i], s.slots[i] = None,
           NEW b \in Buffer \ s.live
    PROVE  /\ Good(Allocate(s, i, b))
           /\ Allocate(s, i, b).holds = s.holds
           /\ i \in Ready(Allocate(s, i, b))
<1> DEFINE t == Allocate(s, i, b)
<1>s. /\ s.slots \in [Slot -> Buffer \cup {None}] /\ s.acquired \in [Slot -> BOOLEAN]
      /\ s.live \subseteq Buffer /\ s.locks \in [Buffer -> Nat]
      /\ b \in Buffer /\ b \notin s.live /\ b # None
  BY SwapchainAssumption DEF Good, State
<1>1. t \in State
  BY <1>s DEF Good, State, Allocate
<1>t. /\ t.slots = [s.slots EXCEPT ![i] = b] /\ t.acquired = s.acquired
      /\ t.live = s.live \cup {b} /\ t.locks = s.locks /\ t.dropped = s.dropped
      /\ t.holds = s.holds /\ t.lost = s.lost
  BY DEF Allocate
<1>2. RefCounted(t)
  BY <1>t DEF Good, RefCounted, Holders
<1>3. s.locks[b] = 0 /\ b \notin s.dropped
  BY <1>s DEF Good, Alive
<1>4. \A j \in Slot : t.slots[j] = IF j = i THEN b ELSE s.slots[j]
  BY <1>t, <1>s
<1>5. Alive(t)
  BY <1>t, <1>4 DEF Good, Alive
<1>6. AcquiredIffLocked(t)
  <2> SUFFICES ASSUME NEW j \in Slot
               PROVE  t.acquired[j] <=> t.slots[j] # None /\ t.locks[t.slots[j]] > 0
    BY DEF AcquiredIffLocked
  <2>1. CASE j = i
    BY <2>1, <1>t, <1>3, <1>4
  <2>2. CASE j # i
    <3>1. s.acquired[j] <=> s.slots[j] # None /\ s.locks[s.slots[j]] > 0
      BY DEF Good, AcquiredIffLocked
    <3>2. t.slots[j] = s.slots[j] /\ t.acquired = s.acquired /\ t.locks = s.locks
      BY <2>2, <1>4, <1>t
    <3> QED
      BY <3>1, <3>2
  <2> QED
    BY <2>1, <2>2
<1>7. NoBufferLeak(t)
  <2> SUFFICES ASSUME NEW c \in t.live
               PROVE  \/ \E j \in Slot : t.slots[j] = c
                      \/ c \in t.dropped /\ t.locks[c] > 0
    BY DEF NoBufferLeak
  <2>1. CASE c = b
    BY <2>1, <1>4
  <2>2. CASE c # b
    <3>1. c \in s.live /\ c # None
      BY <2>2, <1>t, <1>s, SwapchainAssumption
    <3>2. CASE \E j \in Slot : s.slots[j] = c
      BY <3>1, <3>2, <1>4
    <3>3. CASE c \in s.dropped /\ s.locks[c] > 0
      BY <3>3, <1>t
    <3> QED
      BY <3>1, <3>2, <3>3 DEF Good, NoBufferLeak
  <2> QED
    BY <2>1, <2>2
<1>8. DroppedOnce(t)
  <2>1. \A j \in Slot : s.slots[j] # b
    BY <1>s DEF Good, Alive
  <2> QED
    BY <2>1, <1>3, <1>4, <1>t DEF Good, DroppedOnce
<1>9. i \in Ready(t)
  BY <1>t, <1>4, <1>s DEF Ready
<1> QED
  BY <1>1, <1>2, <1>5, <1>6, <1>7, <1>8, <1>9, <1>t DEF Good

(* wlr_swapchain_destroy frees the buffers nobody holds and drops the rest. *)
LEMMA DestroyGood ==
    ASSUME NEW s, Good(s)
    PROVE  /\ Good(wlr_swapchain_destroy(s))
           /\ wlr_swapchain_destroy(s).holds = s.holds
           /\ wlr_swapchain_destroy(s).live \subseteq s.live
           /\ \A i \in Slot : /\ wlr_swapchain_destroy(s).slots[i] = None
                              /\ ~wlr_swapchain_destroy(s).acquired[i]
<1> DEFINE t == wlr_swapchain_destroy(s)
           own == {b \in Buffer : \E i \in Slot : s.slots[i] = b}
           freed == {b \in own : s.locks[b] = 0}
<1>s. /\ s.slots \in [Slot -> Buffer \cup {None}]
      /\ s.live \subseteq Buffer /\ s.locks \in [Buffer -> Nat] /\ s.dropped \subseteq Buffer
  BY DEF Good, State
<1>t. /\ t.slots = [i \in Slot |-> None] /\ t.acquired = [i \in Slot |-> FALSE]
      /\ t.live = s.live \ freed /\ t.locks = s.locks
      /\ t.dropped = (s.dropped \cup own) \ freed
      /\ t.holds = s.holds /\ t.lost = s.lost
  BY DEF wlr_swapchain_destroy
<1>1. t \in State
  BY <1>s DEF Good, State, wlr_swapchain_destroy
<1>2. RefCounted(t)
  BY <1>t DEF Good, RefCounted, Holders
<1>3. own \subseteq s.live
  BY SwapchainAssumption DEF Good, Alive
<1>4. Alive(t)
  <2>1. \A c \in Buffer : t.locks[c] > 0 => c \in t.live
    BY <1>t, <1>s DEF Good, Alive
  <2>2. t.dropped \subseteq t.live
    BY <1>t, <1>3 DEF Good, Alive
  <2> QED
    BY <2>1, <2>2, <1>t DEF Alive
<1>5. AcquiredIffLocked(t)
  BY <1>t DEF AcquiredIffLocked
<1>6. NoBufferLeak(t)
  <2> SUFFICES ASSUME NEW c \in t.live
               PROVE  c \in t.dropped /\ t.locks[c] > 0
    BY DEF NoBufferLeak
  <2>1. c \in s.live /\ c \notin freed /\ c \in Buffer /\ s.locks[c] \in Nat
    BY <1>t, <1>s
  <2>2. CASE c \in own
    BY <2>1, <2>2, <1>t
  <2>3. CASE c \notin own
    <3>1. c \in s.dropped /\ s.locks[c] > 0
      BY <2>1, <2>3 DEF Good, NoBufferLeak
    <3> QED
      BY <2>1, <3>1, <1>t
  <2> QED
    BY <2>2, <2>3
<1>7. DroppedOnce(t)
  BY <1>1, <1>t, SwapchainAssumption DEF DroppedOnce, State
<1> QED
  BY <1>1, <1>2, <1>4, <1>5, <1>6, <1>7, <1>t DEF Good

-----------------------------------------------------------------------------
(* The functions the handlers are made of. *)

(* A reference is set to a buffer another reference holds. *)
LEMMA SetRefGood ==
    ASSUME NEW s, Good(s), NEW h \in Holder, NEW g \in Holder, h # g, s.holds[g] # None
    PROVE  /\ Good(SetRef(s, h, s.holds[g]))
           /\ SetRef(s, h, s.holds[g]).holds = [s.holds EXCEPT ![h] = s.holds[g]]
<1> DEFINE b == s.holds[g]
           t == wlr_buffer_unlock(s, h)
<1>1. Good(t) /\ t.holds = [s.holds EXCEPT ![h] = None]
  BY UnlockGood
<1>2. s.holds \in [Holder -> Buffer \cup {None}]
  BY DEF Good, State
<1>3. t.holds[h] = None /\ t.holds[g] = b /\ b # None
  BY <1>1, <1>2
<1>4. b \in Buffer /\ t.locks[b] > 0
  <2> HIDE DEF t
  <2> QED
    BY <1>1, <1>3, HeldLocked
<1>5. /\ Good(wlr_buffer_lock(t, h, b))
      /\ wlr_buffer_lock(t, h, b).holds = [t.holds EXCEPT ![h] = b]
  <2>1. /\ Good(t) /\ t.holds[h] = None /\ b \in Buffer /\ t.locks[b] > 0
    BY <1>1, <1>3, <1>4
  <2>2. \A x \in Buffer : t.locks[x] > 0 =>
          /\ Good(wlr_buffer_lock(t, h, x))
          /\ wlr_buffer_lock(t, h, x).holds = [t.holds EXCEPT ![h] = x]
    <3> HIDE DEF t, b
    <3> QED
      BY <2>1, LockGood
  <2> QED
    BY <2>1, <2>2
<1>6. [t.holds EXCEPT ![h] = b] = [s.holds EXCEPT ![h] = b]
  BY <1>1, <1>2
<1> QED
  BY <1>5, <1>6 DEF SetRef

(* wlr_swapchain_acquire hands out a buffer nobody held, or nothing. *)
LEMMA AcquireSwapchainGood ==
    ASSUME NEW s, Good(s), CallsReturned(s), NEW t \in wlr_swapchain_acquire(s)
    PROVE  Good(t)
<1>1. CASE Ready(s) # {}
  <2>1. PICK i \in Ready(s) : t = slot_acquire(s, i)
    BY <1>1 DEF wlr_swapchain_acquire
  <2> QED
    BY <2>1, AcquireGood
<1>2. CASE Ready(s) = {} /\ t # s
  <2>1. PICK i \in Empty(s), b \in Buffer \ s.live : t = slot_acquire(Allocate(s, i, b), i)
    BY <1>2 DEF wlr_swapchain_acquire
  <2> DEFINE u == Allocate(s, i, b)
  <2>2. i \in Slot /\ ~s.acquired[i] /\ s.slots[i] = None
    BY DEF Empty
  <2>3. Good(u) /\ u.holds = s.holds /\ i \in Ready(u)
    BY <2>2, AllocateGood
  <2>4. CallsReturned(u)
    BY <2>3 DEF CallsReturned
  <2> HIDE DEF u
  <2>5. Good(slot_acquire(u, i))
    BY <2>3, <2>4, AcquireGood
  <2> QED
    BY <2>1, <2>5 DEF u
<1> QED
  BY <1>1, <1>2

(* wlr_output_configure_primary_swapchain *)
LEMMA ConfiguredGood ==
    ASSUME NEW s, Good(s), CallsReturned(s), NEW m, NEW t \in Configured(s, m)
    PROVE  Good(t) /\ CallsReturned(t)
<1>1. CASE t = s
  BY <1>1
<1>2. CASE t \in Reconfigured(s)
  <2>1. PICK b \in Buffer \ s.live : t = Allocate(wlr_swapchain_destroy(s), Cap, b)
    BY <1>2 DEF Reconfigured
  <2> DEFINE u == wlr_swapchain_destroy(s)
  <2>2. /\ Good(u) /\ u.holds = s.holds /\ u.live \subseteq s.live
        /\ \A i \in Slot : u.slots[i] = None /\ ~u.acquired[i]
    BY DestroyGood
  <2>3. Cap \in Slot
    BY SwapchainAssumption DEF Slot
  <2> HIDE DEF u
  <2>4. b \in Buffer \ u.live /\ u.slots[Cap] = None /\ ~u.acquired[Cap]
    BY <2>2, <2>3
  <2>5. Good(Allocate(u, Cap, b)) /\ Allocate(u, Cap, b).holds = u.holds
    BY <2>2, <2>3, <2>4, AllocateGood
  <2> QED
    BY <2>1, <2>2, <2>5 DEF u, CallsReturned
<1> QED
  BY <1>1, <1>2 DEF Configured

(***************************************************************************)
(* The buffer a call acquired goes to the reference h, and the local       *)
(* variable lets it go: wlr_output_begin_render_pass, output_ensure_buffer. *)
(***************************************************************************)
LEMMA HandOverGood ==
    ASSUME NEW t, Good(t), NEW h \in Ref, t.holds[Local] # None
    PROVE  LET u == wlr_buffer_unlock(SetRef(t, h, t.holds[Local]), Local)
           IN  Good(u) /\ CallsReturned(u)
<1> DEFINE v == SetRef(t, h, t.holds[Local])
           u == wlr_buffer_unlock(v, Local)
<1>1. Local \in Holder /\ h \in Holder /\ h # Local
  BY SwapchainAssumption DEF Holder
<1>2. Good(v)
  BY <1>1, SetRefGood
<1> HIDE DEF v
<1>3. Good(u) /\ u.holds = [v.holds EXCEPT ![Local] = None]
  BY <1>1, <1>2, UnlockGood
<1>4. v.holds \in [Holder -> Buffer \cup {None}]
  BY <1>2 DEF Good, State
<1>5. CallsReturned(u)
  BY <1>1, <1>3, <1>4 DEF CallsReturned
<1> QED
  BY <1>3, <1>5 DEF v

LEMMA LetGoGood ==
    ASSUME NEW t, Good(t)
    PROVE  LET u == wlr_buffer_unlock(t, Local)
           IN  Good(u) /\ CallsReturned(u)
<1> DEFINE u == wlr_buffer_unlock(t, Local)
<1>1. Local \in Holder
  BY DEF Holder
<1>2. Good(u) /\ u.holds = [t.holds EXCEPT ![Local] = None]
  BY <1>1, UnlockGood
<1>3. t.holds \in [Holder -> Buffer \cup {None}]
  BY DEF Good, State
<1> QED
  BY <1>1, <1>2, <1>3 DEF CallsReturned

-----------------------------------------------------------------------------
(* The empty swapchain of wlr_swapchain_create. *)
LEMMA InitIInv == Init => IInv
<1> SUFFICES ASSUME Init PROVE IInv
  OBVIOUS
<1>1. sc \in State
  BY DEF Init, State
<1>2. RefCounted(sc)
  <2> SUFFICES ASSUME NEW b \in Buffer
               PROVE  sc.locks[b] = Cardinality(Holders(sc, b)) + sc.lost[b]
    BY DEF RefCounted
  <2>1. Holders(sc, b) = {}
    BY SwapchainAssumption DEF Init, Holders
  <2>2. Cardinality(Holders(sc, b)) = 0
    BY <2>1, FS_EmptySet
  <2>3. sc.locks[b] = 0 /\ sc.lost[b] = 0
    BY DEF Init
  <2> QED
    BY <2>2, <2>3
<1>3. Alive(sc) /\ AcquiredIffLocked(sc) /\ NoBufferLeak(sc) /\ DroppedOnce(sc)
  BY DEF Init, Alive, AcquiredIffLocked, NoBufferLeak, DroppedOnce
<1>4. CallsReturned(sc)
  BY DEF Init, CallsReturned, Holder
<1> QED
  BY <1>1, <1>2, <1>3, <1>4 DEF Init, IInv, Good

(* Every handler preserves the invariant. *)
LEMMA NextIInv == IInv /\ [Next]_vars => IInv'
<1> SUFFICES ASSUME IInv, [Next]_vars PROVE IInv'
  OBVIOUS
<1>0. Good(sc) /\ CallsReturned(sc) /\ config \in Mode \cup {None} /\ alloc \in BOOLEAN
  BY DEF IInv
<1>h. Ref \subseteq Holder /\ Local \in Holder /\ Local \notin Ref
  BY SwapchainAssumption DEF Holder
<1>i. ASSUME Good(sc'), CallsReturned(sc'), config' \in Mode \cup {None}, alloc' \in BOOLEAN
      PROVE  IInv'
  BY <1>i DEF IInv, Good, RefCounted, Holders, Alive, AcquiredIffLocked, NoBufferLeak,
              DroppedOnce, CallsReturned, State
<1>1. ASSUME NEW h \in Ref, NEW m \in Mode, BeginRenderPass(h, m) PROVE IInv'
  <2>s. PICK s \in Configured(sc, m) : \E t \in wlr_swapchain_acquire(s) :
          \/ t.holds[Local] = None /\ sc' = t
          \/ sc' = Forget(t)
          \/ /\ t.holds[Local] # None
             /\ sc' = wlr_buffer_unlock(SetRef(t, h, t.holds[Local]), Local)
    BY <1>1 DEF BeginRenderPass
  <2>1. PICK t \in wlr_swapchain_acquire(s) :
          \/ t.holds[Local] = None /\ sc' = t
          \/ sc' = Forget(t)
          \/ /\ t.holds[Local] # None
             /\ sc' = wlr_buffer_unlock(SetRef(t, h, t.holds[Local]), Local)
    BY <2>s
  <2>2. Good(s) /\ CallsReturned(s)
    BY <1>0, ConfiguredGood
  <2>3. Good(t)
    BY <2>2, AcquireSwapchainGood
  <2>4. Good(sc') /\ CallsReturned(sc')
    <3>1. CASE t.holds[Local] = None /\ sc' = t
      BY <2>3, <3>1 DEF CallsReturned
    <3>2. CASE sc' = Forget(t)
      BY <2>3, <3>2, ForgetGood
    <3>3. CASE /\ t.holds[Local] # None
               /\ sc' = wlr_buffer_unlock(SetRef(t, h, t.holds[Local]), Local)
      BY <2>3, <3>3, HandOverGood
    <3> QED
      BY <2>1, <3>1, <3>2, <3>3
  <2>5. config' \in Mode \cup {None} /\ alloc' \in BOOLEAN
    BY <1>0, <1>1 DEF BeginRenderPass
  <2> QED
    BY <2>4, <2>5, <1>i
<1>2. ASSUME NEW h \in Ref, NEW m \in Mode, CommitEmptyBuffer(h, m) PROVE IInv'
  <2>s. PICK s \in Configured(sc, m) : \E t \in wlr_swapchain_acquire(s) :
          \/ sc' = wlr_buffer_unlock(t, Local)
          \/ /\ t.holds[Local] # None
             /\ sc' = wlr_buffer_unlock(SetRef(t, h, t.holds[Local]), Local)
    BY <1>2 DEF CommitEmptyBuffer
  <2>1. PICK t \in wlr_swapchain_acquire(s) :
          \/ sc' = wlr_buffer_unlock(t, Local)
          \/ /\ t.holds[Local] # None
             /\ sc' = wlr_buffer_unlock(SetRef(t, h, t.holds[Local]), Local)
    BY <2>s
  <2>2. Good(s) /\ CallsReturned(s)
    BY <1>0, ConfiguredGood
  <2>3. Good(t)
    BY <2>2, AcquireSwapchainGood
  <2>4. Good(sc') /\ CallsReturned(sc')
    <3>1. CASE sc' = wlr_buffer_unlock(t, Local)
      BY <2>3, <3>1, LetGoGood
    <3>2. CASE /\ t.holds[Local] # None
               /\ sc' = wlr_buffer_unlock(SetRef(t, h, t.holds[Local]), Local)
      BY <2>3, <3>2, HandOverGood
    <3> QED
      BY <2>1, <3>1, <3>2
  <2>5. config' \in Mode \cup {None} /\ alloc' \in BOOLEAN
    BY <1>0, <1>2 DEF CommitEmptyBuffer
  <2> QED
    BY <2>4, <2>5, <1>i
<1>t. sc.holds \in [Holder -> Buffer \cup {None}] /\ sc.holds[Local] = None
  BY <1>0 DEF Good, State, CallsReturned
<1>3. ASSUME NEW h \in Ref, NEW from \in Ref, Copy(h, from) PROVE IInv'
  <2>1. Good(sc') /\ sc'.holds = [sc.holds EXCEPT ![h] = sc.holds[from]]
    BY <1>0, <1>3, <1>h, SetRefGood DEF Copy
  <2>2. CallsReturned(sc')
    BY <2>1, <1>t, <1>h DEF CallsReturned
  <2> QED
    BY <1>0, <1>3, <2>1, <2>2, <1>i DEF Copy
<1>4. ASSUME NEW h \in Ref, NEW from \in Ref, Flip(h, from) PROVE IInv'
  <2> DEFINE u == wlr_buffer_unlock(sc, h)
  <2>1. h # from /\ sc.holds[from] # None /\ sc' = Transfer(u, h, from)
    BY <1>4 DEF Flip, drm_fb_move
  <2>2. Good(u) /\ u.holds = [sc.holds EXCEPT ![h] = None]
    BY <1>0, <1>h, UnlockGood
  <2>3. u.holds[h] = None /\ u.holds[from] # None /\ u.holds[Local] = None
    BY <2>1, <2>2, <1>t, <1>h
  <2> HIDE DEF u
  <2>4. Good(sc')
    BY <2>1, <2>2, <2>3, <1>h, TransferGood
  <2>5. CallsReturned(sc')
    BY <2>1, <2>3, <1>h DEF CallsReturned, Transfer
  <2> QED
    BY <1>0, <1>4, <2>4, <2>5, <1>i DEF Flip
<1>5. ASSUME NEW h \in Ref, Finish(h) PROVE IInv'
  <2>1. Good(sc') /\ sc'.holds = [sc.holds EXCEPT ![h] = None]
    BY <1>0, <1>5, <1>h, UnlockGood DEF Finish
  <2>2. CallsReturned(sc')
    BY <2>1, <1>t, <1>h DEF CallsReturned
  <2> QED
    BY <1>0, <1>5, <2>1, <2>2, <1>i DEF Finish
<1>6. CASE DestroySwapchain
  <2>1. Good(sc') /\ sc'.holds = sc.holds
    BY <1>0, <1>6, DestroyGood DEF DestroySwapchain
  <2> QED
    BY <1>0, <1>6, <2>1, <1>i DEF DestroySwapchain, CallsReturned
<1>7. CASE AllocatorDestroy
  BY <1>0, <1>7, <1>i DEF AllocatorDestroy
<1>8. CASE InitRender
  <2>1. Good(sc') /\ sc'.holds = sc.holds
    BY <1>0, <1>8, DestroyGood DEF InitRender
  <2> QED
    BY <1>0, <1>8, <2>1, <1>i DEF InitRender, CallsReturned
<1>9. CASE UNCHANGED vars
  BY <1>0, <1>9, <1>i DEF vars
<1> QED
  BY <1>1, <1>2, <1>3, <1>4, <1>5, <1>6, <1>7, <1>8, <1>9 DEF Next

-----------------------------------------------------------------------------
(* The inductive invariant holds in every reachable state. *)
THEOREM Inductive == Spec => []IInv
<1> QED
  BY InitIInv, NextIInv, PTL DEF Spec

(* The slots, buffers and references are well formed at all times. *)
THEOREM TypeCorrect == Spec => []TypeOK
<1>1. IInv => TypeOK
  BY DEF IInv, Good, TypeOK
<1> QED
  BY <1>1, Inductive, PTL

(***************************************************************************)
(* n_locks is the number of references to a buffer, whatever is rendered,  *)
(* committed, flipped, reconfigured or destroyed (wlr_buffer_lock,         *)
(* wlr_buffer_unlock).                                                     *)
(***************************************************************************)
THEOREM Counting == Spec => []LocksCounted
<1>1. IInv => LocksCounted
  BY DEF IInv, Good, LocksCounted
<1> QED
  BY <1>1, Inductive, PTL

(* No slot and no reference is left pointing to a freed buffer              *)
(* (buffer_consider_destroy, wlr_swapchain_destroy).                       *)
THEOREM MemorySafety == Spec => []NoUseAfterFree
<1>1. IInv => NoUseAfterFree
  <2> SUFFICES ASSUME IInv PROVE NoUseAfterFree
    OBVIOUS
  <2>1. \A i \in Slot : sc.slots[i] \in sc.live \cup {None}
    BY DEF IInv, Good, Alive
  <2>2. \A h \in Holder : sc.holds[h] \in sc.live \cup {None}
    BY HeldLocked DEF IInv
  <2> QED
    BY <2>1, <2>2 DEF NoUseAfterFree
<1> QED
  BY <1>1, Inductive, PTL

(* wlr_swapchain_acquire takes exactly the slots whose buffer nobody holds. *)
THEOREM Exclusion == Spec => []SlotsExclusive
<1>1. IInv => SlotsExclusive
  BY DEF IInv, Good, SlotsExclusive
<1> QED
  BY <1>1, Inductive, PTL

(* Buffers of a destroyed swapchain live exactly as long as they are held. *)
THEOREM NoLeak == Spec => []BuffersFreed
<1>1. IInv => BuffersFreed
  BY DEF IInv, Good, BuffersFreed
<1> QED
  BY <1>1, Inductive, PTL

(* The assertion of wlr_buffer_drop holds: no buffer is dropped twice. *)
THEOREM SingleDrop == Spec => []DropsOnce
<1>1. IInv => DropsOnce
  BY DEF IInv, Good, DropsOnce
<1> QED
  BY <1>1, Inductive, PTL
=============================================================================
