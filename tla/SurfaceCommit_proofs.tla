----------------------- MODULE SurfaceCommit_proofs -----------------------
(***************************************************************************)
(* Proofs about SurfaceCommit, for any buffers, values of the fields,      *)
(* holders of locks and numbers of commits: locks are counted, the queue   *)
(* is held by its head, deltas add up to what the client described, frame  *)
(* callbacks are neither lost nor doubled, and the surface implements      *)
(* DoubleBuffered.                                                         *)
(***************************************************************************)
EXTENDS SurfaceCommit, SequenceTheorems, FiniteSetTheorems, TLAPS

(* Sequence numbers are consecutive: the states that wait are the last      *)
(* commits, the current state is the one before them, or the first of them  *)
(* while its commit signal is being emitted.                                *)
Numbered ==
    /\ pending.seq = Len(log) + 1
    /\ Len(cached) <= Len(log)
    /\ \A i \in 1..Len(cached) : cached[i].seq = Len(log) - Len(cached) + i
    /\ current.seq = Len(log) - Len(cached) + (IF emitting = "cached" THEN 1 ELSE 0)

(* The description that commit n replaced. *)
Described(n) == IF n = 0 THEN InitialWant ELSE log[n]

(* `st` sets what tells the description d from the one before it. *)
SetsFields(st, before, d) ==
    /\ d.scale = IF "scale" \in st.committed THEN st.scale ELSE before.scale
    /\ d.damage = IF "damage" \in st.committed THEN st.damage ELSE {}
    /\ d.frame = ("frame" \in st.committed)
    /\ "frame" \in st.committed => st.frames = {st.seq}

SetsBuffer(st, before, d) ==
    /\ d.buffer = IF "buffer" \in st.committed THEN st.buffer ELSE before.buffer
    /\ st.hasbuf = (d.buffer # NoBuffer)

IsDelta(st, before, d) == SetsFields(st, before, d) /\ SetsBuffer(st, before, d)

(* What the client describes is what the pending state sets, once           *)
(* surface_handle_commit took the attached wl_buffer into it.  A rejected   *)
(* state is never looked at again.                                          *)
Pends ==
    /\ ~rejected =>
          /\ SetsFields(pending, Described(Len(log)), want)
          /\ IF "buffer" \in pending.committed /\ ~handling
             THEN want.buffer = resource
             ELSE SetsBuffer(pending, Described(Len(log)), want)
    /\ "buffer" \notin pending.committed \/ handling => resource = NoBuffer
    /\ "damage" \notin pending.committed => pending.damage = {}
    /\ "frame" \notin pending.committed => pending.frames = {}

(* So do the states that wait. *)
Waiting ==
    \A i \in 1..Len(cached) :
        IsDelta(cached[i], Described(cached[i].seq - 1), log[cached[i].seq])

(* What the surface shows, from its first state on. *)
Shows ==
    LET d == Described(current.seq) IN
    /\ current.scale = d.scale
    /\ current.damage = d.damage
    /\ texture = (IF uploaded THEN d.buffer ELSE NoBuffer)
    /\ current.hasbuf = (d.buffer # NoBuffer)

IInv ==
    /\ TypeOK /\ Numbered
    /\ LocksCounted /\ HeadHolds
    /\ Pends /\ Waiting /\ Shows /\ FramesKept

-----------------------------------------------------------------------------
(* The states surface_state_move makes. *)
LEMMA MovedTyped ==
    ASSUME NEW from \in States, NEW next \in States
    PROVE  /\ Moved(from, next) \in States
           /\ Moved(from, next).seq = next.seq
           /\ Moved(from, next).locks = next.locks
           /\ Moved(from, next).committed = next.committed
           /\ Moved(from, next).hasbuf = next.hasbuf
           /\ Moved(from, next).buffer =
                IF "buffer" \in next.committed THEN next.buffer ELSE from.buffer
           /\ Moved(from, next).scale =
                IF "scale" \in next.committed THEN next.scale ELSE from.scale
           /\ Moved(from, next).damage =
                IF "damage" \in next.committed THEN next.damage ELSE {}
           /\ Moved(from, next).frames =
                IF "frame" \in next.committed THEN next.frames \cup from.frames ELSE from.frames
<1>1. /\ next.seq \in Nat /\ next.locks \in Nat /\ next.committed \in SUBSET Fields
      /\ next.buffer \in AnyBuffer /\ next.hasbuf \in BOOLEAN /\ next.scale \in Scales
      /\ next.damage \in SUBSET Rects /\ next.frames \in SUBSET Nat
      /\ from.buffer \in AnyBuffer /\ from.scale \in Scales
      /\ from.frames \in SUBSET Nat
  BY DEF States
<1> QED
  BY <1>1 DEF Moved, States

(* The pending state once its contents were moved on. *)
Left(next) == [Emptied(next) EXCEPT !.seq = @ + 1]

LEMMA LeftTyped ==
    ASSUME NEW next \in States
    PROVE  /\ Left(next) \in States
           /\ Left(next).seq = next.seq + 1 /\ Left(next).locks = 0
           /\ Left(next).committed = {}
           /\ Left(next).hasbuf = next.hasbuf /\ Left(next).scale = next.scale
           /\ Left(next).damage = IF "damage" \in next.committed THEN {} ELSE next.damage
           /\ Left(next).frames = IF "frame" \in next.committed THEN {} ELSE next.frames
<1> DEFINE buffer == IF "buffer" \in next.committed THEN NoBuffer ELSE next.buffer
           damage == IF "damage" \in next.committed THEN {} ELSE next.damage
           frames == IF "frame" \in next.committed THEN {} ELSE next.frames
<1>1. /\ next.seq + 1 \in Nat /\ next.hasbuf \in BOOLEAN /\ next.scale \in Scales
      /\ buffer \in AnyBuffer /\ damage \in SUBSET Rects /\ frames \in SUBSET Nat
  BY DEF States, AnyBuffer
<1>2. Left(next) =
        [seq |-> next.seq + 1, locks |-> 0, committed |-> {}, hasbuf |-> next.hasbuf,
         buffer |-> buffer, scale |-> next.scale, damage |-> damage, frames |-> frames]
  BY DEF Left, Emptied
<1> HIDE DEF buffer, damage, frames
<1>3. /\ Left(next) \in States
      /\ Left(next).seq = next.seq + 1 /\ Left(next).locks = 0 /\ Left(next).committed = {}
      /\ Left(next).hasbuf = next.hasbuf /\ Left(next).scale = next.scale
      /\ Left(next).damage = damage /\ Left(next).frames = frames
  BY <1>1, <1>2 DEF States
<1> QED
  BY <1>3 DEF damage, frames

LEMMA NewStateTyped ==
    ASSUME NEW n \in Nat
    PROVE  NewState(n) \in States
BY ConstantsAssumption DEF NewState, States, AnyBuffer

(* surface_commit_state: the new contents are uploaded, or there are none. *)
LEMMA CommitStateEffect ==
    ASSUME NEW from \in States, NEW next \in States, NEW which, CommitState(from, next, which)
    PROVE  /\ current' = Moved(from, next) /\ emitting' = which /\ mapped' \in BOOLEAN
           /\ IF "buffer" \in next.committed
              THEN /\ uploaded' \in BOOLEAN /\ texture' \in AnyBuffer
                   /\ texture' = IF uploaded' THEN next.buffer ELSE NoBuffer
              ELSE UNCHANGED <<texture, uploaded>>
<1>1. current' = Moved(from, next) /\ emitting' = which /\ mapped' \in BOOLEAN
  BY DEF CommitState
<1>2. CASE "buffer" \notin next.committed
  BY <1>1, <1>2 DEF CommitState
<1>3. CASE "buffer" \in next.committed
  <2>1. PICK ok \in BOOLEAN : /\ uploaded' = (ok \/ next.buffer = NoBuffer)
                              /\ texture' = IF ok THEN next.buffer ELSE NoBuffer
    BY <1>3 DEF CommitState
  <2>2. next.buffer \in AnyBuffer /\ NoBuffer \in AnyBuffer
    BY DEF States, AnyBuffer
  <2>3. uploaded' \in BOOLEAN /\ texture' \in AnyBuffer
    BY <2>1, <2>2
  <2>4. texture' = IF uploaded' THEN next.buffer ELSE NoBuffer
    BY <2>1
  <2> QED
    BY <1>1, <1>3, <2>3, <2>4
<1> QED
  BY <1>2, <1>3

(* The current state once the surface gave up its lock on the buffer. *)
Unlocked == [current EXCEPT !.buffer = NoBuffer]

LEMMA UnlockedTyped ==
    ASSUME current \in States
    PROVE  /\ Unlocked \in States
           /\ Unlocked.seq = current.seq /\ Unlocked.scale = current.scale
           /\ Unlocked.damage = current.damage /\ Unlocked.hasbuf = current.hasbuf
           /\ Unlocked.frames = current.frames
BY DEF Unlocked, States, AnyBuffer

-----------------------------------------------------------------------------
(* The cases of the handlers that decide. *)
Rejects ==
    /\ handling /\ emitting = "none" /\ rejected
    /\ handling' = FALSE
    /\ UNCHANGED <<pending, cached, current, resource, texture, mapped, rejected, emitting,
                   held, want, log, uploaded, done>>

Accepts ==
    /\ handling /\ emitting = "none" /\ ~rejected
    /\ handling' = FALSE
    /\ log' = Append(log, want) /\ want' = Committed(want)
    /\ pending' = Left(pending)
    /\ UNCHANGED <<resource, rejected, held, done>>

Waits ==
    /\ Accepts /\ MustWait
    /\ cached' = Append(cached, Moved(NewState(0), pending))
    /\ UNCHANGED <<current, texture, mapped, emitting, uploaded>>

Applies ==
    /\ Accepts /\ ~MustWait
    /\ CommitState(current, pending, "pending") /\ UNCHANGED cached

LEMMA FinishClientCommitCases ==
    ASSUME FinishClientCommit
    PROVE  Rejects \/ Waits \/ Applies
BY DEF FinishClientCommit, Rejects, Waits, Applies, Accepts, Left, queueVars

Returns ==
    /\ emitting = "pending"
    /\ current' = Unlocked /\ emitting' = "none"
    /\ UNCHANGED <<cached, texture, mapped, uploaded>>
    /\ UNCHANGED <<pending, resource, handling, rejected, held, want, log, done>>

GoesOn ==
    /\ emitting \notin {"none", "pending"}
    /\ cached' = Tail(cached) /\ Tail(cached) # <<>> /\ Head(Tail(cached)).locks = 0
    /\ CommitState(Unlocked, Head(Tail(cached)), "cached")
    /\ UNCHANGED <<pending, resource, handling, rejected, held, want, log, done>>

Ends ==
    /\ emitting \notin {"none", "pending"}
    /\ cached' = Tail(cached) /\ (Tail(cached) # <<>> => Head(Tail(cached)).locks # 0)
    /\ current' = Unlocked /\ emitting' = "none"
    /\ UNCHANGED <<texture, mapped, uploaded>>
    /\ UNCHANGED <<pending, resource, handling, rejected, held, want, log, done>>

LEMMA FinishCommitCases ==
    ASSUME FinishCommit
    PROVE  Returns \/ GoesOn \/ Ends
BY DEF FinishCommit, Returns, GoesOn, Ends, Unlocked

Unlocks(h) ==
    /\ held[h] # 0 /\ held' = [held EXCEPT ![h] = 0]
    /\ UNCHANGED <<resource, handling, rejected, want, log, done>>

UnlocksPending(h) ==
    /\ Unlocks(h) /\ held[h] = pending.seq
    /\ pending' = [pending EXCEPT !.locks = @ - 1]
    /\ UNCHANGED <<cached, current, texture, mapped, emitting, uploaded>>

UnlocksState(h, i) ==
    /\ Unlocks(h) /\ held[h] # pending.seq /\ cached[i].seq = held[h]
    /\ cached' = [cached EXCEPT ![i].locks = @ - 1]
    /\ UNCHANGED pending

UnlocksOne(h, i) ==
    /\ UnlocksState(h, i) /\ ~(cached[i].locks = 1 /\ i = 1)
    /\ UNCHANGED <<current, texture, mapped, emitting, uploaded>>

UnlocksFirst(h) ==
    /\ UnlocksState(h, 1) /\ cached[1].locks = 1
    /\ CommitState(current, [cached[1] EXCEPT !.locks = 0], "cached")

LEMMA UnlockCachedCases ==
    ASSUME NEW h \in Holders, UnlockCached(h)
    PROVE  \/ UnlocksPending(h)
           \/ \E i \in 1..Len(cached) : UnlocksOne(h, i) \/ (i = 1 /\ UnlocksFirst(h))
<1>0. Unlocks(h)
  BY DEF UnlockCached, Unlocks
<1>1. CASE held[h] = pending.seq
  BY <1>0, <1>1 DEF UnlockCached, UnlocksPending
<1>2. CASE held[h] # pending.seq
  <2>1. PICK i \in CachedWith(held[h]) :
          /\ cached' = [cached EXCEPT ![i].locks = @ - 1]
          /\ UNCHANGED pending
          /\ IF Starts(i)
             THEN CommitState(current, [cached[1] EXCEPT !.locks = 0], "cached")
             ELSE UNCHANGED <<current, texture, mapped, emitting, uploaded>>
    BY <1>2 DEF UnlockCached
  <2>2. i \in 1..Len(cached) /\ cached[i].seq = held[h]
    BY <2>1 DEF CachedWith
  <2>3. UnlocksState(h, i)
    BY <1>0, <1>2, <2>1, <2>2 DEF UnlocksState
  <2> QED
    BY <2>1, <2>2, <2>3 DEF Starts, UnlocksOne, UnlocksFirst
<1> QED
  BY <1>1, <1>2

-----------------------------------------------------------------------------
(* Holders are finitely many, and so are those of one state. *)
LEMMA HeldOnFinite ==
    ASSUME NEW n
    PROVE  /\ IsFiniteSet(HeldOn(n))
           /\ Cardinality(HeldOn(n)) \in Nat
           /\ Cardinality(HeldOn(n)) = 0 <=> HeldOn(n) = {}
<1>1. HeldOn(n) \subseteq Holders
  BY DEF HeldOn
<1>2. IsFiniteSet(HeldOn(n))
  BY <1>1, ConstantsAssumption, FS_Subset
<1> QED
  BY <1>2, FS_CardinalityType, FS_EmptySet

(* A state somebody holds is locked. *)
LEMMA HeldIsLocked ==
    ASSUME NEW h \in Holders, NEW n, held[h] = n
    PROVE  Cardinality(HeldOn(n)) \in Nat /\ Cardinality(HeldOn(n)) > 0
<1>1. h \in HeldOn(n)
  BY DEF HeldOn
<1> QED
  BY <1>1, HeldOnFinite

(* The fields of the states, typed. *)
LEMMA StateTyped ==
    ASSUME NEW s \in States
    PROVE  /\ s.seq \in Nat /\ s.locks \in Nat /\ s.committed \subseteq Fields
           /\ s.buffer \in AnyBuffer /\ s.hasbuf \in BOOLEAN /\ s.scale \in Scales
           /\ s.damage \subseteq Rects /\ s.frames \subseteq Nat
BY DEF States

LEMMA SeqsTyped ==
    ASSUME TypeOK
    PROVE  /\ Len(cached) \in Nat /\ Len(log) \in Nat
           /\ \A i \in 1..Len(cached) : cached[i] \in States
           /\ \A k \in 1..Len(log) : log[k] \in Descriptions
           /\ cached # <<>> <=> Len(cached) > 0
<1>1. cached \in Seq(States) /\ log \in Seq(Descriptions)
  BY DEF TypeOK
<1>2. Len(cached) \in Nat /\ Len(log) \in Nat
  BY <1>1, LenProperties
<1>3. cached # <<>> <=> Len(cached) > 0
  BY <1>1, <1>2, EmptySeq
<1> QED
  BY <1>1, <1>2, <1>3, ElementOfSeq

(* What is left of the queue once its first state goes. *)
LEMMA TailOfQueue ==
    ASSUME TypeOK, cached # <<>>
    PROVE  /\ Tail(cached) \in Seq(States) /\ Len(Tail(cached)) = Len(cached) - 1
           /\ \A i \in 1..Len(Tail(cached)) : i + 1 \in 1..Len(cached) /\ Tail(cached)[i] = cached[i + 1]
           /\ Tail(cached) # <<>> <=> Len(cached) > 1
           /\ Tail(cached) # <<>> => Head(Tail(cached)) = cached[2] /\ 2 \in 1..Len(cached)
<1> DEFINE t == Tail(cached)
<1>1. cached \in Seq(States) /\ Len(cached) \in Nat /\ Len(cached) > 0
  BY SeqsTyped DEF TypeOK
<1>2. t \in Seq(States) /\ Len(t) = Len(cached) - 1 /\ \A i \in 1..Len(t) : t[i] = cached[i + 1]
  BY <1>1, HeadTailProperties
<1> HIDE DEF t
<1>3. t # <<>> <=> Len(t) > 0
  BY <1>1, <1>2, EmptySeq
<1>4. t # <<>> => Head(t) = t[1]
  BY <1>2
<1>5. \A i \in 1..Len(t) : i + 1 \in 1..Len(cached)
  BY <1>1, <1>2
<1>6. t # <<>> => 1 \in 1..Len(t) /\ 2 \in 1..Len(cached) /\ 1 + 1 = 2
  BY <1>1, <1>2, <1>3
<1>7. t # <<>> => Head(t) = cached[2]
  BY <1>2, <1>4, <1>6
<1> QED
  BY <1>1, <1>2, <1>3, <1>5, <1>6, <1>7 DEF t

(* The queue with one lock less on its i-th state. *)
LEMMA UnlockedQueue ==
    ASSUME TypeOK, NEW i \in 1..Len(cached), cached[i].locks > 0
    PROVE  LET q == [cached EXCEPT ![i].locks = @ - 1] IN
           /\ q \in Seq(States) /\ Len(q) = Len(cached)
           /\ q[i] = [cached[i] EXCEPT !.locks = @ - 1]
           /\ \A k \in 1..Len(cached) : k # i => q[k] = cached[k]
<1> DEFINE e == [cached[i] EXCEPT !.locks = @ - 1]
<1>1. cached[i] \in States /\ cached \in Seq(States)
  BY SeqsTyped DEF TypeOK
<1>2. cached[i].locks - 1 \in Nat
  BY <1>1, StateTyped
<1>3. e \in States
  BY <1>1, <1>2 DEF States
<1>4. [cached EXCEPT ![i].locks = @ - 1] = [cached EXCEPT ![i] = e]
  OBVIOUS
<1> HIDE DEF e
<1> DEFINE q == [cached EXCEPT ![i] = e]
<1>5. /\ q \in Seq(States) /\ Len(q) = Len(cached)
      /\ \A k \in 1..Len(cached) : q[k] = IF k = i THEN e ELSE cached[k]
  BY <1>1, <1>3, ExceptSeq
<1> QED
  BY <1>4, <1>5 DEF e

-----------------------------------------------------------------------------

(* What each request, and each lock, leaves of the pending state. *)
LEMMA AttachEffect ==
    ASSUME pending \in States, NEW b \in AnyBuffer, Attach(b)
    PROVE  /\ pending' \in States
           /\ pending'.committed = pending.committed \cup {"buffer"}
           /\ UNCHANGED <<pending.seq, pending.locks, pending.buffer, pending.hasbuf,
                          pending.scale, pending.damage, pending.frames>>
<1>1. pending.committed \cup {"buffer"} \in SUBSET Fields
  BY DEF States, Fields
<1> QED
  BY <1>1 DEF Attach, States

LEMMA SetScaleEffect ==
    ASSUME pending \in States, NEW s \in Scales, SetScale(s)
    PROVE  /\ pending' \in States
           /\ pending'.committed = pending.committed \cup {"scale"} /\ pending'.scale = s
           /\ UNCHANGED <<pending.seq, pending.locks, pending.buffer, pending.hasbuf,
                          pending.damage, pending.frames>>
<1>1. pending.committed \cup {"scale"} \in SUBSET Fields
  BY DEF States, Fields
<1> QED
  BY <1>1 DEF SetScale, States

LEMMA DamageEffect ==
    ASSUME pending \in States, NEW r \in Rects, Damage(r)
    PROVE  /\ pending' \in States
           /\ pending'.committed = pending.committed \cup {"damage"}
           /\ pending'.damage = pending.damage \cup {r}
           /\ UNCHANGED <<pending.seq, pending.locks, pending.buffer, pending.hasbuf,
                          pending.scale, pending.frames>>
<1>1. pending.committed \cup {"damage"} \in SUBSET Fields /\ pending.damage \cup {r} \in SUBSET Rects
  BY DEF States, Fields
<1> QED
  BY <1>1 DEF Damage, States

LEMMA FrameEffect ==
    ASSUME pending \in States, Frame
    PROVE  /\ pending' \in States
           /\ pending'.committed = pending.committed \cup {"frame"}
           /\ pending'.frames = pending.frames \cup {pending.seq}
           /\ UNCHANGED <<pending.seq, pending.locks, pending.buffer, pending.hasbuf,
                          pending.scale, pending.damage>>
<1>1. /\ pending.committed \cup {"frame"} \in SUBSET Fields
      /\ pending.frames \cup {pending.seq} \in SUBSET Nat
  BY DEF States, Fields
<1> QED
  BY <1>1 DEF Frame, States

LEMMA HandleCommitEffect ==
    ASSUME pending \in States, resource \in AnyBuffer, NEW ok \in BOOLEAN, HandleCommit(ok)
    PROVE  /\ pending' \in States /\ resource' \in AnyBuffer
           /\ UNCHANGED <<pending.seq, pending.locks, pending.committed,
                          pending.scale, pending.damage, pending.frames>>
           /\ IF "buffer" \in pending.committed
              THEN /\ pending'.buffer = resource /\ pending'.hasbuf = (resource # NoBuffer)
                   /\ resource' = NoBuffer
              ELSE UNCHANGED <<pending, resource>>
<1>1. CASE "buffer" \in pending.committed
  <2> DEFINE has == resource # NoBuffer
  <2>1. pending' = [pending EXCEPT !.buffer = resource, !.hasbuf = has] /\ resource' = NoBuffer
    BY <1>1 DEF HandleCommit
  <2>2. has \in BOOLEAN /\ NoBuffer \in AnyBuffer
    BY DEF AnyBuffer
  <2> HIDE DEF has
  <2>3. /\ pending' \in States
        /\ UNCHANGED <<pending.seq, pending.locks, pending.committed,
                       pending.scale, pending.damage, pending.frames>>
        /\ pending'.buffer = resource /\ pending'.hasbuf = has
    BY <2>1, <2>2 DEF States
  <2> QED
    BY <1>1, <2>1, <2>2, <2>3 DEF has
<1>2. CASE "buffer" \notin pending.committed
  BY <1>2 DEF HandleCommit
<1> QED
  BY <1>1, <1>2

LEMMA LockPendingEffect ==
    ASSUME pending \in States, NEW h \in Holders, LockPending(h)
    PROVE  /\ pending' \in States /\ pending'.locks = pending.locks + 1
           /\ UNCHANGED <<pending.seq, pending.committed, pending.buffer, pending.hasbuf,
                          pending.scale, pending.damage, pending.frames>>
<1>1. pending.locks + 1 \in Nat
  BY DEF States
<1> QED
  BY <1>1 DEF LockPending, States

LEMMA UnlockPendingEffect ==
    ASSUME pending \in States, LocksCounted, NEW h \in Holders, UnlocksPending(h)
    PROVE  /\ pending' \in States /\ pending'.locks = pending.locks - 1
           /\ UNCHANGED <<pending.seq, pending.committed, pending.buffer, pending.hasbuf,
                          pending.scale, pending.damage, pending.frames>>
<1>1. pending.locks \in Nat /\ pending.locks > 0
  BY HeldIsLocked DEF LocksCounted, UnlocksPending
<1>2. pending.locks - 1 \in Nat
  BY <1>1
<1> QED
  BY <1>2 DEF UnlocksPending, States

(* What unlocking a cached state leaves of the queue. *)
LEMMA UnlockStateEffect ==
    ASSUME TypeOK, LocksCounted, NEW h \in Holders, NEW i \in 1..Len(cached), UnlocksState(h, i)
    PROVE  /\ cached' \in Seq(States) /\ Len(cached') = Len(cached)
           /\ cached[i].locks \in Nat /\ cached[i].locks > 0
           /\ cached'[i] \in States /\ cached'[i].locks = cached[i].locks - 1
           /\ UNCHANGED <<cached[i].seq, cached[i].committed, cached[i].buffer, cached[i].hasbuf,
                          cached[i].scale, cached[i].damage, cached[i].frames>>
           /\ \A k \in 1..Len(cached) : k # i => cached'[k] = cached[k]
<1>1. cached[i].locks > 0 /\ cached[i] \in States /\ cached[i].locks \in Nat
  BY HeldIsLocked, SeqsTyped DEF LocksCounted, UnlocksState
<1>2. /\ cached' \in Seq(States) /\ Len(cached') = Len(cached)
      /\ cached'[i] = [cached[i] EXCEPT !.locks = @ - 1]
      /\ \A k \in 1..Len(cached) : k # i => cached'[k] = cached[k]
  BY <1>1, UnlockedQueue DEF UnlocksState
<1>3. cached[i].locks - 1 \in Nat
  BY <1>1
<1>4. /\ cached'[i] \in States /\ cached'[i].locks = cached[i].locks - 1
      /\ UNCHANGED <<cached[i].seq, cached[i].committed, cached[i].buffer, cached[i].hasbuf,
                     cached[i].scale, cached[i].damage, cached[i].frames>>
  BY <1>1, <1>2, <1>3 DEF States
<1> QED
  BY <1>1, <1>2, <1>4

(* The state whose last lock goes, as surface_commit_state reads it. *)
LEMMA FirstTyped ==
    ASSUME NEW s \in States
    PROVE  LET f == [s EXCEPT !.locks = 0] IN
           /\ f \in States /\ f.locks = 0
           /\ f.seq = s.seq /\ f.committed = s.committed /\ f.buffer = s.buffer
           /\ f.hasbuf = s.hasbuf /\ f.scale = s.scale /\ f.damage = s.damage
           /\ f.frames = s.frames
BY DEF States

LEMMA WantTyped ==
    ASSUME TypeOK
    PROVE  /\ Committed(want) \in Descriptions
           /\ \A b \in AnyBuffer : [want EXCEPT !.buffer = b] \in Descriptions
           /\ \A s \in Scales : [want EXCEPT !.scale = s] \in Descriptions
           /\ \A r \in Rects : [want EXCEPT !.damage = @ \cup {r}] \in Descriptions
           /\ [want EXCEPT !.frame = TRUE] \in Descriptions
<1>1. want \in Descriptions
  BY DEF TypeOK
<1>2. \A r \in Rects : want.damage \cup {r} \in SUBSET Rects
  BY <1>1 DEF Descriptions
<1> QED
  BY <1>1, <1>2 DEF Descriptions, Committed

(* While a cached state is being applied it is the first of the queue. *)
LEMMA Applying ==
    ASSUME IInv, emitting \notin {"none", "pending"}
    PROVE  /\ emitting = "cached" /\ cached # <<>> /\ cached[1].seq = current.seq
           /\ 1 \in 1..Len(cached) /\ HeldOn(current.seq) = {}
<1>1. TypeOK /\ HeadHolds
  BY DEF IInv
<1>2. emitting = "cached"
  BY <1>1 DEF TypeOK
<1>3. cached # <<>> /\ cached[1].seq = current.seq /\ HeldOn(current.seq) = {}
  BY <1>1, <1>2 DEF HeadHolds
<1> QED
  BY <1>1, <1>2, <1>3, SeqsTyped

-----------------------------------------------------------------------------
(* Every step keeps the types. *)
LEMMA TypeStep ==
    ASSUME IInv, [Next]_vars
    PROVE  TypeOK'
<1>t. TypeOK /\ LocksCounted
  BY DEF IInv
<1>p. pending \in States /\ current \in States /\ resource \in AnyBuffer
  BY <1>t DEF TypeOK
<1>e. ASSUME NEW from \in States, NEW next \in States, NEW which \in {"pending", "cached"},
             CommitState(from, next, which)
      PROVE  /\ current' \in States /\ texture' \in AnyBuffer /\ mapped' \in BOOLEAN
             /\ emitting' \in {"none", "pending", "cached"} /\ uploaded' \in BOOLEAN
  <2>1. /\ current' = Moved(from, next) /\ emitting' = which /\ mapped' \in BOOLEAN
        /\ IF "buffer" \in next.committed
           THEN uploaded' \in BOOLEAN /\ texture' \in AnyBuffer
           ELSE UNCHANGED <<texture, uploaded>>
    BY <1>e, CommitStateEffect
  <2>2. Moved(from, next) \in States
    BY MovedTyped
  <2>3. uploaded' \in BOOLEAN /\ texture' \in AnyBuffer
    BY <1>t, <2>1 DEF TypeOK
  <2> QED
    BY <2>1, <2>2, <2>3
<1>1. ASSUME NEW b \in AnyBuffer, Attach(b)
      PROVE  TypeOK'
  BY <1>t, <1>p, <1>1, AttachEffect, WantTyped DEF Attach, TypeOK
<1>2. CASE BufferResourceDestroyed
  <2>1. NoBuffer \in AnyBuffer
    BY DEF AnyBuffer
  <2> QED
    BY <1>t, <1>2, <2>1, WantTyped DEF BufferResourceDestroyed, TypeOK, queueVars
<1>3. ASSUME NEW s \in Scales, SetScale(s)
      PROVE  TypeOK'
  BY <1>t, <1>p, <1>3, SetScaleEffect, WantTyped DEF SetScale, TypeOK
<1>4. ASSUME NEW r \in Rects, Damage(r)
      PROVE  TypeOK'
  BY <1>t, <1>p, <1>4, DamageEffect, WantTyped DEF Damage, TypeOK
<1>5. CASE Frame
  BY <1>t, <1>p, <1>5, FrameEffect, WantTyped DEF Frame, TypeOK
<1>6. ASSUME NEW ok \in BOOLEAN, HandleCommit(ok)
      PROVE  TypeOK'
  <2>1. pending' \in States /\ resource' \in AnyBuffer
    BY <1>p, <1>6, HandleCommitEffect
  <2> QED
    BY <1>t, <1>6, <2>1 DEF HandleCommit, TypeOK
<1>7. CASE Rejects
  BY <1>t, <1>7 DEF Rejects, TypeOK
<1>8. ASSUME Accepts
      PROVE  /\ pending' \in States /\ want' \in Descriptions /\ log' \in Seq(Descriptions)
             /\ handling' \in BOOLEAN /\ rejected' \in BOOLEAN /\ resource' \in AnyBuffer
             /\ held' \in [Holders -> Nat] /\ done' \subseteq Nat
  BY <1>t, <1>p, <1>8, LeftTyped, WantTyped, AppendProperties DEF Accepts, TypeOK
<1>9. CASE Waits
  <2>1. Moved(NewState(0), pending) \in States
    BY <1>p, NewStateTyped, MovedTyped
  <2>2. cached' \in Seq(States)
    BY <1>t, <1>9, <2>1, AppendProperties DEF Waits, TypeOK
  <2> QED
    BY <1>t, <1>8, <1>9, <2>2 DEF Waits, TypeOK
<1>10. CASE Applies
  <2>1. CommitState(current, pending, "pending") /\ cached' = cached /\ Accepts
    BY <1>10 DEF Applies
  <2> QED
    BY <1>t, <1>p, <1>e, <1>8, <2>1 DEF TypeOK
<1>11. CASE Returns
  BY <1>t, <1>p, <1>11, UnlockedTyped DEF Returns, TypeOK
<1>12. CASE GoesOn
  <2>1. cached' \in Seq(States) /\ Head(Tail(cached)) \in States
    BY <1>t, <1>12, Applying, TailOfQueue, SeqsTyped DEF GoesOn
  <2>2. CommitState(Unlocked, Head(Tail(cached)), "cached")
    BY <1>12 DEF GoesOn
  <2>3. /\ current' \in States /\ texture' \in AnyBuffer /\ mapped' \in BOOLEAN
        /\ emitting' \in {"none", "pending", "cached"} /\ uploaded' \in BOOLEAN
    BY <1>p, <1>e, <2>1, <2>2, UnlockedTyped
  <2> QED
    BY <1>t, <1>12, <2>1, <2>3 DEF GoesOn, TypeOK
<1>13. CASE Ends
  <2>1. cached' \in Seq(States)
    BY <1>t, <1>13, Applying, TailOfQueue DEF Ends
  <2> QED
    BY <1>t, <1>p, <1>13, <2>1, UnlockedTyped DEF Ends, TypeOK
<1>14. ASSUME NEW h \in Holders, LockPending(h)
       PROVE  TypeOK'
  <2>1. held' \in [Holders -> Nat]
    BY <1>t, <1>p, <1>14, StateTyped DEF LockPending, TypeOK
  <2> QED
    BY <1>t, <1>p, <1>14, <2>1, LockPendingEffect DEF LockPending, TypeOK
<1>15. ASSUME NEW h \in Holders, Unlocks(h)
       PROVE  held' \in [Holders -> Nat]
  BY <1>t, <1>15 DEF Unlocks, TypeOK
<1>16. ASSUME NEW h \in Holders, UnlocksPending(h)
       PROVE  TypeOK'
  <2>1. pending' \in States /\ held' \in [Holders -> Nat]
    BY <1>t, <1>p, <1>15, <1>16, UnlockPendingEffect DEF UnlocksPending
  <2> QED
    BY <1>t, <1>16, <2>1 DEF UnlocksPending, Unlocks, TypeOK
<1>17. ASSUME NEW h \in Holders, NEW i \in 1..Len(cached), UnlocksOne(h, i)
       PROVE  TypeOK'
  <2>1. cached' \in Seq(States) /\ held' \in [Holders -> Nat]
    BY <1>t, <1>15, <1>17, UnlockStateEffect DEF UnlocksOne, UnlocksState
  <2> QED
    BY <1>t, <1>17, <2>1 DEF UnlocksOne, UnlocksState, Unlocks, TypeOK
<1>18. ASSUME NEW h \in Holders, 1 \in 1..Len(cached), UnlocksFirst(h)
       PROVE  TypeOK'
  <2>1. cached' \in Seq(States) /\ held' \in [Holders -> Nat]
    BY <1>t, <1>15, <1>18, UnlockStateEffect DEF UnlocksFirst, UnlocksState
  <2>2. [cached[1] EXCEPT !.locks = 0] \in States
    BY <1>t, <1>18, SeqsTyped, FirstTyped
  <2>3. /\ current' \in States /\ texture' \in AnyBuffer /\ mapped' \in BOOLEAN
        /\ emitting' \in {"none", "pending", "cached"} /\ uploaded' \in BOOLEAN
    BY <1>p, <1>e, <1>18, <2>2 DEF UnlocksFirst
  <2> QED
    BY <1>t, <1>18, <2>1, <2>3 DEF UnlocksFirst, UnlocksState, Unlocks, TypeOK
<1>19. CASE Map \/ Unmap \/ RejectPending
  BY <1>t, <1>19 DEF Map, Unmap, RejectPending, TypeOK, queueVars
<1>20. CASE SendFrameDone
  <2>1. current' \in States
    BY <1>p, <1>20 DEF SendFrameDone, States
  <2>2. done' \subseteq Nat
    BY <1>t, <1>p, <1>20, StateTyped DEF SendFrameDone, TypeOK
  <2> QED
    BY <1>t, <1>20, <2>1, <2>2 DEF SendFrameDone, TypeOK
<1>21. CASE UNCHANGED vars
  BY <1>t, <1>21 DEF vars, TypeOK
<1>22. CASE FinishClientCommit
  BY <1>7, <1>9, <1>10, <1>22, FinishClientCommitCases
<1>23. CASE FinishCommit
  BY <1>11, <1>12, <1>13, <1>23, FinishCommitCases
<1>24. ASSUME NEW h \in Holders, UnlockCached(h)
       PROVE  TypeOK'
  BY <1>16, <1>17, <1>18, <1>24, UnlockCachedCases
<1>25. CASE Requests
  BY <1>1, <1>2, <1>3, <1>4, <1>5, <1>6, <1>25 DEF Requests
<1> QED
  BY <1>14, <1>19, <1>20, <1>21, <1>22, <1>23, <1>24, <1>25 DEF Next

(***************************************************************************)
(* The numbers of the states.                                              *)
(***************************************************************************)
LEMMA NumbersTyped ==
    ASSUME IInv
    PROVE  /\ pending \in States /\ current \in States
           /\ pending.seq \in Nat /\ current.seq \in Nat
           /\ Len(cached) \in Nat /\ Len(log) \in Nat
           /\ \A i \in 1..Len(cached) : cached[i] \in States /\ cached[i].seq \in Nat
<1>1. TypeOK
  BY DEF IInv
<1>2. pending \in States /\ current \in States
  BY <1>1 DEF TypeOK
<1> QED
  BY <1>1, <1>2, SeqsTyped, StateTyped

(* The queue when one more commit waits. *)
LEMMA WaitsEffect ==
    ASSUME IInv, Waits
    PROVE  /\ Len(cached') = Len(cached) + 1
           /\ \A i \in 1..Len(cached) : cached'[i] = cached[i]
           /\ cached'[Len(cached) + 1] = Moved(NewState(0), pending)
           /\ \A i \in 1..Len(cached') : i \in 1..Len(cached) \/ i = Len(cached) + 1
<1>1. Moved(NewState(0), pending) \in States /\ cached \in Seq(States)
  BY NumbersTyped, NewStateTyped, MovedTyped DEF IInv, TypeOK
<1>2. cached' = Append(cached, Moved(NewState(0), pending)) /\ Len(cached) \in Nat
  BY NumbersTyped DEF Waits
<1>3. /\ Len(cached') = Len(cached) + 1
      /\ \A i \in 1..Len(cached) : cached'[i] = cached[i]
      /\ cached'[Len(cached) + 1] = Moved(NewState(0), pending)
  BY <1>1, <1>2, AppendProperties
<1>4. \A i \in 1..(Len(cached) + 1) : i \in 1..Len(cached) \/ i = Len(cached) + 1
  BY <1>2
<1> QED
  BY <1>3, <1>4

(* The log when a commit is accepted. *)
LEMMA AcceptsEffect ==
    ASSUME IInv, Accepts
    PROVE  /\ Len(log') = Len(log) + 1
           /\ \A k \in 1..Len(log) : log'[k] = log[k]
           /\ log'[Len(log) + 1] = want
           /\ pending'.seq = pending.seq + 1 /\ pending'.locks = 0 /\ pending'.committed = {}
<1>1. log \in Seq(Descriptions) /\ want \in Descriptions /\ pending \in States
  BY DEF IInv, TypeOK
<1> QED
  BY <1>1, AppendProperties, LeftTyped DEF Accepts

(* surface_commit_state numbers the current state after the next one. *)
LEMMA CommitStateSeq ==
    ASSUME NEW from \in States, NEW next \in States, NEW which, CommitState(from, next, which)
    PROVE  current'.seq = next.seq /\ emitting' = which
<1>1. current' = Moved(from, next) /\ emitting' = which
  BY DEF CommitState
<1>2. Moved(from, next).seq = next.seq
  BY MovedTyped
<1> QED
  BY <1>1, <1>2

LEMMA NumberedStep ==
    ASSUME IInv, [Next]_vars
    PROVE  Numbered'
<1>t. TypeOK /\ Numbered /\ LocksCounted /\ HeadHolds
  BY DEF IInv
<1>n. /\ pending \in States /\ current \in States
      /\ pending.seq \in Nat /\ current.seq \in Nat
      /\ Len(cached) \in Nat /\ Len(log) \in Nat
      /\ \A i \in 1..Len(cached) : cached[i] \in States /\ cached[i].seq \in Nat
  BY NumbersTyped
<1>0. ASSUME pending'.seq = pending.seq, current'.seq = current.seq,
             UNCHANGED <<log, cached, emitting>>
      PROVE  Numbered'
  BY <1>t, <1>0 DEF Numbered
<1>1. CASE Requests
  <2>1. pending'.seq = pending.seq
    BY <1>n, <1>t, <1>1, AttachEffect, SetScaleEffect, DamageEffect, FrameEffect, HandleCommitEffect
       DEF Requests, BufferResourceDestroyed, queueVars, TypeOK
  <2>2. UNCHANGED <<current, log, cached, emitting>>
    BY <1>1 DEF Requests, Attach, BufferResourceDestroyed, SetScale, Damage, Frame, HandleCommit,
                queueVars
  <2> QED
    BY <1>0, <2>1, <2>2
<1>2. CASE Rejects
  BY <1>0, <1>2 DEF Rejects
<1>3. CASE Waits
  <2>1. /\ Len(log') = Len(log) + 1 /\ pending'.seq = pending.seq + 1
        /\ UNCHANGED <<current, emitting>>
    BY <1>3, AcceptsEffect DEF Waits
  <2>2. /\ Len(cached') = Len(cached) + 1
        /\ \A i \in 1..Len(cached) : cached'[i] = cached[i]
        /\ cached'[Len(cached) + 1].seq = pending.seq
        /\ \A i \in 1..Len(cached') : i \in 1..Len(cached) \/ i = Len(cached) + 1
    <3>1. Moved(NewState(0), pending).seq = pending.seq
      BY DEF Moved
    <3> QED
      BY <1>3, <3>1, WaitsEffect
  <2>3. ASSUME NEW i \in 1..Len(cached')
        PROVE  cached'[i].seq = Len(log') - Len(cached') + i
    <3>1. CASE i \in 1..Len(cached)
      <4>1. cached[i].seq = Len(log) - Len(cached) + i
        BY <1>t, <3>1 DEF Numbered
      <4> QED
        BY <1>n, <2>1, <2>2, <3>1, <4>1
    <3>2. CASE i = Len(cached) + 1
      <4>1. pending.seq = Len(log) + 1
        BY <1>t DEF Numbered
      <4> QED
        BY <1>n, <2>1, <2>2, <3>2, <4>1
    <3> QED
      BY <2>2, <3>1, <3>2
  <2>4. Len(cached') <= Len(log') /\ Len(log') - Len(cached') = Len(log) - Len(cached)
    BY <1>t, <1>n, <2>1, <2>2 DEF Numbered
  <2>5. pending'.seq = Len(log') + 1
    BY <1>t, <1>n, <2>1 DEF Numbered
  <2>6. current'.seq = Len(log') - Len(cached') + (IF emitting' = "cached" THEN 1 ELSE 0)
    BY <1>t, <2>1, <2>4 DEF Numbered
  <2> QED
    BY <2>3, <2>4, <2>5, <2>6 DEF Numbered
<1>4. CASE Applies
  <2>1. /\ Len(log') = Len(log) + 1 /\ pending'.seq = pending.seq + 1
        /\ cached' = cached /\ cached = <<>>
    BY <1>4, AcceptsEffect DEF Applies, MustWait
  <2>2. current'.seq = pending.seq /\ emitting' = "pending"
    BY <1>n, <1>4, CommitStateSeq DEF Applies
  <2>3. Len(cached) = 0
    BY <1>t, <1>n, <2>1, SeqsTyped
  <2> QED
    BY <1>t, <1>n, <2>1, <2>2, <2>3 DEF Numbered
<1>5. CASE Returns
  <2>1. current'.seq = current.seq /\ emitting = "pending" /\ emitting' = "none"
    BY <1>n, <1>5, UnlockedTyped DEF Returns
  <2>2. UNCHANGED <<pending, log, cached>>
    BY <1>5 DEF Returns
  <2> QED
    BY <1>t, <1>n, <2>1, <2>2 DEF Numbered
<1>6. ASSUME emitting \notin {"none", "pending"}, cached' = Tail(cached), UNCHANGED <<pending, log>>
      PROVE  /\ Len(cached') = Len(cached) - 1 /\ Len(cached) > 0
             /\ \A i \in 1..Len(cached') : cached'[i].seq = Len(log') - Len(cached') + i
             /\ current.seq = Len(log) - Len(cached')
             /\ pending'.seq = Len(log') + 1 /\ Len(cached') <= Len(log')
  <2>1. emitting = "cached" /\ cached # <<>>
    BY <1>6, Applying
  <2>2. /\ Len(cached') = Len(cached) - 1 /\ Len(cached) > 0
        /\ \A i \in 1..Len(cached') : i + 1 \in 1..Len(cached) /\ cached'[i] = cached[i + 1]
    BY <1>t, <1>6, <2>1, TailOfQueue, SeqsTyped
  <2>3. ASSUME NEW i \in 1..Len(cached')
        PROVE  cached'[i].seq = Len(log') - Len(cached') + i
    <3>1. cached'[i].seq = Len(log) - Len(cached) + (i + 1)
      BY <1>t, <2>2 DEF Numbered
    <3>2. Len(cached') = Len(cached) - 1 /\ log' = log
      BY <1>6, <2>2
    <3>3. Len(log) - Len(cached) + (i + 1) = Len(log) - (Len(cached) - 1) + i
      BY <1>n
    <3> QED
      BY <3>1, <3>2, <3>3
  <2>4. current.seq = Len(log) - Len(cached) + 1 /\ Len(cached) <= Len(log)
    BY <1>t, <2>1 DEF Numbered
  <2>5. Len(cached') = Len(cached) - 1 /\ Len(cached) > 0 /\ pending' = pending /\ log' = log
    BY <1>6, <2>2
  <2>6. current.seq = Len(log) - Len(cached') /\ Len(cached') <= Len(log)
    BY <1>n, <2>4, <2>5
  <2> QED
    BY <1>t, <2>3, <2>5, <2>6 DEF Numbered
<1>7. CASE GoesOn
  <2>1. /\ Len(cached') = Len(cached) - 1
        /\ \A i \in 1..Len(cached') : cached'[i].seq = Len(log') - Len(cached') + i
        /\ pending'.seq = Len(log') + 1 /\ Len(cached') <= Len(log') /\ log' = log
    BY <1>6, <1>7 DEF GoesOn
  <2>2. Head(Tail(cached)) = cached[2] /\ 2 \in 1..Len(cached)
    BY <1>t, <1>7, Applying, TailOfQueue DEF GoesOn
  <2>3. current'.seq = cached[2].seq /\ emitting' = "cached"
    BY <1>n, <1>7, <2>2, UnlockedTyped, CommitStateSeq DEF GoesOn
  <2>4. cached[2].seq = Len(log) - Len(cached) + 2
    BY <1>t, <2>2 DEF Numbered
  <2>5. current'.seq = Len(log') - Len(cached') + 1
    BY <1>n, <2>1, <2>3, <2>4
  <2> QED
    BY <2>1, <2>3, <2>5 DEF Numbered
<1>8. CASE Ends
  <2>1. /\ \A i \in 1..Len(cached') : cached'[i].seq = Len(log') - Len(cached') + i
        /\ pending'.seq = Len(log') + 1 /\ Len(cached') <= Len(log')
        /\ current.seq = Len(log) - Len(cached') /\ log' = log
    BY <1>6, <1>8 DEF Ends
  <2>2. current'.seq = current.seq /\ emitting' = "none"
    BY <1>n, <1>8, UnlockedTyped DEF Ends
  <2>3. current'.seq = Len(log') - Len(cached') + 0
    BY <1>n, <2>1, <2>2
  <2> QED
    BY <2>1, <2>2, <2>3 DEF Numbered
<1>9. ASSUME NEW h \in Holders, LockPending(h) \/ UnlocksPending(h)
      PROVE  Numbered'
  <2>1. pending'.seq = pending.seq
    BY <1>t, <1>n, <1>9, LockPendingEffect, UnlockPendingEffect
  <2> QED
    BY <1>0, <1>9, <2>1 DEF LockPending, UnlocksPending, Unlocks
<1>10. ASSUME NEW h \in Holders, NEW i \in 1..Len(cached), UnlocksState(h, i)
       PROVE  /\ Len(cached') = Len(cached) /\ pending' = pending /\ log' = log
              /\ \A k \in 1..Len(cached') : cached'[k].seq = Len(log') - Len(cached') + k
  <2>1. /\ Len(cached') = Len(cached)
        /\ cached'[i].seq = cached[i].seq
        /\ \A k \in 1..Len(cached) : k # i => cached'[k] = cached[k]
    BY <1>t, <1>10, UnlockStateEffect
  <2>2. \A k \in 1..Len(cached) : cached'[k].seq = cached[k].seq
    BY <2>1
  <2>3. pending' = pending /\ log' = log
    BY <1>10 DEF UnlocksState, Unlocks
  <2> QED
    BY <1>t, <2>1, <2>2, <2>3 DEF Numbered
<1>11. ASSUME NEW h \in Holders, NEW i \in 1..Len(cached), UnlocksOne(h, i)
       PROVE  Numbered'
  BY <1>t, <1>10, <1>11 DEF UnlocksOne, Numbered
<1>12. ASSUME NEW h \in Holders, 1 \in 1..Len(cached), UnlocksFirst(h)
       PROVE  Numbered'
  <2>1. /\ Len(cached') = Len(cached) /\ pending' = pending /\ log' = log
        /\ \A k \in 1..Len(cached') : cached'[k].seq = Len(log') - Len(cached') + k
    BY <1>10, <1>12 DEF UnlocksFirst
  <2>2. current'.seq = cached[1].seq /\ emitting' = "cached"
    BY <1>n, <1>12, FirstTyped, CommitStateSeq DEF UnlocksFirst
  <2>3. cached[1].seq = Len(log) - Len(cached) + 1
    BY <1>t, <1>12 DEF Numbered
  <2> QED
    BY <1>t, <2>1, <2>2, <2>3 DEF Numbered
<1>13. CASE Map \/ Unmap \/ RejectPending
  BY <1>0, <1>13 DEF Map, Unmap, RejectPending, queueVars
<1>14. CASE SendFrameDone
  <2>1. current'.seq = current.seq
    BY <1>n, <1>14 DEF SendFrameDone, States
  <2> QED
    BY <1>0, <1>14, <2>1 DEF SendFrameDone
<1>15. CASE UNCHANGED vars
  BY <1>0, <1>15 DEF vars
<1>16. CASE FinishClientCommit
  BY <1>2, <1>3, <1>4, <1>16, FinishClientCommitCases
<1>17. CASE FinishCommit
  BY <1>5, <1>7, <1>8, <1>17, FinishCommitCases
<1>18. ASSUME NEW h \in Holders, UnlockCached(h)
       PROVE  Numbered'
  BY <1>9, <1>11, <1>12, <1>18, UnlockCachedCases
<1> QED
  BY <1>1, <1>9, <1>13, <1>14, <1>15, <1>16, <1>17, <1>18 DEF Next

(***************************************************************************)
(* The locks.  The same counts for explicit values of the variables, so    *)
(* that they can be compared before and after a step.                      *)
(***************************************************************************)
HoldersIn(f, n) == {h \in Holders : f[h] = n}

Counted(p, q, f) ==
    /\ p.locks = Cardinality(HoldersIn(f, p.seq))
    /\ \A i \in 1..Len(q) : q[i].locks = Cardinality(HoldersIn(f, q[i].seq))
    /\ \A h \in Holders : f[h] # 0 => f[h] = p.seq \/ \E i \in 1..Len(q) : q[i].seq = f[h]

HeadIs(e, q, n, f) ==
    /\ e = "none" /\ q # <<>> => q[1].locks > 0
    /\ e = "pending" => q = <<>>
    /\ e = "cached" => q # <<>> /\ q[1].seq = n /\ HoldersIn(f, n) = {}

LEMMA LocksUnfolded ==
    /\ LocksCounted <=> Counted(pending, cached, held)
    /\ LocksCounted' <=> Counted(pending', cached', held')
<1>1. \A n : HeldOn(n) = HoldersIn(held, n) /\ (CachedWith(n) # {} <=> \E i \in 1..Len(cached) : cached[i].seq = n)
  BY DEF HeldOn, HoldersIn, CachedWith
<1>2. LocksCounted <=> Counted(pending, cached, held)
  BY <1>1 DEF LocksCounted, Counted
<1>3. LocksCounted' <=> Counted(pending', cached', held')
  BY DEF LocksCounted, Counted, HeldOn, HoldersIn, CachedWith
<1> QED
  BY <1>2, <1>3

LEMMA HeadUnfolded ==
    /\ TypeOK => (HeadHolds <=> HeadIs(emitting, cached, current.seq, held))
    /\ TypeOK' => (HeadHolds' <=> HeadIs(emitting', cached', current'.seq, held'))
<1>1. TypeOK => (HeadHolds <=> HeadIs(emitting, cached, current.seq, held))
  BY DEF TypeOK, HeadHolds, HeadIs, HeldOn, HoldersIn
<1>2. TypeOK' => (HeadHolds' <=> HeadIs(emitting', cached', current'.seq, held'))
  BY DEF TypeOK, HeadHolds, HeadIs, HeldOn, HoldersIn
<1> QED
  BY <1>1, <1>2

LEMMA HoldersInFinite ==
    ASSUME NEW f, NEW n
    PROVE  /\ IsFiniteSet(HoldersIn(f, n))
           /\ Cardinality(HoldersIn(f, n)) \in Nat
           /\ Cardinality(HoldersIn(f, n)) = 0 <=> HoldersIn(f, n) = {}
<1>1. HoldersIn(f, n) \subseteq Holders
  BY DEF HoldersIn
<1>2. IsFiniteSet(HoldersIn(f, n))
  BY <1>1, ConstantsAssumption, FS_Subset
<1> QED
  BY <1>2, FS_CardinalityType, FS_EmptySet

(* Taking a lock adds one holder, to that state only; releasing one takes   *)
(* a holder away.                                                           *)
LEMMA HolderAdded ==
    ASSUME NEW f \in [Holders -> Nat], NEW h \in Holders, f[h] = 0, NEW n \in Nat, n # 0
    PROVE  LET g == [f EXCEPT ![h] = n] IN
           /\ Cardinality(HoldersIn(g, n)) = Cardinality(HoldersIn(f, n)) + 1
           /\ \A m \in Nat : m # 0 /\ m # n => HoldersIn(g, m) = HoldersIn(f, m)
<1> DEFINE g == [f EXCEPT ![h] = n]
<1>1. HoldersIn(g, n) = HoldersIn(f, n) \cup {h} /\ h \notin HoldersIn(f, n)
  BY DEF HoldersIn
<1>2. Cardinality(HoldersIn(g, n)) = Cardinality(HoldersIn(f, n)) + 1
  <2> DEFINE H == HoldersIn(f, n)
  <2>1. IsFiniteSet(H) /\ h \notin H /\ HoldersIn(g, n) = H \cup {h}
    BY <1>1, HoldersInFinite
  <2> HIDE DEF H, g
  <2>2. Cardinality(H \cup {h}) = Cardinality(H) + 1
    BY <2>1, FS_AddElement
  <2> QED
    BY <2>1, <2>2 DEF H
<1>3. \A m \in Nat : m # 0 /\ m # n => HoldersIn(g, m) = HoldersIn(f, m)
  BY DEF HoldersIn
<1> QED
  BY <1>2, <1>3

LEMMA HolderRemoved ==
    ASSUME NEW f \in [Holders -> Nat], NEW h \in Holders, f[h] # 0
    PROVE  LET g == [f EXCEPT ![h] = 0] IN
           /\ Cardinality(HoldersIn(g, f[h])) = Cardinality(HoldersIn(f, f[h])) - 1
           /\ \A m \in Nat : m # 0 /\ m # f[h] => HoldersIn(g, m) = HoldersIn(f, m)
<1> DEFINE g == [f EXCEPT ![h] = 0]
<1>1. HoldersIn(g, f[h]) = HoldersIn(f, f[h]) \ {h} /\ h \in HoldersIn(f, f[h])
  BY DEF HoldersIn
<1>2. IsFiniteSet(HoldersIn(f, f[h]))
  BY HoldersInFinite
<1>3. Cardinality(HoldersIn(f, f[h]) \ {h}) = Cardinality(HoldersIn(f, f[h])) - 1
  BY <1>1, <1>2, FS_RemoveElement
<1>4. \A m \in Nat : m # 0 /\ m # f[h] => HoldersIn(g, m) = HoldersIn(f, m)
  BY DEF HoldersIn
<1> QED
  BY <1>1, <1>3, <1>4

(* What the numbers say of the locks: the states that can be locked have    *)
(* different numbers, none of them 0, and the next commit's is unused.      *)
LEMMA NumbersApart ==
    ASSUME IInv
    PROVE  /\ pending.seq > 0
           /\ \A i \in 1..Len(cached) : cached[i].seq > 0 /\ cached[i].seq < pending.seq
           /\ \A i, j \in 1..Len(cached) : i # j => cached[i].seq # cached[j].seq
           /\ HoldersIn(held, pending.seq + 1) = {}
<1>n. /\ pending.seq \in Nat /\ Len(cached) \in Nat /\ Len(log) \in Nat
      /\ \A i \in 1..Len(cached) : cached[i].seq \in Nat
  BY NumbersTyped
<1>t. TypeOK /\ Numbered /\ Counted(pending, cached, held)
  BY LocksUnfolded DEF IInv
<1>1. pending.seq > 0
  BY <1>n, <1>t DEF Numbered
<1>2. ASSUME NEW i \in 1..Len(cached)
      PROVE  cached[i].seq > 0 /\ cached[i].seq < pending.seq
  <2>1. cached[i].seq = Len(log) - Len(cached) + i /\ Len(cached) <= Len(log)
    BY <1>t DEF Numbered
  <2>2. pending.seq = Len(log) + 1
    BY <1>t DEF Numbered
  <2> QED
    BY <1>n, <2>1, <2>2
<1>3. ASSUME NEW i \in 1..Len(cached), NEW j \in 1..Len(cached), i # j
      PROVE  cached[i].seq # cached[j].seq
  <2>1. cached[i].seq = Len(log) - Len(cached) + i /\ cached[j].seq = Len(log) - Len(cached) + j
    BY <1>t DEF Numbered
  <2> QED
    BY <1>n, <1>3, <2>1
<1>4. ASSUME NEW h \in Holders, held[h] = pending.seq + 1
      PROVE  FALSE
  <2>1. held[h] # 0 /\ held[h] # pending.seq
    BY <1>n, <1>4
  <2>2. PICK i \in 1..Len(cached) : cached[i].seq = held[h]
    BY <1>t, <2>1 DEF Counted
  <2> QED
    BY <1>n, <1>2, <1>4, <2>2
<1>5. HoldersIn(held, pending.seq + 1) = {}
  BY <1>4 DEF HoldersIn
<1> QED
  BY <1>1, <1>2, <1>3, <1>5

LEMMA LocksStep ==
    ASSUME IInv, [Next]_vars
    PROVE  LocksCounted' /\ HeadHolds'
<1> DEFINE Held == Counted(pending', cached', held') /\ HeadIs(emitting', cached', current'.seq, held')
<1>t. TypeOK /\ Numbered
  BY DEF IInv
<1>c. Counted(pending, cached, held) /\ HeadIs(emitting, cached, current.seq, held)
  BY LocksUnfolded, HeadUnfolded DEF IInv
<1>n. /\ pending \in States /\ current \in States
      /\ pending.seq \in Nat /\ current.seq \in Nat
      /\ Len(cached) \in Nat /\ Len(log) \in Nat
      /\ \A i \in 1..Len(cached) : cached[i] \in States /\ cached[i].seq \in Nat
  BY NumbersTyped
<1>h. held \in [Holders -> Nat]
  BY <1>t DEF TypeOK
<1> SUFFICES Held
  BY TypeStep, LocksUnfolded, HeadUnfolded
<1>0. ASSUME pending'.seq = pending.seq, pending'.locks = pending.locks,
             current'.seq = current.seq, UNCHANGED <<cached, held, emitting>>
      PROVE  Held
  BY <1>c, <1>0 DEF Counted, HeadIs
<1>1. CASE Requests
  <2>1. pending'.seq = pending.seq /\ pending'.locks = pending.locks
    BY <1>n, <1>t, <1>1, AttachEffect, SetScaleEffect, DamageEffect, FrameEffect, HandleCommitEffect
       DEF Requests, BufferResourceDestroyed, queueVars, TypeOK
  <2>2. UNCHANGED <<current, cached, held, emitting>>
    BY <1>1 DEF Requests, Attach, BufferResourceDestroyed, SetScale, Damage, Frame, HandleCommit,
                queueVars
  <2> QED
    BY <1>0, <2>1, <2>2
<1>2. CASE Rejects
  BY <1>0, <1>2 DEF Rejects
<1>3. ASSUME Accepts
      PROVE  /\ pending'.locks = Cardinality(HoldersIn(held', pending'.seq))
             /\ held' = held /\ pending'.seq = pending.seq + 1
  <2>1. pending'.seq = pending.seq + 1 /\ pending'.locks = 0 /\ held' = held
    BY <1>3, AcceptsEffect DEF Accepts
  <2>2. HoldersIn(held, pending.seq + 1) = {}
    BY NumbersApart
  <2> QED
    BY <2>1, <2>2, HoldersInFinite
<1>4. CASE Waits
  <2> DEFINE m == Moved(NewState(0), pending)
  <2>1. m.seq = pending.seq /\ m.locks = pending.locks
    BY DEF Moved
  <2>2. /\ Len(cached') = Len(cached) + 1
        /\ \A i \in 1..Len(cached) : cached'[i] = cached[i]
        /\ cached'[Len(cached) + 1] = m
        /\ \A i \in 1..Len(cached') : i \in 1..Len(cached) \/ i = Len(cached) + 1
    BY <1>4, WaitsEffect
  <2>3. /\ pending'.locks = Cardinality(HoldersIn(held', pending'.seq)) /\ held' = held
        /\ emitting = "none" /\ emitting' = "none" /\ MustWait
    BY <1>3, <1>4 DEF Waits, Accepts
  <2> HIDE DEF m
  <2>4. \A i \in 1..Len(cached') : cached'[i].locks = Cardinality(HoldersIn(held', cached'[i].seq))
    BY <1>c, <2>1, <2>2, <2>3 DEF Counted
  <2>5. ASSUME NEW h \in Holders, held'[h] # 0
        PROVE  \E i \in 1..Len(cached') : cached'[i].seq = held'[h]
    <3>1. Len(cached) + 1 \in 1..Len(cached')
      BY <1>n, <2>2
    <3>2. \A i \in 1..Len(cached) : i \in 1..Len(cached')
      BY <1>n, <2>2
    <3>3. held[h] = pending.seq \/ \E i \in 1..Len(cached) : cached[i].seq = held[h]
      BY <1>c, <2>3, <2>5 DEF Counted
    <3>4. CASE held[h] = pending.seq
      BY <2>1, <2>2, <2>3, <3>1, <3>4
    <3>5. CASE \E i \in 1..Len(cached) : cached[i].seq = held[h]
      BY <2>2, <2>3, <3>2, <3>5
    <3> QED
      BY <3>3, <3>4, <3>5
  <2>6. cached'[1].locks > 0
    <3>1. CASE cached = <<>>
      <4>1. Len(cached) = 0 /\ pending.locks > 0
        BY <1>t, <1>n, <2>3, <3>1, SeqsTyped DEF MustWait
      <4> QED
        BY <2>1, <2>2, <4>1
    <3>2. CASE cached # <<>>
      <4>1. 1 \in 1..Len(cached)
        BY <1>t, <1>n, <3>2, SeqsTyped
      <4> QED
        BY <1>c, <2>2, <2>3, <3>2, <4>1 DEF HeadIs
    <3> QED
      BY <3>1, <3>2
  <2> QED
    BY <2>3, <2>4, <2>5, <2>6 DEF Counted, HeadIs
<1>5. CASE Applies
  <2>1. /\ pending'.locks = Cardinality(HoldersIn(held', pending'.seq)) /\ held' = held
        /\ cached' = cached /\ cached = <<>> /\ ~(pending.locks > 0) /\ emitting' = "pending"
    BY <1>3, <1>5 DEF Applies, MustWait, CommitState
  <2>2. Len(cached) = 0 /\ pending.locks = 0
    BY <1>t, <1>n, <2>1, SeqsTyped, StateTyped
  <2>3. HoldersIn(held, pending.seq) = {}
    BY <1>c, <2>2, HoldersInFinite DEF Counted
  <2>4. \A h \in Holders : held[h] = 0
    BY <1>c, <1>n, <2>2, <2>3 DEF Counted, HoldersIn
  <2> QED
    BY <2>1, <2>2, <2>4 DEF Counted, HeadIs
<1>6. CASE Returns
  <2>1. /\ UNCHANGED <<pending, cached, held>> /\ emitting = "pending" /\ emitting' = "none"
    BY <1>6 DEF Returns
  <2> QED
    BY <1>c, <2>1 DEF Counted, HeadIs
<1>7. ASSUME emitting \notin {"none", "pending"}, cached' = Tail(cached), UNCHANGED <<pending, held>>
      PROVE  Counted(pending', cached', held')
  <2>1. /\ cached # <<>> /\ cached[1].seq = current.seq /\ 1 \in 1..Len(cached)
        /\ HoldersIn(held, current.seq) = {}
    BY <1>7, Applying DEF HeldOn, HoldersIn
  <2>2. /\ Len(cached') = Len(cached) - 1
        /\ \A i \in 1..Len(cached') : i + 1 \in 1..Len(cached) /\ cached'[i] = cached[i + 1]
    BY <1>t, <1>7, <2>1, TailOfQueue
  <2>3. \A i \in 1..Len(cached') : cached'[i].locks = Cardinality(HoldersIn(held, cached'[i].seq))
    BY <1>c, <2>2 DEF Counted
  <2>4. ASSUME NEW h \in Holders, held[h] # 0, held[h] # pending.seq
        PROVE  \E i \in 1..Len(cached') : cached'[i].seq = held[h]
    <3>1. PICK k \in 1..Len(cached) : cached[k].seq = held[h]
      BY <1>c, <2>4 DEF Counted
    <3>2. k # 1
      BY <2>1, <3>1 DEF HoldersIn
    <3>3. k - 1 \in 1..Len(cached') /\ (k - 1) + 1 = k
      BY <1>n, <2>2, <3>2
    <3>4. cached'[k - 1] = cached[k]
      BY <2>2, <3>3
    <3> QED
      BY <3>1, <3>3, <3>4
  <2>5. pending' = pending /\ held' = held
    BY <1>7
  <2> QED
    BY <1>c, <2>3, <2>4, <2>5 DEF Counted
<1>8. CASE GoesOn
  <2>1. Counted(pending', cached', held')
    BY <1>7, <1>8 DEF GoesOn
  <2>2. /\ cached' # <<>> /\ Head(Tail(cached)) = cached[2] /\ 2 \in 1..Len(cached)
        /\ cached[2].locks = 0
    BY <1>t, <1>8, Applying, TailOfQueue DEF GoesOn
  <2>3. current'.seq = cached[2].seq /\ emitting' = "cached"
    BY <1>n, <1>8, <2>2, UnlockedTyped, CommitStateSeq DEF GoesOn
  <2>4. cached'[1] = cached[2]
    <3>1. Len(cached') = Len(cached) - 1 /\ \A i \in 1..Len(cached') : cached'[i] = cached[i + 1]
      BY <1>t, <1>8, Applying, TailOfQueue DEF GoesOn
    <3>2. 1 \in 1..Len(cached') /\ 1 + 1 = 2
      BY <1>n, <2>2, <3>1
    <3> QED
      BY <3>1, <3>2
  <2>5. HoldersIn(held, cached[2].seq) = {} /\ held' = held
    BY <1>c, <1>8, <2>2, HoldersInFinite DEF Counted, GoesOn
  <2> QED
    BY <2>1, <2>2, <2>3, <2>4, <2>5 DEF HeadIs
<1>9. CASE Ends
  <2>1. Counted(pending', cached', held') /\ emitting' = "none"
    BY <1>7, <1>9 DEF Ends
  <2>2. ASSUME cached' # <<>>
        PROVE  cached'[1].locks > 0
    <3>1. Head(Tail(cached)) = cached[2] /\ 2 \in 1..Len(cached) /\ cached[2].locks # 0
      BY <1>t, <1>9, <2>2, Applying, TailOfQueue DEF Ends
    <3>2. Len(cached') = Len(cached) - 1 /\ \A i \in 1..Len(cached') : cached'[i] = cached[i + 1]
      BY <1>t, <1>9, Applying, TailOfQueue DEF Ends
    <3>3. 1 \in 1..Len(cached') /\ 1 + 1 = 2
      BY <1>n, <3>1, <3>2
    <3>4. cached'[1] = cached[2]
      BY <3>2, <3>3
    <3> QED
      BY <1>n, <3>1, <3>4, StateTyped
  <2> QED
    BY <2>1, <2>2 DEF HeadIs
<1>10. ASSUME NEW h \in Holders, LockPending(h)
       PROVE  Held
  <2>1. /\ held[h] = 0 /\ held' = [held EXCEPT ![h] = pending.seq]
        /\ UNCHANGED <<cached, current, emitting>>
    BY <1>10 DEF LockPending
  <2>2. pending'.seq = pending.seq /\ pending'.locks = pending.locks + 1
    BY <1>n, <1>10, LockPendingEffect
  <2>3. pending.seq # 0
    BY <1>n, NumbersApart
  <2>4. /\ Cardinality(HoldersIn(held', pending.seq)) = Cardinality(HoldersIn(held, pending.seq)) + 1
        /\ \A m \in Nat : m # 0 /\ m # pending.seq => HoldersIn(held', m) = HoldersIn(held, m)
    BY <1>h, <1>n, <2>1, <2>3, HolderAdded
  <2>5. \A i \in 1..Len(cached) : cached[i].seq # 0 /\ cached[i].seq # pending.seq
    BY <1>n, NumbersApart
  <2>6. /\ pending'.locks = Cardinality(HoldersIn(held', pending'.seq))
        /\ \A i \in 1..Len(cached) : cached[i].locks = Cardinality(HoldersIn(held', cached[i].seq))
    BY <1>c, <1>n, <2>2, <2>4, <2>5 DEF Counted
  <2>7. \A g \in Holders : held'[g] = held[g] \/ held'[g] = pending.seq
    BY <1>h, <2>1
  <2>8. Counted(pending', cached', held')
    BY <1>c, <2>1, <2>2, <2>6, <2>7 DEF Counted
  <2>9. HeadIs(emitting', cached', current'.seq, held')
    <3>1. CASE emitting = "cached"
      <4>1. cached # <<>> /\ cached[1].seq = current.seq /\ HoldersIn(held, current.seq) = {}
        BY <1>c, <3>1 DEF HeadIs
      <4>2. current.seq # 0 /\ current.seq # pending.seq
        BY <1>t, <1>n, <2>5, <4>1, SeqsTyped
      <4> QED
        BY <1>n, <2>1, <2>4, <3>1, <4>1, <4>2 DEF HeadIs
    <3>2. CASE emitting # "cached"
      BY <1>c, <2>1, <3>2 DEF HeadIs
    <3> QED
      BY <3>1, <3>2
  <2> QED
    BY <2>8, <2>9

<1>11. ASSUME NEW h \in Holders, Unlocks(h)
       PROVE  /\ held[h] # 0 /\ held[h] \in Nat /\ held' = [held EXCEPT ![h] = 0]
              /\ Cardinality(HoldersIn(held', held[h])) = Cardinality(HoldersIn(held, held[h])) - 1
              /\ \A m \in Nat : m # 0 /\ m # held[h] => HoldersIn(held', m) = HoldersIn(held, m)
              /\ \A g \in Holders : held'[g] = held[g] \/ held'[g] = 0
  BY <1>h, <1>11, HolderRemoved DEF Unlocks
<1>12. ASSUME NEW h \in Holders, UnlocksPending(h)
       PROVE  Held
  <2>1. Unlocks(h) /\ held[h] = pending.seq /\ UNCHANGED <<cached, current, emitting>>
    BY <1>12 DEF UnlocksPending
  <2>2. pending'.seq = pending.seq /\ pending'.locks = pending.locks - 1
    BY <1>n, <1>12, UnlockPendingEffect DEF IInv
  <2>3. \A i \in 1..Len(cached) : cached[i].seq # 0 /\ cached[i].seq # pending.seq
    BY <1>n, NumbersApart
  <2>4. /\ Cardinality(HoldersIn(held', pending.seq)) = Cardinality(HoldersIn(held, pending.seq)) - 1
        /\ \A m \in Nat : m # 0 /\ m # pending.seq => HoldersIn(held', m) = HoldersIn(held, m)
        /\ \A g \in Holders : held'[g] = held[g] \/ held'[g] = 0
    BY <1>11, <2>1
  <2>5. /\ pending'.locks = Cardinality(HoldersIn(held', pending'.seq))
        /\ \A i \in 1..Len(cached) : cached[i].locks = Cardinality(HoldersIn(held', cached[i].seq))
    BY <1>c, <1>n, <2>2, <2>3, <2>4 DEF Counted
  <2>6. Counted(pending', cached', held')
    BY <1>c, <2>1, <2>2, <2>4, <2>5 DEF Counted
  <2>7. HeadIs(emitting', cached', current'.seq, held')
    <3>1. CASE emitting = "cached"
      <4>1. cached # <<>> /\ cached[1].seq = current.seq /\ HoldersIn(held, current.seq) = {}
        BY <1>c, <3>1 DEF HeadIs
      <4>2. current.seq # 0 /\ current.seq # pending.seq
        BY <1>t, <1>n, <2>3, <4>1, SeqsTyped
      <4> QED
        BY <1>n, <2>1, <2>4, <3>1, <4>1, <4>2 DEF HeadIs
    <3>2. CASE emitting # "cached"
      BY <1>c, <2>1, <3>2 DEF HeadIs
    <3> QED
      BY <3>1, <3>2
  <2> QED
    BY <2>6, <2>7
<1>13. ASSUME NEW h \in Holders, NEW i \in 1..Len(cached), UnlocksState(h, i)
       PROVE  /\ Counted(pending', cached', held')
              /\ cached[i].locks \in Nat /\ cached[i].locks > 0
              /\ cached'[i].locks = cached[i].locks - 1 /\ cached'[i].seq = cached[i].seq
              /\ \A k \in 1..Len(cached) : k # i => cached'[k] = cached[k]
              /\ Len(cached') = Len(cached) /\ cached' \in Seq(States)
              /\ held[h] = cached[i].seq
              /\ \A m \in Nat : m # 0 /\ m # cached[i].seq => HoldersIn(held', m) = HoldersIn(held, m)
  <2>1. Unlocks(h) /\ held[h] = cached[i].seq /\ pending' = pending
    BY <1>13 DEF UnlocksState
  <2>2. /\ cached' \in Seq(States) /\ Len(cached') = Len(cached)
        /\ cached[i].locks \in Nat /\ cached[i].locks > 0
        /\ cached'[i].locks = cached[i].locks - 1 /\ cached'[i].seq = cached[i].seq
        /\ \A k \in 1..Len(cached) : k # i => cached'[k] = cached[k]
    BY <1>t, <1>13, UnlockStateEffect DEF IInv
  <2>3. /\ Cardinality(HoldersIn(held', cached[i].seq)) = Cardinality(HoldersIn(held, cached[i].seq)) - 1
        /\ \A m \in Nat : m # 0 /\ m # cached[i].seq => HoldersIn(held', m) = HoldersIn(held, m)
        /\ \A g \in Holders : held'[g] = held[g] \/ held'[g] = 0
    BY <1>11, <2>1
  <2>4. pending.seq # 0 /\ pending.seq # cached[i].seq
    BY <1>n, NumbersApart
  <2>5. pending'.locks = Cardinality(HoldersIn(held', pending'.seq))
    BY <1>c, <1>n, <2>1, <2>3, <2>4 DEF Counted
  <2>6. ASSUME NEW k \in 1..Len(cached)
        PROVE  cached'[k].locks = Cardinality(HoldersIn(held', cached'[k].seq))
    <3>1. CASE k = i
      BY <1>c, <2>2, <2>3, <3>1 DEF Counted
    <3>2. CASE k # i
      <4>1. cached[k].seq # 0 /\ cached[k].seq # cached[i].seq
        BY <1>n, <3>2, NumbersApart
      <4>2. HoldersIn(held', cached[k].seq) = HoldersIn(held, cached[k].seq)
        BY <1>n, <2>3, <4>1
      <4> QED
        BY <1>c, <2>2, <3>2, <4>2 DEF Counted
    <3> QED
      BY <3>1, <3>2
  <2>7. \A k \in 1..Len(cached) : cached'[k].seq = cached[k].seq
    BY <2>2
  <2>8. Counted(pending', cached', held')
    BY <1>c, <2>1, <2>2, <2>3, <2>5, <2>6, <2>7 DEF Counted
  <2> QED
    BY <2>1, <2>2, <2>3, <2>8
<1>14. ASSUME NEW h \in Holders, NEW i \in 1..Len(cached), UnlocksOne(h, i)
       PROVE  Held
  <2>1. /\ Counted(pending', cached', held')
        /\ cached[i].locks \in Nat /\ cached[i].locks > 0
        /\ cached'[i].locks = cached[i].locks - 1 /\ cached'[i].seq = cached[i].seq
        /\ \A k \in 1..Len(cached) : k # i => cached'[k] = cached[k]
        /\ Len(cached') = Len(cached) /\ cached' \in Seq(States)
        /\ held[h] = cached[i].seq
        /\ \A m \in Nat : m # 0 /\ m # cached[i].seq => HoldersIn(held', m) = HoldersIn(held, m)
    BY <1>13, <1>14 DEF UnlocksOne
  <2>2. UNCHANGED <<current, emitting>> /\ ~(cached[i].locks = 1 /\ i = 1)
    BY <1>14 DEF UnlocksOne
  <2>3. 1 \in 1..Len(cached) /\ cached # <<>> /\ cached' # <<>>
    BY <1>t, <1>n, <2>1, SeqsTyped, EmptySeq
  <2>4. CASE emitting = "none"
    <3>1. cached[1].locks > 0
      BY <1>c, <2>3, <2>4 DEF HeadIs
    <3>2. cached'[1].locks > 0
      BY <2>1, <2>2, <2>3, <3>1
    <3> QED
      BY <2>1, <2>2, <2>4, <3>2 DEF HeadIs
  <2>5. CASE emitting = "cached"
    <3>1. cached[1].seq = current.seq /\ HoldersIn(held, current.seq) = {}
      BY <1>c, <2>5 DEF HeadIs
    <3>2. i # 1
      BY <2>1, <3>1 DEF HoldersIn
    <3>3. current.seq # 0 /\ current.seq # cached[i].seq
      BY <1>n, <2>3, <3>1, <3>2, NumbersApart
    <3>4. HoldersIn(held', current.seq) = {}
      BY <1>n, <2>1, <3>1, <3>3
    <3>5. cached'[1] = cached[1]
      BY <2>1, <2>3, <3>2
    <3> QED
      BY <2>1, <2>2, <2>3, <2>5, <3>1, <3>4, <3>5 DEF HeadIs
  <2>6. emitting # "pending"
    BY <1>c, <2>3 DEF HeadIs
  <2> QED
    BY <1>t, <2>4, <2>5, <2>6 DEF TypeOK
<1>15. ASSUME NEW h \in Holders, 1 \in 1..Len(cached), UnlocksFirst(h)
       PROVE  Held
  <2>1. /\ Counted(pending', cached', held')
        /\ cached'[1].locks = cached[1].locks - 1 /\ cached'[1].seq = cached[1].seq
        /\ Len(cached') = Len(cached) /\ cached' \in Seq(States)
    BY <1>13, <1>15 DEF UnlocksFirst
  <2>2. cached[1].locks = 1
    BY <1>15 DEF UnlocksFirst
  <2>3. current'.seq = cached[1].seq /\ emitting' = "cached"
    BY <1>n, <1>15, FirstTyped, CommitStateSeq DEF UnlocksFirst
  <2>4. cached'[1].locks = 0
    BY <2>1, <2>2
  <2>5. HoldersIn(held', cached[1].seq) = {}
    BY <1>15, <2>1, <2>4, HoldersInFinite DEF Counted
  <2>6. cached' # <<>>
    BY <1>n, <1>15, <2>1, EmptySeq
  <2> QED
    BY <2>1, <2>3, <2>5, <2>6 DEF HeadIs
<1>16. CASE Map \/ Unmap \/ RejectPending
  BY <1>0, <1>16 DEF Map, Unmap, RejectPending, queueVars
<1>17. CASE SendFrameDone
  <2>1. current'.seq = current.seq
    BY <1>n, <1>17 DEF SendFrameDone, States
  <2> QED
    BY <1>0, <1>17, <2>1 DEF SendFrameDone
<1>18. CASE UNCHANGED vars
  BY <1>0, <1>18 DEF vars
<1>19. CASE FinishClientCommit
  BY <1>2, <1>4, <1>5, <1>19, FinishClientCommitCases
<1>20. CASE FinishCommit
  BY <1>6, <1>8, <1>9, <1>20, FinishCommitCases
<1>21. ASSUME NEW h \in Holders, UnlockCached(h)
       PROVE  Held
  BY <1>12, <1>14, <1>15, <1>21, UnlockCachedCases
<1> QED
  BY <1>1, <1>10, <1>16, <1>17, <1>18, <1>19, <1>20, <1>21 DEF Next

(***************************************************************************)
(* What the client describes.  Described for an explicit log, so that it   *)
(* can be compared before and after a commit.                              *)
(***************************************************************************)
In(l, n) == IF n = 0 THEN InitialWant ELSE l[n]

LEMMA DescribedUnfolded ==
    ASSUME NEW n
    PROVE  Described(n) = In(log, n)
BY DEF Described, In

Asks(p, hd, r, rej, before, w) ==
    /\ ~rej => /\ SetsFields(p, before, w)
               /\ IF "buffer" \in p.committed /\ ~hd THEN w.buffer = r ELSE SetsBuffer(p, before, w)
    /\ "buffer" \notin p.committed \/ hd => r = NoBuffer
    /\ "damage" \notin p.committed => p.damage = {}
    /\ "frame" \notin p.committed => p.frames = {}

LEMMA PendsUnfolded ==
    /\ Pends <=> Asks(pending, handling, resource, rejected, In(log, Len(log)), want)
    /\ Pends' <=> Asks(pending', handling', resource', rejected', In(log', Len(log')), want')
BY DEF Pends, Asks, Described, In

(* A state that sets nothing keeps what persists. *)
LEMMA NothingSet ==
    ASSUME NEW st, NEW b, NEW d, st.committed = {}, st.hasbuf = (b.buffer # NoBuffer),
           d.buffer = b.buffer, d.scale = b.scale, d.damage = {},
           d.frame = FALSE, d.frame \in BOOLEAN
    PROVE  SetsFields(st, b, d) /\ SetsBuffer(st, b, d)
<1>1. \A f : f \notin st.committed
  OBVIOUS
<1>2. "frame" \notin st.committed
  BY <1>1
<1>3. d.frame = ("frame" \in st.committed)
  BY <1>2
<1>4. SetsFields(st, b, d)
  BY <1>1, <1>3, Zenon DEF SetsFields
<1>5. st.hasbuf = (d.buffer # NoBuffer)
  BY Zenon
<1>6. SetsBuffer(st, b, d)
  BY <1>1, <1>5, Zenon DEF SetsBuffer
<1> QED
  BY <1>4, <1>6

LEMMA PendsStep ==
    ASSUME IInv, [Next]_vars
    PROVE  Pends'
<1> DEFINE before == In(log, Len(log))
           Asked == Asks(pending', handling', resource', rejected', In(log', Len(log')), want')
<1>t. TypeOK /\ LocksCounted
  BY DEF IInv
<1>p. pending \in States /\ resource \in AnyBuffer /\ want \in Descriptions
  BY <1>t DEF TypeOK
<1>a. Asks(pending, handling, resource, rejected, before, want)
  BY PendsUnfolded DEF IInv
<1> SUFFICES Asked
  BY PendsUnfolded
<1>0. ASSUME UNCHANGED <<handling, resource, log, want>>, rejected => rejected',
             UNCHANGED <<pending.seq, pending.committed, pending.buffer, pending.hasbuf,
                         pending.scale, pending.damage, pending.frames>>
      PROVE  Asked
  BY <1>0, <1>a DEF Asks, SetsFields, SetsBuffer
<1>1. ASSUME NEW b \in AnyBuffer, Attach(b)
      PROVE  Asked
  <2>1. /\ ~handling /\ ~rejected /\ handling' = handling /\ rejected' = rejected
        /\ resource' = b /\ log' = log /\ want' = [want EXCEPT !.buffer = b]
    BY <1>1 DEF Attach, Sets, Dispatching, Idle
  <2>2. want'.buffer = b /\ UNCHANGED <<want.scale, want.damage, want.frame>>
    BY <1>p, <2>1 DEF Descriptions
  <2>3. /\ pending'.committed = pending.committed \cup {"buffer"}
        /\ UNCHANGED <<pending.seq, pending.scale, pending.damage, pending.frames>>
    BY <1>p, <1>1, AttachEffect
  <2> QED
    BY <1>a, <2>1, <2>2, <2>3 DEF Asks, SetsFields
<1>2. CASE BufferResourceDestroyed
  <2>1. /\ resource # NoBuffer /\ resource' = NoBuffer /\ ~handling /\ ~rejected
        /\ UNCHANGED <<pending, handling, rejected, log>> /\ want' = [want EXCEPT !.buffer = NoBuffer]
    BY <1>2 DEF BufferResourceDestroyed, Dispatching, Idle, queueVars
  <2>2. want'.buffer = NoBuffer /\ UNCHANGED <<want.scale, want.damage, want.frame>>
    BY <1>p, <2>1 DEF Descriptions
  <2> QED
    BY <1>a, <2>1, <2>2 DEF Asks, SetsFields
<1>3. ASSUME NEW s \in Scales, SetScale(s)
      PROVE  Asked
  <2>1. /\ ~handling /\ ~rejected /\ UNCHANGED <<handling, rejected, resource, log>>
        /\ want' = [want EXCEPT !.scale = s]
    BY <1>3 DEF SetScale, Sets, Dispatching, Idle
  <2>2. want'.scale = s /\ UNCHANGED <<want.buffer, want.damage, want.frame>>
    BY <1>p, <2>1 DEF Descriptions
  <2>3. /\ pending'.committed = pending.committed \cup {"scale"} /\ pending'.scale = s
        /\ UNCHANGED <<pending.seq, pending.buffer, pending.hasbuf, pending.damage, pending.frames>>
    BY <1>p, <1>3, SetScaleEffect
  <2> QED
    BY <1>a, <2>1, <2>2, <2>3 DEF Asks, SetsFields, SetsBuffer
<1>4. ASSUME NEW r \in Rects, Damage(r)
      PROVE  Asked
  <2>1. /\ ~handling /\ ~rejected /\ UNCHANGED <<handling, rejected, resource, log>>
        /\ want' = [want EXCEPT !.damage = @ \cup {r}]
    BY <1>4 DEF Damage, Sets, Dispatching, Idle
  <2>2. want'.damage = want.damage \cup {r} /\ UNCHANGED <<want.buffer, want.scale, want.frame>>
    BY <1>p, <2>1 DEF Descriptions
  <2>3. /\ pending'.committed = pending.committed \cup {"damage"}
        /\ pending'.damage = pending.damage \cup {r}
        /\ UNCHANGED <<pending.seq, pending.buffer, pending.hasbuf, pending.scale, pending.frames>>
    BY <1>p, <1>4, DamageEffect
  <2>4. want.damage = pending.damage
    BY <1>a, <2>1 DEF Asks, SetsFields
  <2> QED
    BY <1>a, <2>1, <2>2, <2>3, <2>4 DEF Asks, SetsFields, SetsBuffer
<1>5. CASE Frame
  <2>1. /\ ~handling /\ ~rejected /\ UNCHANGED <<handling, rejected, resource, log>>
        /\ want' = [want EXCEPT !.frame = TRUE]
    BY <1>5 DEF Frame, Sets, Dispatching, Idle
  <2>2. want'.frame = TRUE /\ UNCHANGED <<want.buffer, want.scale, want.damage>>
    BY <1>p, <2>1 DEF Descriptions
  <2>3. /\ pending'.committed = pending.committed \cup {"frame"}
        /\ pending'.frames = pending.frames \cup {pending.seq}
        /\ UNCHANGED <<pending.seq, pending.buffer, pending.hasbuf, pending.scale, pending.damage>>
    BY <1>p, <1>5, FrameEffect
  <2>4. pending'.frames = {pending.seq}
    BY <1>a, <2>1, <2>3 DEF Asks, SetsFields
  <2> QED
    BY <1>a, <2>1, <2>2, <2>3, <2>4 DEF Asks, SetsFields, SetsBuffer
<1>6. ASSUME NEW ok \in BOOLEAN, HandleCommit(ok)
      PROVE  Asked
  <2>1. ~handling /\ ~rejected /\ handling' = TRUE /\ UNCHANGED <<log, want>>
    BY <1>6 DEF HandleCommit, Dispatching, Idle
  <2>2. /\ UNCHANGED <<pending.seq, pending.locks, pending.committed,
                       pending.scale, pending.damage, pending.frames>>
        /\ IF "buffer" \in pending.committed
           THEN /\ pending'.buffer = resource /\ pending'.hasbuf = (resource # NoBuffer)
                /\ resource' = NoBuffer
           ELSE UNCHANGED <<pending, resource>>
    BY <1>p, <1>6, HandleCommitEffect
  <2> QED
    BY <1>a, <2>1, <2>2 DEF Asks, SetsFields, SetsBuffer
<1>7. CASE Rejects
  BY <1>a, <1>7 DEF Rejects, Asks
<1>8. CASE Accepts
  <2>1. /\ handling /\ ~rejected /\ handling' = FALSE /\ UNCHANGED <<resource, rejected>>
        /\ want' = Committed(want)
    BY <1>8 DEF Accepts
  <2>2. want'.buffer = want.buffer /\ want'.scale = want.scale /\ want'.damage = {}
        /\ want'.frame = FALSE /\ want'.frame \in BOOLEAN
    BY <2>1 DEF Committed
  <2>3. /\ pending'.committed = {} /\ pending'.hasbuf = pending.hasbuf
        /\ pending'.damage = IF "damage" \in pending.committed THEN {} ELSE pending.damage
        /\ pending'.frames = IF "frame" \in pending.committed THEN {} ELSE pending.frames
    BY <1>p, <1>8, LeftTyped DEF Accepts
  <2>4. In(log', Len(log')) = want
    BY <1>8, <1>t, AcceptsEffect, SeqsTyped DEF In
  <2>5. pending'.hasbuf = (want.buffer # NoBuffer)
    BY <1>a, <2>1, <2>3 DEF Asks, SetsBuffer
  <2>6. resource' = NoBuffer /\ pending'.damage = {} /\ pending'.frames = {}
    BY <1>a, <2>1, <2>3 DEF Asks
  <2>7. SetsFields(pending', want, want') /\ SetsBuffer(pending', want, want')
    BY <2>2, <2>3, <2>5, NothingSet
  <2>8. Asks(pending', handling', resource', rejected', want, want')
    BY <2>3, <2>6, <2>7 DEF Asks
  <2> QED
    BY <2>4, <2>8
<1>9. CASE FinishCommit
  BY <1>0, <1>9 DEF FinishCommit
<1>10. ASSUME NEW h \in Holders, LockPending(h)
       PROVE  Asked
  BY <1>0, <1>p, <1>10, LockPendingEffect DEF LockPending
<1>11. ASSUME NEW h \in Holders, UnlockCached(h)
       PROVE  Asked
  <2>1. CASE UnlocksPending(h)
    BY <1>0, <1>t, <1>p, <2>1, UnlockPendingEffect DEF UnlocksPending, Unlocks
  <2>2. CASE \E i : UnlocksState(h, i)
    BY <1>0, <2>2 DEF UnlocksState, Unlocks
  <2> QED
    BY <1>11, <2>1, <2>2, UnlockCachedCases DEF UnlocksOne, UnlocksFirst
<1>12. CASE Map \/ Unmap \/ RejectPending
  BY <1>0, <1>12 DEF Map, Unmap, RejectPending, queueVars
<1>13. CASE SendFrameDone
  BY <1>0, <1>13 DEF SendFrameDone
<1>14. CASE UNCHANGED vars
  BY <1>0, <1>14 DEF vars
<1>15. CASE FinishClientCommit
  BY <1>7, <1>8, <1>15, FinishClientCommitCases DEF Waits, Applies
<1>16. CASE Requests
  BY <1>1, <1>2, <1>3, <1>4, <1>5, <1>6, <1>16 DEF Requests
<1> QED
  BY <1>9, <1>10, <1>11, <1>12, <1>13, <1>14, <1>15, <1>16 DEF Next

(***************************************************************************)
(* What waits: the deltas in the queue, one after the other, lead from     *)
(* each description to the next.                                           *)
(***************************************************************************)
LEMMA DeltaFields ==
    ASSUME NEW s, NEW t, NEW b, NEW d, IsDelta(s, b, d),
           t.seq = s.seq, t.committed = s.committed, t.buffer = s.buffer,
           t.hasbuf = s.hasbuf, t.scale = s.scale, t.damage = s.damage, t.frames = s.frames
    PROVE  IsDelta(t, b, d)
BY DEF IsDelta, SetsFields, SetsBuffer

WaitsIn(q, l) == \A i \in 1..Len(q) : IsDelta(q[i], In(l, q[i].seq - 1), l[q[i].seq])

LEMMA WaitingUnfolded ==
    /\ Waiting <=> WaitsIn(cached, log)
    /\ Waiting' <=> WaitsIn(cached', log')
BY DEF Waiting, WaitsIn, Described, In

(* The pending state, when a commit takes it, is the delta to `want`. *)
LEMMA PendingDelta ==
    ASSUME IInv, Accepts
    PROVE  IsDelta(pending, In(log, Len(log)), want)
BY PendsUnfolded DEF IInv, Accepts, Asks, IsDelta

LEMMA WaitingStep ==
    ASSUME IInv, [Next]_vars
    PROVE  Waiting'
<1>t. TypeOK /\ Numbered /\ LocksCounted
  BY DEF IInv
<1>w. WaitsIn(cached, log)
  BY WaitingUnfolded DEF IInv
<1>n. /\ pending \in States /\ pending.seq = Len(log) + 1
      /\ Len(cached) \in Nat /\ Len(log) \in Nat
      /\ \A i \in 1..Len(cached) : cached[i].seq \in Nat
  BY <1>t, NumbersTyped DEF Numbered
<1> SUFFICES WaitsIn(cached', log')
  BY WaitingUnfolded
<1>0. ASSUME UNCHANGED <<cached, log>>
      PROVE  WaitsIn(cached', log')
  BY <1>0, <1>w
<1>1. ASSUME Accepts
      PROVE  \A i \in 1..Len(cached) : IsDelta(cached[i], In(log', cached[i].seq - 1), log'[cached[i].seq])
  <2> SUFFICES ASSUME NEW i \in 1..Len(cached)
               PROVE  IsDelta(cached[i], In(log', cached[i].seq - 1), log'[cached[i].seq])
    OBVIOUS
  <2>1. cached[i].seq \in 1..Len(log) /\ (cached[i].seq - 1 = 0 \/ cached[i].seq - 1 \in 1..Len(log))
    BY <1>n, NumbersApart
  <2>2. \A k \in 1..Len(log) : log'[k] = log[k]
    BY <1>1, AcceptsEffect
  <2>3. In(log', cached[i].seq - 1) = In(log, cached[i].seq - 1) /\ log'[cached[i].seq] = log[cached[i].seq]
    BY <2>1, <2>2 DEF In
  <2> QED
    BY <1>w, <2>3 DEF WaitsIn
<1>2. CASE Waits
  <2> DEFINE m == Moved(NewState(0), pending)
  <2>1. Accepts
    BY <1>2 DEF Waits
  <2>2. /\ Len(cached') = Len(cached) + 1
        /\ \A i \in 1..Len(cached) : cached'[i] = cached[i]
        /\ cached'[Len(cached) + 1] = m
        /\ \A i \in 1..Len(cached') : i \in 1..Len(cached) \/ i = Len(cached) + 1
    BY <1>2, WaitsEffect
  <2>3. IsDelta(m, In(log', m.seq - 1), log'[m.seq])
    <3>1. IsDelta(pending, In(log, Len(log)), want)
      BY <2>1, PendingDelta
    <3>2. NewState(0) \in States /\ NewState(0).frames = {}
      BY NewStateTyped DEF NewState
    <3>3. /\ m.seq = pending.seq /\ m.committed = pending.committed /\ m.hasbuf = pending.hasbuf
          /\ m.buffer = IF "buffer" \in pending.committed THEN pending.buffer ELSE NewState(0).buffer
          /\ m.scale = IF "scale" \in pending.committed THEN pending.scale ELSE NewState(0).scale
          /\ m.damage = IF "damage" \in pending.committed THEN pending.damage ELSE {}
          /\ m.frames = IF "frame" \in pending.committed THEN pending.frames \cup NewState(0).frames
                                                       ELSE NewState(0).frames
      BY <1>n, <3>2, MovedTyped
    <3>4. IsDelta(m, In(log, Len(log)), want)
      BY <3>1, <3>2, <3>3 DEF IsDelta, SetsFields, SetsBuffer
    <3>5. /\ m.seq = Len(log) + 1 /\ m.seq - 1 = Len(log)
      BY <1>n, <3>3
    <3>6. log'[Len(log) + 1] = want /\ \A k \in 1..Len(log) : log'[k] = log[k]
      BY <2>1, AcceptsEffect
    <3>7. In(log', Len(log)) = In(log, Len(log))
      BY <1>n, <3>6 DEF In
    <3> QED
      BY <3>4, <3>5, <3>6, <3>7
  <2> HIDE DEF m
  <2> QED
    BY <1>1, <2>1, <2>2, <2>3 DEF WaitsIn
<1>3. CASE Applies
  BY <1>1, <1>3 DEF Applies, WaitsIn
<1>4. CASE GoesOn \/ Ends
  <2>1. cached' = Tail(cached) /\ log' = log /\ cached # <<>>
    BY <1>4, Applying DEF GoesOn, Ends
  <2>2. \A i \in 1..Len(cached') : i + 1 \in 1..Len(cached) /\ cached'[i] = cached[i + 1]
    BY <1>t, <2>1, TailOfQueue
  <2>3. log' = log
    BY <2>1
  <2> QED
    BY <1>w, <2>2, <2>3 DEF WaitsIn
<1>5. ASSUME NEW h \in Holders, NEW i \in 1..Len(cached), UnlocksState(h, i)
      PROVE  WaitsIn(cached', log')
  <2>1. /\ Len(cached') = Len(cached)
        /\ UNCHANGED <<cached[i].seq, cached[i].committed, cached[i].buffer, cached[i].hasbuf,
                       cached[i].scale, cached[i].damage, cached[i].frames>>
        /\ \A k \in 1..Len(cached) : k # i => cached'[k] = cached[k]
    BY <1>t, <1>5, UnlockStateEffect
  <2>2. log' = log
    BY <1>5 DEF UnlocksState, Unlocks
  <2>3. ASSUME NEW k \in 1..Len(cached)
        PROVE  IsDelta(cached'[k], In(log', cached'[k].seq - 1), log'[cached'[k].seq])
    <3>1. IsDelta(cached[k], In(log, cached[k].seq - 1), log[cached[k].seq])
      BY <1>w DEF WaitsIn
    <3>2. CASE k = i
      BY <2>1, <2>2, <3>1, <3>2, DeltaFields
    <3>3. CASE k # i
      BY <2>1, <2>2, <3>1, <3>3
    <3> QED
      BY <3>2, <3>3
  <2> QED
    BY <2>1, <2>3 DEF WaitsIn
<1>6. CASE FinishClientCommit
  BY <1>0, <1>2, <1>3, <1>6, FinishClientCommitCases DEF Rejects
<1>7. CASE FinishCommit
  BY <1>0, <1>4, <1>7, FinishCommitCases DEF Returns
<1>8. ASSUME NEW h \in Holders, LockPending(h) \/ UnlockCached(h)
      PROVE  WaitsIn(cached', log')
  <2>1. CASE LockPending(h) \/ UnlocksPending(h)
    BY <1>0, <2>1 DEF LockPending, UnlocksPending, Unlocks
  <2> QED
    BY <1>5, <1>8, <2>1, UnlockCachedCases DEF UnlocksOne, UnlocksFirst
<1>9. CASE Requests
  BY <1>0, <1>9 DEF Requests, Attach, BufferResourceDestroyed, SetScale, Damage, Frame,
                    HandleCommit, queueVars
<1>10. CASE Map \/ Unmap \/ RejectPending \/ SendFrameDone
  BY <1>0, <1>10 DEF Map, Unmap, RejectPending, SendFrameDone, queueVars
<1>11. CASE UNCHANGED vars
  BY <1>0, <1>11 DEF vars
<1> QED
  BY <1>6, <1>7, <1>8, <1>9, <1>10, <1>11 DEF Next

(***************************************************************************)
(* What is shown.                                                          *)
(***************************************************************************)
ShowsIn(c, tx, up, d) ==
    /\ c.scale = d.scale
    /\ c.damage = d.damage
    /\ tx = (IF up THEN d.buffer ELSE NoBuffer)
    /\ c.hasbuf = (d.buffer # NoBuffer)

KeepsIn(fr, dn, n, l) ==
    /\ fr \cap dn = {}
    /\ fr \cup dn = {k \in 1..n : l[k].frame}

LEMMA ShowsUnfolded ==
    /\ Shows <=> ShowsIn(current, texture, uploaded, In(log, current.seq))
    /\ Shows' <=> ShowsIn(current', texture', uploaded', In(log', current'.seq))
    /\ FramesKept <=> KeepsIn(current.frames, done, current.seq, log)
    /\ FramesKept' <=> KeepsIn(current'.frames, done', current'.seq, log')
BY DEF Shows, ShowsIn, Described, In, FramesKept, KeepsIn

(* One more commit is shown: its callbacks are new. *)
LEMMA KeepsNext ==
    ASSUME NEW fr, NEW dn, NEW n \in Nat, NEW l, NEW m, NEW fr2,
           KeepsIn(fr, dn, n, l),
           \A k \in 1..n : m[k] = l[k],
           fr2 = IF m[n + 1].frame THEN {n + 1} \cup fr ELSE fr
    PROVE  KeepsIn(fr2, dn, n + 1, m)
<1>1. \A k \in fr \cup dn : k \in 1..n
  BY DEF KeepsIn
<1>2. n + 1 \notin fr \cup dn
  BY <1>1
<1>3. fr2 \cap dn = {}
  BY <1>2 DEF KeepsIn
<1>4. ASSUME NEW k
      PROVE  k \in fr2 \cup dn <=> k \in {j \in 1..(n + 1) : m[j].frame}
  <2>1. k \in fr2 \cup dn <=> k \in fr \cup dn \/ (k = n + 1 /\ m[n + 1].frame)
    OBVIOUS
  <2>2. k \in fr \cup dn <=> k \in 1..n /\ l[k].frame
    BY DEF KeepsIn
  <2>3. k \in 1..(n + 1) <=> k \in 1..n \/ k = n + 1
    OBVIOUS
  <2>4. k \in 1..n => m[k] = l[k] /\ k # n + 1
    OBVIOUS
  <2> QED
    BY <2>1, <2>2, <2>3, <2>4
<1>5. fr2 \cup dn = {j \in 1..(n + 1) : m[j].frame}
  BY <1>4
<1> QED
  BY <1>3, <1>5 DEF KeepsIn

(* surface_commit_state shows the next commit, whole. *)
LEMMA ShowsNext ==
    ASSUME IInv, NEW from \in States, NEW next \in States, NEW which, NEW d,
           CommitState(from, next, which),
           from.scale = current.scale, from.frames = current.frames,
           next.seq = current.seq + 1,
           IsDelta(next, In(log, current.seq), d),
           log'[current.seq + 1] = d, \A k \in 1..current.seq : log'[k] = log[k],
           UNCHANGED done
    PROVE  Shows' /\ FramesKept'
<1>1. /\ ShowsIn(current, texture, uploaded, In(log, current.seq))
      /\ KeepsIn(current.frames, done, current.seq, log)
  BY ShowsUnfolded DEF IInv
<1>2. current.seq \in Nat /\ current.seq + 1 # 0
  BY NumbersTyped
<1>3. /\ current'.seq = current.seq + 1 /\ current'.hasbuf = next.hasbuf
      /\ current'.scale = IF "scale" \in next.committed THEN next.scale ELSE current.scale
      /\ current'.damage = IF "damage" \in next.committed THEN next.damage ELSE {}
      /\ current'.frames = IF "frame" \in next.committed THEN next.frames \cup current.frames
                                                         ELSE current.frames
  BY CommitStateEffect, MovedTyped
<1>4. IF "buffer" \in next.committed
      THEN texture' = IF uploaded' THEN next.buffer ELSE NoBuffer
      ELSE UNCHANGED <<texture, uploaded>>
  BY CommitStateEffect
<1>5. In(log', current'.seq) = d
  BY <1>2, <1>3 DEF In
<1>6. current'.scale = d.scale /\ current'.damage = d.damage
  BY <1>1, <1>3 DEF IsDelta, SetsFields, ShowsIn
<1>7. current'.hasbuf = (d.buffer # NoBuffer)
  BY <1>3 DEF IsDelta, SetsBuffer
<1>8. texture' = (IF uploaded' THEN d.buffer ELSE NoBuffer)
  BY <1>1, <1>4 DEF IsDelta, SetsBuffer, ShowsIn
<1>9. ShowsIn(current', texture', uploaded', In(log', current'.seq))
  BY <1>5, <1>6, <1>7, <1>8 DEF ShowsIn
<1>10. current'.frames = IF d.frame THEN {current.seq + 1} \cup current.frames ELSE current.frames
  BY <1>3 DEF IsDelta, SetsFields
<1>11. KeepsIn(current'.frames, done, current.seq + 1, log')
  BY <1>1, <1>2, <1>10, KeepsNext
<1> QED
  BY <1>3, <1>9, <1>11, ShowsUnfolded

(* The state that is applied is the next one the client committed. *)
LEMMA AppliesNext ==
    ASSUME IInv, Applies
    PROVE  current.seq = Len(log) /\ pending.seq = current.seq + 1
<1>n. current.seq \in Nat /\ Len(log) \in Nat /\ Len(cached) \in Nat
  BY NumbersTyped
<1>1. cached = <<>> /\ emitting = "none"
  BY DEF Applies, Accepts, MustWait
<1>2. Len(cached) = 0
  BY <1>1
<1>3. /\ pending.seq = Len(log) + 1
      /\ current.seq = Len(log) - Len(cached) + (IF emitting = "cached" THEN 1 ELSE 0)
  BY DEF IInv, Numbered
<1>4. current.seq = Len(log)
  BY <1>n, <1>1, <1>2, <1>3
<1> QED
  BY <1>3, <1>4

LEMMA GoesOnNext ==
    ASSUME IInv, GoesOn
    PROVE  /\ 2 \in 1..Len(cached) /\ cached[2] \in States /\ Head(Tail(cached)) = cached[2]
           /\ cached[2].seq = current.seq + 1 /\ current.seq < Len(log)
<1>n. current.seq \in Nat /\ Len(log) \in Nat /\ Len(cached) \in Nat
  BY NumbersTyped
<1>1. TypeOK /\ Numbered
  BY DEF IInv
<1>2. emitting = "cached" /\ cached # <<>>
  BY Applying DEF GoesOn
<1>3. 2 \in 1..Len(cached) /\ Head(Tail(cached)) = cached[2]
  BY <1>1, <1>2, TailOfQueue DEF GoesOn
<1>4. cached[2] \in States
  BY <1>3, NumbersTyped
<1>5. /\ cached[2].seq = Len(log) - Len(cached) + 2
      /\ current.seq = Len(log) - Len(cached) + 1
  BY <1>1, <1>2, <1>3 DEF Numbered
<1> QED
  BY <1>n, <1>3, <1>4, <1>5

LEMMA FirstNext ==
    ASSUME IInv, NEW h \in Holders, 1 \in 1..Len(cached), UnlocksFirst(h)
    PROVE  /\ cached[1] \in States
           /\ cached[1].seq = current.seq + 1 /\ current.seq < Len(log)
<1>n. current.seq \in Nat /\ Len(log) \in Nat /\ Len(cached) \in Nat /\ cached[1] \in States
  BY NumbersTyped
<1>1. TypeOK /\ Numbered /\ HeadHolds
  BY DEF IInv
<1>2. emitting # "cached"
  <2>1. SUFFICES ASSUME emitting = "cached" PROVE FALSE
    OBVIOUS
  <2>2. cached[1].seq = current.seq /\ HeldOn(current.seq) = {}
    BY <1>1, <2>1 DEF HeadHolds
  <2>3. h \in HeldOn(cached[1].seq)
    BY DEF UnlocksFirst, UnlocksState, HeldOn
  <2> QED
    BY <2>2, <2>3
<1>3. cached[1].seq = Len(log) - Len(cached) + 1 /\ current.seq = Len(log) - Len(cached)
  BY <1>n, <1>1, <1>2 DEF Numbered
<1> QED
  BY <1>n, <1>3

LEMMA ShowsStep ==
    ASSUME IInv, [Next]_vars
    PROVE  Shows' /\ FramesKept'
<1>t. TypeOK /\ Numbered /\ current \in States /\ pending \in States
  BY DEF IInv, TypeOK
<1>w. WaitsIn(cached, log)
  BY WaitingUnfolded DEF IInv
<1>k. /\ ShowsIn(current, texture, uploaded, In(log, current.seq))
      /\ KeepsIn(current.frames, done, current.seq, log)
  BY ShowsUnfolded DEF IInv
<1>n. current.seq \in Nat /\ Len(log) \in Nat /\ Len(cached) \in Nat
  BY NumbersTyped
<1>l. current.seq <= Len(log)
  <2>1. Len(cached) <= Len(log) /\ (emitting = "cached" => Len(cached) >= 1)
    BY <1>n, <1>t, Applying DEF Numbered
  <2> QED
    BY <1>n, <1>t, <2>1 DEF Numbered
<1>0. ASSUME UNCHANGED <<texture, uploaded>>,
             UNCHANGED <<current.seq, current.scale, current.damage, current.hasbuf>>,
             \A k \in 1..current.seq : log'[k] = log[k]
      PROVE  /\ Shows'
             /\ UNCHANGED <<current.frames, done>> => FramesKept'
  <2>1. In(log', current'.seq) = In(log, current.seq)
    BY <1>0, <1>n DEF In
  <2>2. Shows'
    BY <1>0, <1>k, <2>1, ShowsUnfolded DEF ShowsIn
  <2>3. {k \in 1..current.seq : log'[k].frame} = {k \in 1..current.seq : log[k].frame}
    BY <1>0
  <2>4. UNCHANGED <<current.frames, done>> => FramesKept'
    BY <1>0, <1>k, <2>3, ShowsUnfolded DEF KeepsIn
  <2> QED
    BY <2>2, <2>4
<1>a. ASSUME UNCHANGED <<current, texture, uploaded, log, done>>
      PROVE  Shows' /\ FramesKept'
  BY <1>0, <1>a
<1>1. CASE Requests
  BY <1>a, <1>1 DEF Requests, Attach, BufferResourceDestroyed, SetScale, Damage, Frame,
                    HandleCommit, queueVars
<1>2. CASE Rejects
  BY <1>a, <1>2 DEF Rejects
<1>3. ASSUME Accepts
      PROVE  \A k \in 1..current.seq : log'[k] = log[k]
  <2>1. \A k \in 1..Len(log) : log'[k] = log[k]
    BY <1>3, AcceptsEffect
  <2>2. \A k \in 1..current.seq : k \in 1..Len(log)
    BY <1>n, <1>l
  <2> QED
    BY <2>1, <2>2
<1>4. CASE Waits
  <2>1. UNCHANGED <<current, texture, uploaded, done>> /\ Accepts
    BY <1>4 DEF Waits, Accepts
  <2> QED
    BY <1>0, <1>3, <2>1
<1>5. CASE Applies
  <2>1. Accepts /\ CommitState(current, pending, "pending") /\ done' = done
    BY <1>5 DEF Applies, Accepts
  <2>2. current.seq = Len(log) /\ pending.seq = current.seq + 1
    BY <1>5, AppliesNext
  <2>3. IsDelta(pending, In(log, current.seq), want)
    BY <2>1, <2>2, PendingDelta
  <2>4. log'[current.seq + 1] = want
    BY <2>1, <2>2, AcceptsEffect
  <2> QED
    BY <1>t, <1>3, <2>1, <2>2, <2>3, <2>4, ShowsNext
<1>6. CASE Returns \/ Ends
  <2>1. current' = Unlocked /\ UNCHANGED <<texture, uploaded, log, done>>
    BY <1>6 DEF Returns, Ends
  <2>2. UNCHANGED <<current.seq, current.scale, current.damage, current.hasbuf, current.frames>>
    BY <1>t, <2>1, UnlockedTyped
  <2> QED
    BY <1>0, <2>1, <2>2
<1>7. CASE GoesOn
  <2>1. /\ 2 \in 1..Len(cached) /\ cached[2] \in States
        /\ cached[2].seq = current.seq + 1 /\ cached[2].seq - 1 = current.seq
    BY <1>7, <1>n, GoesOnNext
  <2>2. CommitState(Unlocked, cached[2], "cached") /\ log' = log /\ done' = done
    BY <1>7, GoesOnNext DEF GoesOn
  <2>3. IsDelta(cached[2], In(log, current.seq), log[current.seq + 1])
    BY <1>w, <2>1 DEF WaitsIn
  <2>4. Unlocked \in States /\ Unlocked.scale = current.scale /\ Unlocked.frames = current.frames
    BY <1>t, UnlockedTyped
  <2>5. log'[current.seq + 1] = log[current.seq + 1] /\ \A k \in 1..current.seq : log'[k] = log[k]
    BY <2>2
  <2> QED
    BY <2>1, <2>2, <2>3, <2>4, <2>5, ShowsNext
<1>8. ASSUME NEW h \in Holders, 1 \in 1..Len(cached), UnlocksFirst(h)
      PROVE  Shows' /\ FramesKept'
  <2> DEFINE next == [cached[1] EXCEPT !.locks = 0]
  <2>1. cached[1] \in States /\ cached[1].seq = current.seq + 1 /\ cached[1].seq - 1 = current.seq
    BY <1>8, <1>n, FirstNext
  <2>2. CommitState(current, next, "cached") /\ log' = log /\ done' = done
    BY <1>8 DEF UnlocksFirst, UnlocksState, Unlocks
  <2>3. IsDelta(cached[1], In(log, current.seq), log[current.seq + 1])
    BY <1>8, <1>w, <2>1 DEF WaitsIn
  <2>4. /\ next \in States /\ next.seq = cached[1].seq /\ next.committed = cached[1].committed
        /\ next.buffer = cached[1].buffer /\ next.hasbuf = cached[1].hasbuf
        /\ next.scale = cached[1].scale /\ next.damage = cached[1].damage
        /\ next.frames = cached[1].frames
    BY <2>1, FirstTyped
  <2> HIDE DEF next
  <2>5. IsDelta(next, In(log, current.seq), log[current.seq + 1])
    BY <2>3, <2>4, DeltaFields
  <2>6. log'[current.seq + 1] = log[current.seq + 1] /\ \A k \in 1..current.seq : log'[k] = log[k]
    BY <2>2
  <2> QED
    BY <1>t, <2>1, <2>2, <2>4, <2>5, <2>6, ShowsNext
<1>9. CASE SendFrameDone
  <2>1. /\ current' = [current EXCEPT !.frames = {}] /\ done' = done \cup current.frames
        /\ UNCHANGED <<texture, uploaded, log>>
    BY <1>9 DEF SendFrameDone
  <2>2. /\ UNCHANGED <<current.seq, current.scale, current.damage, current.hasbuf>>
        /\ current'.frames = {}
    BY <1>t, <2>1 DEF States
  <2>3. Shows'
    BY <1>0, <2>1, <2>2
  <2>4. KeepsIn({}, done \cup current.frames, current.seq, log)
    BY <1>k DEF KeepsIn
  <2> QED
    BY <2>1, <2>2, <2>3, <2>4, ShowsUnfolded
<1>10. CASE FinishClientCommit
  BY <1>2, <1>4, <1>5, <1>10, FinishClientCommitCases
<1>11. CASE FinishCommit
  BY <1>6, <1>7, <1>11, FinishCommitCases
<1>12. ASSUME NEW h \in Holders, LockPending(h) \/ UnlockCached(h)
       PROVE  Shows' /\ FramesKept'
  <2>1. CASE LockPending(h) \/ UnlocksPending(h)
    BY <1>a, <2>1 DEF LockPending, UnlocksPending, Unlocks
  <2>2. ASSUME NEW i, UnlocksOne(h, i)
        PROVE  Shows' /\ FramesKept'
    BY <1>a, <2>2 DEF UnlocksOne, UnlocksState, Unlocks
  <2> QED
    BY <1>8, <1>12, <2>1, <2>2, UnlockCachedCases
<1>13. CASE Map \/ Unmap \/ RejectPending
  BY <1>a, <1>13 DEF Map, Unmap, RejectPending, queueVars
<1>14. CASE UNCHANGED vars
  BY <1>a, <1>14 DEF vars
<1> QED
  BY <1>1, <1>9, <1>10, <1>11, <1>12, <1>13, <1>14 DEF Next

-----------------------------------------------------------------------------
LEMMA InitIInv ==
    ASSUME Init
    PROVE  IInv
<1>1. TypeOK
  <2>1. NewState(0) \in States /\ NewState(1) \in States
    BY NewStateTyped
  <2>2. InitialWant \in Descriptions
    BY ConstantsAssumption DEF InitialWant, Descriptions, AnyBuffer
  <2>3. <<>> \in Seq(States) /\ <<>> \in Seq(Descriptions)
    OBVIOUS
  <2>4. held \in [Holders -> Nat]
    BY DEF Init
  <2>5. resource \in AnyBuffer /\ texture \in AnyBuffer
    BY DEF Init, AnyBuffer
  <2>6. /\ mapped \in BOOLEAN /\ handling \in BOOLEAN /\ rejected \in BOOLEAN /\ uploaded \in BOOLEAN
        /\ emitting \in {"none", "pending", "cached"} /\ done \subseteq Nat
    BY DEF Init
  <2>7. /\ pending \in States /\ current \in States /\ cached \in Seq(States)
        /\ want \in Descriptions /\ log \in Seq(Descriptions)
    BY <2>1, <2>2, <2>3 DEF Init
  <2> QED
    BY <2>4, <2>5, <2>6, <2>7 DEF TypeOK
<1>2. /\ pending.seq = 1 /\ pending.locks = 0 /\ pending.committed = {} /\ pending.hasbuf = FALSE
      /\ pending.damage = {} /\ pending.frames = {}
      /\ current.seq = 0 /\ current.scale = 1 /\ current.damage = {} /\ current.hasbuf = FALSE
      /\ current.frames = {}
  BY DEF Init, NewState
<1>3. cached = <<>> /\ log = <<>> /\ Len(cached) = 0 /\ Len(log) = 0 /\ 1..Len(cached) = {}
  BY DEF Init
<1>4. /\ InitialWant.buffer = NoBuffer /\ InitialWant.scale = 1 /\ InitialWant.damage = {}
      /\ InitialWant.frame = FALSE /\ InitialWant.frame \in BOOLEAN
  BY DEF InitialWant
<1>5. Numbered
  BY <1>2, <1>3 DEF Numbered, Init
<1>6. LocksCounted
  <2>1. HeldOn(1) = {} /\ \A h \in Holders : held[h] = 0
    BY DEF HeldOn, Init
  <2>2. Cardinality(HeldOn(1)) = 0
    BY <2>1, FS_EmptySet
  <2> QED
    BY <1>2, <1>3, <2>1, <2>2 DEF LocksCounted
<1>7. HeadHolds
  BY <1>3 DEF HeadHolds, Init
<1>8. In(log, Len(log)) = InitialWant /\ In(log, current.seq) = InitialWant
  BY <1>2, <1>3 DEF In
<1>9. Pends
  <2>1. want = InitialWant /\ resource = NoBuffer /\ handling = FALSE /\ rejected = FALSE
    BY DEF Init
  <2>2. pending.hasbuf = (InitialWant.buffer # NoBuffer)
    BY <1>2, <1>4
  <2>3. SetsFields(pending, InitialWant, want) /\ SetsBuffer(pending, InitialWant, want)
    BY <1>2, <1>4, <2>1, <2>2, NothingSet
  <2> QED
    BY <1>2, <1>8, <2>1, <2>3, PendsUnfolded DEF Asks
<1>10. Waiting
  BY <1>3 DEF Waiting
<1>11. Shows
  <2>1. texture = NoBuffer
    BY DEF Init
  <2> QED
    BY <1>2, <1>4, <1>8, <2>1, ShowsUnfolded DEF ShowsIn
<1>12. FramesKept
  BY <1>2 DEF FramesKept, Init
<1> QED
  BY <1>1, <1>5, <1>6, <1>7, <1>9, <1>10, <1>11, <1>12 DEF IInv

LEMMA Invariant == Spec => []IInv
<1>1. IInv /\ [Next]_vars => IInv'
  <2> SUFFICES ASSUME IInv, [Next]_vars PROVE IInv'
    OBVIOUS
  <2> QED
    BY TypeStep, NumberedStep, LocksStep, PendsStep, WaitingStep, ShowsStep DEF IInv
<1> QED
  BY <1>1, InitIInv, PTL DEF Spec

(* Type correctness of the surface. *)
THEOREM TypeCorrect == Spec => []TypeOK
<1>1. IInv => TypeOK
  BY DEF IInv
<1> QED
  BY <1>1, Invariant, PTL

(* Whoever locks and unlocks states, inside the signals or outside, and     *)
(* however many: cached_state_locks counts the holders of every state, the  *)
(* assertions of wlr_surface_unlock_cached hold, and a queue that waits     *)
(* waits for a lock on its first state.                                     *)
THEOREM LocksHoldTheQueue == Spec => []QueueHeld
<1>1. IInv => QueueHeld
  BY DEF IInv, QueueHeld
<1> QED
  BY <1>1, Invariant, PTL

(* After any number of commits, of which any number waited, the surface     *)
(* shows every field as the client described it in the last applied one.    *)
THEOREM DeltasAddUp == Spec => []ShowsCommit
<1>1. IInv => ShowsCommit
  <2> SUFFICES ASSUME IInv, current.seq > 0
               PROVE  LET d == log[current.seq] IN
                      /\ current.scale = d.scale /\ current.damage = d.damage
                      /\ texture = (IF uploaded THEN d.buffer ELSE NoBuffer)
                      /\ current.hasbuf = (d.buffer # NoBuffer)
    BY DEF ShowsCommit
  <2>1. current.seq # 0
    BY NumbersTyped
  <2>2. Described(current.seq) = log[current.seq]
    BY <2>1 DEF Described
  <2> QED
    BY <2>2 DEF IInv, Shows
<1> QED
  BY <1>1, Invariant, PTL

(* Frame callbacks are sent at most once and lost never. *)
THEOREM CallbacksAreKept == Spec => []FramesKept
<1>1. IInv => FramesKept
  BY DEF IInv
<1> QED
  BY <1>1, Invariant, PTL

-----------------------------------------------------------------------------
(* The surface implements DoubleBuffered: the requests build the            *)
(* description, a commit that waits is a Commit, one that is applied at     *)
(* once a CommitAndShow, and applying a cached state a Show.                *)
LEMMA PromiseStep ==
    ASSUME IInv, [Next]_vars
    PROVE  [Promise!Next]_(Promise!vars)
<1>t. TypeOK /\ current \in States /\ pending \in States
  BY DEF IInv, TypeOK
<1>0. ASSUME UNCHANGED <<want, log>>, current'.seq = current.seq
      PROVE  UNCHANGED Promise!vars
  BY <1>0 DEF Promise!vars
<1>1. CASE Requests
  <2>1. UNCHANGED <<log, current>>
    BY <1>1 DEF Requests, Attach, BufferResourceDestroyed, SetScale, Damage, Frame,
                HandleCommit, queueVars
  <2>2. want' \in Descriptions
    BY TypeStep DEF TypeOK
  <2> QED
    BY <2>1, <2>2 DEF Promise!Next, Promise!Request
<1>2. CASE Rejects
  BY <1>0, <1>2 DEF Rejects
<1>3. CASE Waits
  <2>1. log' = Append(log, want) /\ want' = Committed(want) /\ current' = current
    BY <1>3 DEF Waits, Accepts
  <2> QED
    BY <2>1 DEF Promise!Next, Promise!Commit
<1>4. CASE Applies
  <2>1. log' = Append(log, want) /\ want' = Committed(want)
    BY <1>4 DEF Applies, Accepts
  <2>2. current.seq = Len(log) /\ current'.seq = current.seq + 1
    BY <1>4, <1>t, AppliesNext, CommitStateSeq DEF Applies
  <2> QED
    BY <2>1, <2>2 DEF Promise!Next, Promise!CommitAndShow
<1>5. CASE Returns \/ Ends
  BY <1>0, <1>5, <1>t, UnlockedTyped DEF Returns, Ends
<1>6. CASE GoesOn
  <2>1. current.seq < Len(log) /\ current'.seq = current.seq + 1
    BY <1>6, <1>t, UnlockedTyped, GoesOnNext, CommitStateSeq DEF GoesOn
  <2>2. UNCHANGED <<want, log>>
    BY <1>6 DEF GoesOn
  <2> QED
    BY <2>1, <2>2 DEF Promise!Next, Promise!Show
<1>7. ASSUME NEW h \in Holders, 1 \in 1..Len(cached), UnlocksFirst(h)
      PROVE  [Promise!Next]_(Promise!vars)
  <2>1. cached[1] \in States /\ cached[1].seq = current.seq + 1 /\ current.seq < Len(log)
    BY <1>7, FirstNext
  <2>2. /\ [cached[1] EXCEPT !.locks = 0] \in States
        /\ [cached[1] EXCEPT !.locks = 0].seq = cached[1].seq
    BY <2>1, FirstTyped
  <2>3. current'.seq = current.seq + 1
    BY <1>7, <1>t, <2>1, <2>2, CommitStateSeq DEF UnlocksFirst
  <2>4. UNCHANGED <<want, log>>
    BY <1>7 DEF UnlocksFirst, UnlocksState, Unlocks
  <2> QED
    BY <2>1, <2>3, <2>4 DEF Promise!Next, Promise!Show
<1>8. CASE SendFrameDone
  <2>1. current'.seq = current.seq
    BY <1>8, <1>t DEF SendFrameDone, States
  <2> QED
    BY <1>0, <1>8, <2>1 DEF SendFrameDone
<1>9. CASE FinishClientCommit
  BY <1>2, <1>3, <1>4, <1>9, FinishClientCommitCases
<1>10. CASE FinishCommit
  BY <1>5, <1>6, <1>10, FinishCommitCases
<1>11. ASSUME NEW h \in Holders, LockPending(h) \/ UnlockCached(h)
       PROVE  [Promise!Next]_(Promise!vars)
  <2>1. CASE LockPending(h) \/ UnlocksPending(h)
    BY <1>0, <2>1 DEF LockPending, UnlocksPending, Unlocks
  <2>2. ASSUME NEW i, UnlocksOne(h, i)
        PROVE  [Promise!Next]_(Promise!vars)
    BY <1>0, <2>2 DEF UnlocksOne, UnlocksState, Unlocks
  <2> QED
    BY <1>7, <1>11, <2>1, <2>2, UnlockCachedCases
<1>12. CASE Map \/ Unmap \/ RejectPending
  BY <1>0, <1>12 DEF Map, Unmap, RejectPending, queueVars
<1>13. CASE UNCHANGED vars
  BY <1>0, <1>13 DEF vars
<1> QED
  BY <1>1, <1>8, <1>9, <1>10, <1>11, <1>12, <1>13 DEF Next

(* Commits are shown in order, whole, once each and none is skipped.        *)
THEOREM Refinement == Spec => InOrder
<1>1. Init => Promise!Init
  BY DEF Init, NewState, Promise!Init
<1>2. IInv /\ [Next]_vars => [Promise!Next]_(Promise!vars)
  BY PromiseStep
<1> QED
  BY <1>1, <1>2, Invariant, PTL DEF Spec, InOrder, Promise!Spec
=============================================================================
