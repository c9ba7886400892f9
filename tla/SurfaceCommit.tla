--------------------------- MODULE SurfaceCommit ---------------------------
(***************************************************************************)
(* The double-buffered state of one wlr_surface (types/wlr_compositor.c):  *)
(* wl_surface requests fill `pending`; wl_surface.commit either applies it *)
(* to `current` or, when somebody holds a lock on it or an earlier commit  *)
(* still waits, appends it to the queue `cached`; releasing the last lock  *)
(* of the first cached state applies it and every unlocked one behind it.  *)
(*                                                                         *)
(* A state is a delta: `committed` names the fields it sets.  Three kinds  *)
(* of field are kept: the buffer; `scale`, standing for every field that   *)
(* persists (scale, transform, opaque and input region, viewport);         *)
(* `damage`, standing for every field that a commit which does not set it  *)
(* clears (surface and buffer damage, offset); and the frame callbacks,    *)
(* which pile up.  A callback is named by the commit it was requested for. *)
(*                                                                         *)
(* The handlers run to completion, but they emit signals on the way, and   *)
(* the listeners (sub-surfaces, explicit sync, the compositor) lock and    *)
(* unlock states from inside them.  A handler is therefore cut at its      *)
(* emissions: `handling` is true during the client_commit signal and       *)
(* `emitting` names the state whose commit signal is being emitted; client *)
(* requests are only dispatched when neither is going on.                  *)
(***************************************************************************)
EXTENDS Naturals, Sequences, FiniteSets

CONSTANTS Buffers,     \* the client's wl_buffers
          NoBuffer,    \* a NULL wl_buffer
          Scales,      \* values of a persistent field; 1 is the initial one
          Rects,       \* what damage is made of
          Holders,     \* those who lock states: each holds at most one lock
          MaxCommits,  \* bound: commits a client makes
          MaxFields    \* bound: fields a client sets in one commit

ASSUME ConstantsAssumption ==
    /\ NoBuffer \notin Buffers
    /\ Scales \subseteq Nat /\ 1 \in Scales
    /\ IsFiniteSet(Holders)
    /\ MaxCommits \in Nat /\ MaxFields \in Nat

VARIABLES pending, cached, current,   \* wlr_surface.{pending, cached, current}
          resource,    \* pending_buffer_resource
          texture,     \* wlr_surface.buffer: the contents that were uploaded
          mapped,      \* wlr_surface.mapped
          handling,    \* handling_commit
          rejected,    \* pending_rejected
          emitting,    \* "pending", "cached" or "none"
          held,        \* held[h]: the sequence number h locked, 0 for none
          \* History: what the client described and committed, which uploads
          \* worked, and which callbacks were sent.
          want, log, uploaded, done

queueVars == <<pending, cached, current, texture, mapped, emitting, log, uploaded>>
vars == <<pending, cached, current, resource, texture, mapped, handling, rejected,
          emitting, held, want, log, uploaded, done>>

AnyBuffer == Buffers \cup {NoBuffer}
Fields == {"buffer", "scale", "damage", "frame"}

\* What a client describes: the contents, persistent and one-shot fields, and
\* whether it wants to hear of the frame.
Descriptions == [buffer : AnyBuffer, scale : Scales, damage : SUBSET Rects, frame : BOOLEAN]

\* The one-shot fields of a description do not outlive the commit.
Committed(d) == [buffer |-> d.buffer, scale |-> d.scale, damage |-> {}, frame |-> FALSE]

InitialWant == [buffer |-> NoBuffer, scale |-> 1, damage |-> {}, frame |-> FALSE]

\* surface_state_init.
NewState(seq) == [seq |-> seq, locks |-> 0, committed |-> {}, buffer |-> NoBuffer,
                  hasbuf |-> FALSE, scale |-> 1, damage |-> {}, frames |-> {}]

States == [seq : Nat, locks : Nat, committed : SUBSET Fields, buffer : AnyBuffer,
           hasbuf : BOOLEAN, scale : Scales, damage : SUBSET Rects, frames : SUBSET Nat]

\* A move that keeps the damage of the previous commit.
Moved_staledamage(state, next) ==
    [seq |-> next.seq, locks |-> next.locks, committed |-> next.committed,
     hasbuf |-> next.hasbuf,
     buffer |-> IF "buffer" \in next.committed THEN next.buffer ELSE state.buffer,
     scale  |-> IF "scale" \in next.committed THEN next.scale ELSE state.scale,
     damage |-> IF "damage" \in next.committed THEN next.damage ELSE state.damage,
     frames |-> next.frames \cup state.frames]

\* A move that replaces the callbacks that still wait.
Moved_dropframes(state, next) ==
    [seq |-> next.seq, locks |-> next.locks, committed |-> next.committed,
     hasbuf |-> next.hasbuf,
     buffer |-> IF "buffer" \in next.committed THEN next.buffer ELSE state.buffer,
     scale  |-> IF "scale" \in next.committed THEN next.scale ELSE state.scale,
     damage |-> IF "damage" \in next.committed THEN next.damage ELSE {},
     frames |-> next.frames]

\* A move that forgets to reset the locks of the state it empties.
Emptied_keeplocks(next) ==
    [seq |-> next.seq, locks |-> next.locks, committed |-> {}, hasbuf |-> next.hasbuf,
     buffer |-> IF "buffer" \in next.committed THEN NoBuffer ELSE next.buffer,
     scale |-> next.scale, damage |-> {}, frames |-> {}]

\* surface_state_move: `state` overwritten by what `next` sets.
Moved(state, next) ==
    [seq |-> next.seq, locks |-> next.locks, committed |-> next.committed,
     hasbuf |-> next.hasbuf,
     buffer |-> IF "buffer" \in next.committed THEN next.buffer ELSE state.buffer,
     scale  |-> IF "scale" \in next.committed THEN next.scale ELSE state.scale,
     damage |-> IF "damage" \in next.committed THEN next.damage ELSE {},
     frames |-> IF "frame" \in next.committed THEN next.frames \cup state.frames
                                              ELSE state.frames]

\* ... and what it leaves of `next`.
Emptied(next) ==
    [seq |-> next.seq, locks |-> 0, committed |-> {}, hasbuf |-> next.hasbuf,
     buffer |-> IF "buffer" \in next.committed THEN NoBuffer ELSE next.buffer,
     scale  |-> next.scale,
     damage |-> IF "damage" \in next.committed THEN {} ELSE next.damage,
     frames |-> IF "frame" \in next.committed THEN {} ELSE next.frames]

Init ==
    /\ pending = NewState(1)
    /\ cached = <<>>
    /\ current = NewState(0)
    /\ resource = NoBuffer /\ texture = NoBuffer /\ mapped = FALSE
    /\ handling = FALSE /\ rejected = FALSE /\ emitting = "none"
    /\ held = [h \in Holders |-> 0]
    /\ want = InitialWant /\ log = <<>> /\ uploaded = TRUE /\ done = {}

-----------------------------------------------------------------------------
(* Requests.  libwayland dispatches none once an error was posted.          *)

Idle == ~handling /\ emitting = "none"
Dispatching == Idle /\ ~rejected
Sets(field) == Dispatching /\ Cardinality(pending.committed \cup {field}) <= MaxFields

Attach(b) ==
    /\ Sets("buffer")
    /\ pending' = [pending EXCEPT !.committed = @ \cup {"buffer"}]
    /\ resource' = b
    /\ want' = [want EXCEPT !.buffer = b]
    /\ UNCHANGED <<cached, current, texture, mapped, handling, rejected, emitting, held,
                   log, uploaded, done>>

\* The client destroys a wl_buffer it attached and has not committed yet.
BufferResourceDestroyed ==
    /\ Dispatching
    /\ resource # NoBuffer
    /\ resource' = NoBuffer
    /\ want' = [want EXCEPT !.buffer = NoBuffer]
    /\ UNCHANGED <<queueVars, handling, rejected, held, done>>

SetScale(s) ==
    /\ Sets("scale")
    /\ pending' = [pending EXCEPT !.committed = @ \cup {"scale"}, !.scale = s]
    /\ want' = [want EXCEPT !.scale = s]
    /\ UNCHANGED <<cached, current, resource, texture, mapped, handling, rejected,
                   emitting, held, log, uploaded, done>>

Damage(r) ==
    /\ Sets("damage")
    /\ pending' = [pending EXCEPT !.committed = @ \cup {"damage"}, !.damage = @ \cup {r}]
    /\ want' = [want EXCEPT !.damage = @ \cup {r}]
    /\ UNCHANGED <<cached, current, resource, texture, mapped, handling, rejected,
                   emitting, held, log, uploaded, done>>

Frame ==
    /\ Sets("frame")
    /\ pending' = [pending EXCEPT !.committed = @ \cup {"frame"},
                                  !.frames = @ \cup {pending.seq}]
    /\ want' = [want EXCEPT !.frame = TRUE]
    /\ UNCHANGED <<cached, current, resource, texture, mapped, handling, rejected,
                   emitting, held, log, uploaded, done>>

-----------------------------------------------------------------------------
(* Applying a state.                                                        *)

\* surface_commit_state up to the commit signal, from the current state `from`
\* to the next one (the pending or the first cached state): a NULL buffer
\* unmaps the surface, the delta is merged into current, and the buffer, if
\* the commit sets one, is uploaded, which may fail.
CommitState(from, next, which) ==
    /\ current' = Moved(from, next)
    /\ mapped' = (mapped /\ ~("buffer" \in next.committed /\ next.buffer = NoBuffer))
    /\ emitting' = which
    /\ IF "buffer" \notin next.committed
       THEN UNCHANGED <<texture, uploaded>>
       ELSE \E ok \in BOOLEAN :
                /\ uploaded' = (ok \/ next.buffer = NoBuffer)
                /\ texture' = IF ok THEN next.buffer ELSE NoBuffer

\* surface_handle_commit up to the client_commit signal: the attached wl_buffer
\* becomes the buffer of the pending state, and a buffer that is of no known
\* kind, or whose size does not fit the scale, rejects the state.
HandleCommit(ok) ==
    /\ Dispatching
    /\ Len(log) < MaxCommits
    /\ handling' = TRUE
    /\ rejected' = ~ok
    /\ IF "buffer" \in pending.committed
       THEN /\ pending' = [pending EXCEPT !.buffer = resource,
                                          !.hasbuf = (resource # NoBuffer)]
            /\ resource' = NoBuffer
       ELSE UNCHANGED <<pending, resource>>
    /\ UNCHANGED <<cached, current, texture, mapped, emitting, held, want, log, uploaded, done>>

\* A commit overtakes the ones that wait, unless it is locked itself.
MustWait_overtake == pending.locks > 0

\* The decision of surface_handle_commit that opens a queue.
MustWait == pending.locks > 0 \/ cached # <<>>

\* The rest of surface_handle_commit: a rejected state goes nowhere; one that
\* is locked, or that has others waiting in front of it, is cached; any other
\* is applied.
FinishClientCommit ==
    /\ handling /\ emitting = "none"
    /\ handling' = FALSE
    /\ IF rejected
       THEN UNCHANGED <<queueVars, want>>
       ELSE /\ log' = Append(log, want)
            /\ want' = Committed(want)
            /\ pending' = [Emptied(pending) EXCEPT !.seq = @ + 1]
            /\ IF MustWait
               THEN /\ cached' = Append(cached, Moved(NewState(0), pending))
                    /\ UNCHANGED <<current, texture, mapped, emitting, uploaded>>
               ELSE CommitState(current, pending, "pending") /\ UNCHANGED cached
    /\ UNCHANGED <<resource, rejected, held, done>>

\* Unlocking applies the first cached state only.
FinishCommit_one ==
    /\ emitting # "none"
    /\ current' = [current EXCEPT !.buffer = NoBuffer]
    /\ emitting' = "none"
    /\ cached' = IF emitting = "pending" THEN cached ELSE Tail(cached)
    /\ UNCHANGED <<pending, resource, texture, mapped, handling, rejected, held, want, log,
                   uploaded, done>>

\* The commit signal returns: the surface drops its lock on the buffer.  A
\* cached state is then destroyed, and the loop of wlr_surface_unlock_cached
\* goes on to the next one, unless that one is locked.
FinishCommit ==
    LET unlocked == [current EXCEPT !.buffer = NoBuffer]
        rest == Tail(cached)
        goesOn == rest # <<>> /\ Head(rest).locks = 0
    IN  /\ emitting # "none"
        /\ IF emitting = "pending"
           THEN /\ current' = unlocked
                /\ emitting' = "none"
                /\ UNCHANGED <<cached, texture, mapped, uploaded>>
           ELSE /\ cached' = rest
                /\ IF goesOn
                   THEN CommitState(unlocked, Head(rest), "cached")
                   ELSE /\ current' = unlocked
                        /\ emitting' = "none"
                        /\ UNCHANGED <<texture, mapped, uploaded>>
        /\ UNCHANGED <<pending, resource, handling, rejected, held, want, log, done>>

-----------------------------------------------------------------------------
(* Locks, taken and released at any time, inside the signals too.           *)

\* wlr_surface_lock_pending.
LockPending(h) ==
    /\ held[h] = 0
    /\ pending' = [pending EXCEPT !.locks = @ + 1]
    /\ held' = [held EXCEPT ![h] = pending.seq]
    /\ UNCHANGED <<cached, current, resource, texture, mapped, handling, rejected, emitting,
                   want, log, uploaded, done>>

\* The cached states a lock on seq can mean; the code asserts there is one.
CachedWith(seq) == {i \in 1..Len(cached) : cached[i].seq = seq}

\* Any cached state whose last lock goes starts the loop.
Starts_any(i) == cached[i].locks = 1

\* Releasing the last lock of the first cached state starts the loop.
Starts(i) == cached[i].locks = 1 /\ i = 1

\* wlr_surface_unlock_cached, up to the first commit signal.
UnlockCached(h) ==
    /\ held[h] # 0
    /\ held' = [held EXCEPT ![h] = 0]
    /\ IF held[h] = pending.seq
       THEN /\ pending' = [pending EXCEPT !.locks = @ - 1]
            /\ UNCHANGED <<cached, current, texture, mapped, emitting, uploaded>>
       ELSE \E i \in CachedWith(held[h]) :
            /\ cached' = [cached EXCEPT ![i].locks = @ - 1]
            /\ UNCHANGED pending
            /\ IF Starts(i)
               THEN CommitState(current, [cached[1] EXCEPT !.locks = 0], "cached")
               ELSE UNCHANGED <<current, texture, mapped, emitting, uploaded>>
    /\ UNCHANGED <<resource, handling, rejected, want, log, done>>

-----------------------------------------------------------------------------
(* What roles and the compositor do with the surface.                       *)

\* wlr_surface_map, which a role calls from the commit signal.
Map ==
    /\ emitting # "none"
    /\ ~mapped
    /\ current.hasbuf
    /\ mapped' = TRUE
    /\ UNCHANGED <<pending, cached, current, resource, texture, handling, rejected, emitting,
                   held, want, log, uploaded, done>>

\* wlr_surface_unmap, when the role object goes or the role says so.
Unmap ==
    /\ mapped
    /\ mapped' = FALSE
    /\ UNCHANGED <<pending, cached, current, resource, texture, handling, rejected, emitting,
                   held, want, log, uploaded, done>>

\* wlr_surface_reject_pending, by a role or a client_commit listener.
RejectPending ==
    /\ handling /\ ~rejected
    /\ rejected' = TRUE
    /\ UNCHANGED <<queueVars, resource, handling, held, want, done>>

\* wlr_surface_send_frame_done.
SendFrameDone ==
    /\ Idle
    /\ current.frames # {}
    /\ done' = done \cup current.frames
    /\ current' = [current EXCEPT !.frames = {}]
    /\ UNCHANGED <<pending, cached, resource, texture, mapped, handling, rejected, emitting,
                   held, want, log, uploaded>>

Requests ==
    \/ \E b \in AnyBuffer : Attach(b)
    \/ BufferResourceDestroyed
    \/ \E s \in Scales : SetScale(s)
    \/ \E r \in Rects : Damage(r)
    \/ Frame
    \/ \E ok \in BOOLEAN : HandleCommit(ok)

Next ==
    \/ Requests
    \/ FinishClientCommit
    \/ FinishCommit
    \/ \E h \in Holders : LockPending(h) \/ UnlockCached(h)
    \/ Map \/ Unmap \/ RejectPending
    \/ SendFrameDone

\* Handlers return, and whoever locks a state releases it ("The caller needs
\* to use wlr_surface_unlock_cached()", wlr_compositor.h).
Fairness ==
    /\ WF_vars(FinishClientCommit)
    /\ WF_vars(FinishCommit)
    /\ \A h \in Holders : WF_vars(UnlockCached(h))

Spec == Init /\ [][Next]_vars /\ Fairness

-----------------------------------------------------------------------------
TypeOK ==
    /\ pending \in States /\ current \in States /\ cached \in Seq(States)
    /\ resource \in AnyBuffer /\ texture \in AnyBuffer
    /\ mapped \in BOOLEAN /\ handling \in BOOLEAN /\ rejected \in BOOLEAN
    /\ emitting \in {"none", "pending", "cached"}
    /\ held \in [Holders -> Nat]
    /\ want \in Descriptions /\ log \in Seq(Descriptions) /\ uploaded \in BOOLEAN
    /\ done \subseteq Nat

HeldOn(seq) == {h \in Holders : held[h] = seq}

\* Every lock is accounted for: a state's cached_state_locks is the number of
\* those who hold it, and what somebody holds is the pending or a cached state
\* (assert(found) and assert(cached_state_locks > 0) in
\* wlr_surface_unlock_cached), wherever in a handler the lock was taken.
LocksCounted ==
    /\ pending.locks = Cardinality(HeldOn(pending.seq))
    /\ \A i \in 1..Len(cached) : cached[i].locks = Cardinality(HeldOn(cached[i].seq))
    /\ \A h \in Holders : held[h] # 0 => held[h] = pending.seq \/ CachedWith(held[h]) # {}

\* Outside the loop of wlr_surface_unlock_cached the first cached state is
\* locked, so somebody's unlock will apply it; inside, the state being applied
\* is still the first and nobody holds it, so an unlock from a listener cannot
\* start a second loop over the same list ("This isn't the first cached state.
\* This means we're blocked on a previous cached state.").
HeadHolds ==
    CASE emitting = "none"    -> cached # <<>> => cached[1].locks > 0
      [] emitting = "pending" -> cached = <<>>
      [] emitting = "cached"  -> /\ cached # <<>>
                                 /\ cached[1].seq = current.seq
                                 /\ HeldOn(current.seq) = {}

\* Locks on cached states are counted, and only a lock at the head of the
\* queue keeps states from being applied.
QueueHeld == LocksCounted /\ HeadHolds

\* What the surface shows is the description of the last applied commit, every
\* field of it: the deltas that waited in the queue, merged one by one, add up
\* to what the client described when it committed.
ShowsCommit ==
    current.seq > 0 =>
        LET d == log[current.seq] IN
        /\ current.scale = d.scale
        /\ current.damage = d.damage
        /\ texture = (IF uploaded THEN d.buffer ELSE NoBuffer)
        /\ current.hasbuf = (d.buffer # NoBuffer)

\* Frame callbacks: each is sent at most once, none before the commit that
\* asked for it is applied, and none is lost on its way through the queue.
FramesKept ==
    /\ current.frames \cap done = {}
    /\ current.frames \cup done = {k \in 1..current.seq : log[k].frame}

\* Commits are shown in order, whole, once each: the surface implements the
\* double-buffering its client relies on.
Promise == INSTANCE DoubleBuffered WITH shown <- current.seq
InOrder == Promise!Spec

\* A commit that was accepted is eventually shown.
CommitsApplied == \A n \in 1..MaxCommits : (Len(log) >= n) ~> (current.seq >= n)
=============================================================================
