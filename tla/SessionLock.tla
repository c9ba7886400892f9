---------------------------- MODULE SessionLock -----------------------------
(***************************************************************************)
(* ext-session-lock: a client locks the session, puts a surface on each    *)
(* output and unlocks; the compositor may deny the lock or revoke it, and  *)
(* outputs may go.  Commits may wait before they are applied, also while   *)
(* the surface gets its role or loses it; without a role, the surfaces of   *)
(* LockEarly commit.                                                        *)
(***************************************************************************)
EXTENDS Naturals, Sequences
CONSTANTS LockId, LockSurface, LockOutput, LockSizes, MaxLockSerial, MaxLockQueue, LockEarly, NoLock

ASSUME LockAssumption == /\ MaxLockSerial \in Nat /\ MaxLockQueue \in Nat
                         /\ LockSizes \subseteq Nat \ {0}
                         /\ LockEarly \subseteq LockSurface /\ NoLock \notin LockId /\ NoLock \notin LockOutput

VARIABLE lock

(* res: the lock resources the client has; obj: those that are not inert;  *)
(* surf[s]: the lock and output of the lock surface on s, its pending and   *)
(* current [serial, size]; and of s itself the commits that wait, the size  *)
(* of its buffer, 0 for none, and mapped.  aborted: an assertion failed.    *)
NoState == [serial |-> 0, size |-> 0]
NoRole == [lock |-> NoLock, output |-> NoLock, conf |-> FALSE, confs |-> <<>>,
           pending |-> NoState, current |-> NoState, waiting |-> <<>>, buf |-> 0, mapped |-> FALSE]

LockInit ==
  lock = [res |-> {}, obj |-> {}, locked |-> {}, outs |-> LockOutput,
          surf |-> [s \in LockSurface |-> NoRole], sent |-> <<>>, aborted |-> FALSE]

HasRole(st, s) == st.surf[s].lock # NoLock

(* What waits keeps its buffer, and loses the state of the role. *)
KeepBuffers(w) == [i \in 1..Len(w) |-> [size |-> w[i].size, state |-> NoState]]

(* Unmapped; the role object is gone and so is its state. *)
lock_surface_destroy(r) ==
  [NoRole EXCEPT !.waiting = KeepBuffers(r.waiting), !.buf = r.buf]

DestroySurfaces(st, ss) ==
  [st EXCEPT !.surf = [s \in LockSurface |-> IF s \in ss THEN lock_surface_destroy(@[s]) ELSE @[s]]]

KeepsSurfaces(st, l) == [st EXCEPT !.obj = @ \ {l}, !.locked = @ \ {l}]

lock_destroy(st, l) ==
  [DestroySurfaces(st, {s \in LockSurface : st.surf[s].lock = l}) EXCEPT
     !.obj = @ \ {l}, !.locked = @ \ {l}]

-----------------------------------------------------------------------------
lock_manager_handle_lock(l) ==
  /\ l \notin lock.res
  /\ lock' = [lock EXCEPT !.res = @ \cup {l}, !.obj = @ \cup {l}]

(* The compositor grants the lock, or sends finished. *)
wlr_session_lock_v1_send_locked(l) ==
  /\ l \in lock.obj \ lock.locked
  /\ lock' = [lock EXCEPT !.locked = @ \cup {l}]
wlr_session_lock_v1_destroy(l) == l \in lock.obj /\ lock' = lock_destroy(lock, l)

(* Refused until locked was sent; an inert lock is just destroyed. *)
lock_handle_unlock_and_destroy(l) ==
  /\ l \in lock.res /\ (l \in lock.obj => l \in lock.locked)
  /\ lock' = IF l \in lock.obj
             THEN [lock_destroy(lock, l) EXCEPT !.res = @ \ {l}]
             ELSE [lock EXCEPT !.res = @ \ {l}]

(* A destroy of a lock that is not inert is an error. *)
lock_handle_destroy(l) ==
  /\ l \in lock.res \ lock.obj
  /\ lock' = [lock EXCEPT !.res = @ \ {l}]

(* The client died: the surfaces go, the session stays locked. *)
lock_resource_destroy(l) ==
  /\ l \in lock.res
  /\ lock' = [lock_destroy(lock, l) EXCEPT !.res = @ \ {l}]

(* An inert lock or output gives an inert surface; a second surface for    *)
(* the output is an error, and so is a surface that has a buffer now: what  *)
(* waits is not looked at.                                                  *)
lock_handle_get_lock_surface(l, s, o) ==
  /\ l \in lock.obj /\ o \in lock.outs /\ ~HasRole(lock, s) /\ lock.surf[s].buf = 0
  /\ \A t \in LockSurface : lock.surf[t].lock = l => lock.surf[t].output # o
  /\ lock' = [lock EXCEPT !.surf[s].lock = l, !.surf[s].output = o]

lock_surface_handle_output_destroy(o) ==
  /\ o \in lock.outs
  /\ lock' = [DestroySurfaces(lock, {s \in LockSurface : lock.surf[s].output = o}) EXCEPT
                !.outs = @ \ {o}]

lock_surface_role_destroy(s) == HasRole(lock, s) /\ lock' = DestroySurfaces(lock, {s})

(* A new surface of the client takes the place of one it destroyed. *)
SurfaceGone(s) == lock' = [lock EXCEPT !.surf[s] = NoRole]

-----------------------------------------------------------------------------
(* The handshake. *)
wlr_session_lock_surface_v1_configure(s, size) ==
  /\ HasRole(lock, s) /\ Len(lock.sent) < MaxLockSerial
  /\ lock' = [lock EXCEPT !.sent = Append(@, size),
                !.surf[s].confs = Append(@, [serial |-> Len(lock.sent) + 1, size |-> size])]

lock_surface_handle_ack_configure(s, i) ==
  /\ HasRole(lock, s) /\ i \in DOMAIN lock.surf[s].confs
  /\ lock' = [lock EXCEPT !.surf[s].confs = SubSeq(@, i + 1, Len(@)), !.surf[s].conf = TRUE,
                          !.surf[s].pending = lock.surf[s].confs[i]]

(* The buffer must have the size acknowledged last. *)
lock_surface_role_client_commit(s, size) ==
  HasRole(lock, s) => lock.surf[s].conf /\ size > 0 /\ size = lock.surf[s].pending.size

(* Size 0 takes the buffer away, or attaches none. *)
LockCommit(s, size) ==
  /\ Len(lock.surf[s].waiting) < MaxLockQueue /\ (HasRole(lock, s) \/ s \in LockEarly)
  /\ lock_surface_role_client_commit(s, size)
  /\ lock' = [lock EXCEPT !.surf[s].waiting =
                Append(@, [size |-> size, state |-> lock.surf[s].pending])]

(* wlr_surface_map asserts that a surface it maps has a buffer. *)
lock_surface_role_commit(st, s) ==
  IF st.surf[s].buf = 0 /\ ~st.surf[s].mapped THEN [st EXCEPT !.aborted = TRUE]
  ELSE [st EXCEPT !.surf[s].mapped = TRUE]

LockApply(s) ==
  /\ lock.surf[s].waiting # <<>>
  /\ LET w == Head(lock.surf[s].waiting)
         st == [lock EXCEPT !.surf[s].waiting = Tail(@), !.surf[s].current = w.state,
                            !.surf[s].buf = w.size]
     IN lock' = IF HasRole(lock, s) THEN lock_surface_role_commit(st, s) ELSE st

LockNext ==
  /\ ~lock.aborted
  /\ \/ \E l \in LockId :
          \/ lock_manager_handle_lock(l) \/ wlr_session_lock_v1_send_locked(l)
          \/ wlr_session_lock_v1_destroy(l) \/ lock_handle_unlock_and_destroy(l)
          \/ lock_handle_destroy(l) \/ lock_resource_destroy(l)
          \/ \E s \in LockSurface, o \in LockOutput : lock_handle_get_lock_surface(l, s, o)
     \/ \E o \in LockOutput : lock_surface_handle_output_destroy(o)
     \/ \E s \in LockSurface :
          \/ lock_surface_role_destroy(s) \/ SurfaceGone(s)
          \/ \E size \in LockSizes : wlr_session_lock_surface_v1_configure(s, size)
          \/ \E i \in 1..MaxLockSerial : lock_surface_handle_ack_configure(s, i)
          \/ \E size \in LockSizes \cup {0} : LockCommit(s, size)
          \/ LockApply(s)

LockSpec == LockInit /\ [][LockNext]_lock

-----------------------------------------------------------------------------
(* What covers a locked screen is what the compositor asked for: a surface  *)
(* that shows a commit made with its role is mapped and has the size of the *)
(* configure whose serial is current, however many were in flight; a lock   *)
(* surface belongs to a lock that was neither denied, revoked nor destroyed *)
(* and to an output that exists, and is the only one of its lock there; and *)
(* nothing else is mapped.  A commit that waited when the role was given    *)
(* has no serial and was never checked: it is mapped with whatever size it  *)
(* has, or fails the assertion of wlr_surface_map.                          *)
LockSurfacesMatch ==
  \A s \in LockSurface :
    LET r == lock.surf[s] IN
    /\ r.mapped \/ r.current.serial > 0 => HasRole(lock, s)
    /\ HasRole(lock, s) =>
      /\ r.lock \in lock.obj /\ r.output \in lock.outs
      /\ r.current.serial > 0 =>
           r.mapped /\ r.buf = r.current.size /\ r.buf = lock.sent[r.current.serial]
      /\ \A t \in LockSurface : t # s /\ lock.surf[t].lock = r.lock => lock.surf[t].output # r.output
=============================================================================
