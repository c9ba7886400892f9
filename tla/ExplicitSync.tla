---------------------------- MODULE ExplicitSync ----------------------------
(***************************************************************************)
(* Explicit synchronization (types/wlr_linux_drm_syncobj_v1.c,              *)
(* render/drm_syncobj.c, render/drm_syncobj_merger.c) of one surface.  A    *)
(* commit with a buffer names an acquire point, which it waits for, and a   *)
(* release point, which the compositor signals when it is done with the     *)
(* buffer.  The client uses one timeline; commit i names its points i.      *)
(* Readers of a buffer are the scene's render passes, whose fences exist    *)
(* only once they are submitted, DMA-BUF fences of implicit                 *)
(* synchronization, and cursors, which hold the buffer itself (and their    *)
(* own references to the timeline, not counted here).                       *)
(***************************************************************************)
EXTENDS Naturals, Sequences, FiniteSets, SequencesExt

CONSTANTS MaxEsCommits,  \* bound: commits of the client
          MaxEsJobs      \* bound: uses of a buffer by the GPU

EsId == 1..MaxEsCommits
EsJob == 1..MaxEsJobs

VARIABLE es

(* A wlr_linux_drm_syncobj_surface_v1_state: 0 is a NULL timeline or merger. *)
NoSync == [committed |-> FALSE, acq |-> 0, rel |-> 0, merger |-> 0]

EsState(consumer) ==
  [consumer |-> consumer, \* who shows the surface: the scene or cursors
   surf |-> TRUE, obj |-> "none", res |-> TRUE, dead |-> FALSE,
   n |-> 0,               \* commits made
   buffer |-> "no",       \* the pending buffer: not attached, NULL or one
   pending |-> NoSync,
   cached |-> <<>>,       \* records [id, buffer, sync, locks]
   current |-> NoSync,
   shown |-> 0,           \* the commit whose buffer is on screen
   waits |-> {},          \* commits with a waiter for their acquire point
   ready |-> {},          \* acquire points that have materialized
   wait |-> 0,            \* the acquire point a scene buffer refers to
   refs |-> 1,            \* n_refs of the timeline
   merger |-> [i \in EsId |-> [made |-> FALSE, n_ref |-> 0, fences |-> {}, signalled |-> 0]],
   signaller |-> [i \in EsId |-> 0],  \* listeners to the release of buffer i
   waiter |-> {},         \* export_waiter and poll_waiter objects
   job |-> [j \in EsJob |-> [st |-> "none", of |-> 0, dmabuf |-> FALSE]],
   needs |-> {},          \* ghost: commits that named an acquire point
   orphan |-> {},         \* ghost: commits on screen when their object went
   lost |-> {},           \* ghost: release points discarded before their commit was applied
   unfenced |-> {}]       \* ghost: jobs whose fence could not be had

wlr_drm_syncobj_timeline_unref(s, p) == IF p = 0 THEN s ELSE [s EXCEPT !.refs = @ - 1]
wlr_drm_syncobj_timeline_ref(s, p) == IF p = 0 THEN s ELSE [s EXCEPT !.refs = @ + 1]

(* Waiting for an acquire point: whether it is there, and to be told. *)
wlr_drm_syncobj_timeline_check(s, i) == i \in s.ready
wlr_drm_syncobj_timeline_waiter_init(s, i) == [s EXCEPT !.waits = @ \cup {i}]
wlr_drm_syncobj_timeline_waiter_finish(s, i) == [s EXCEPT !.waits = @ \ {i}]

---------------------------------------------------------------------------
(* Mergers. *)

wlr_drm_syncobj_merger_create(s, i) ==
  [wlr_drm_syncobj_timeline_ref(s, i) EXCEPT
     !.merger[i] = [made |-> TRUE, n_ref |-> 1, fences |-> {}, signalled |-> @.signalled]]

wlr_drm_syncobj_merger_unref(s, i) ==
  IF i = 0 THEN s
  ELSE LET t == [s EXCEPT !.merger[i].n_ref = @ - 1]
       IN IF t.merger[i].n_ref > 0 THEN t
          ELSE [wlr_drm_syncobj_timeline_unref(t, i) EXCEPT !.merger[i].signalled = @ + 1]

(* An out-fence exists once its job, or a later one of the same timeline,   *)
(* was submitted.                                                           *)
FencedBy(s, j) ==
  {k \in j..MaxEsJobs : s.job[k].st \in {"running", "done", "void"} /\ ~s.job[k].dmabuf}
wlr_drm_syncobj_timeline_export_sync_file(s, j) ==
  CHOOSE k \in FencedBy(s, j) : \A l \in FencedBy(s, j) : k <= l

(* ok: the export of the fence, and the merge with the others, succeed. *)
merger_add_exportable(s, i, j, ok) ==
  IF ok THEN [s EXCEPT !.merger[i].fences = @ \cup {wlr_drm_syncobj_timeline_export_sync_file(s, j)}]
  ELSE [s EXCEPT !.unfenced = @ \cup {j}]

merger_add_unreferenced(s, i, j, ok) ==
  IF FencedBy(s, j) # {} THEN merger_add_exportable(s, i, j, ok)
  ELSE IF ~ok THEN [s EXCEPT !.unfenced = @ \cup {j}]
  ELSE [s EXCEPT !.waiter = @ \cup {[merger |-> i, job |-> j, plane |-> 0]}]

wlr_drm_syncobj_merger_add(s, i, j, ok) ==
  IF FencedBy(s, j) # {} THEN merger_add_exportable(s, i, j, ok)
  ELSE IF ~ok THEN [s EXCEPT !.unfenced = @ \cup {j}]
  ELSE [s EXCEPT !.waiter = @ \cup {[merger |-> i, job |-> j, plane |-> 0]},
                 !.merger[i].n_ref = @ + 1]

(* The fences of a DMA-BUF of two planes; without sync_file support the     *)
(* event loop polls the planes.                                             *)
wlr_drm_syncobj_merger_add_dmabuf(s, i, j, ok) ==
  IF ok THEN [s EXCEPT !.merger[i].fences = @ \cup {j}]
  ELSE [s EXCEPT !.waiter = @ \cup {[merger |-> i, job |-> j, plane |-> p] : p \in 1..2},
                 !.merger[i].n_ref = @ + 2]

---------------------------------------------------------------------------
(* States of a surface, applied when the commit they came with is. *)

surface_synced_finish_state(s, x) ==
  LET t == wlr_drm_syncobj_timeline_unref(wlr_drm_syncobj_timeline_unref(s, x.acq), x.rel)
  IN [wlr_drm_syncobj_merger_unref(t, x.merger) EXCEPT
        !.lost = IF x.rel # 0 /\ x.committed THEN @ \cup {x.rel} ELSE @]

(* Into current, from a cached or the pending state. *)
surface_synced_move_state(s, x) ==
  IF ~x.committed THEN s
  ELSE [surface_synced_finish_state(s, s.current) EXCEPT !.current = x]

synced_commit_uncleared(s) ==
  IF ~s.current.committed \/ s.current.rel = 0 THEN s
  ELSE [wlr_drm_syncobj_merger_create(s, s.current.rel) EXCEPT !.current.merger = s.current.rel]

surface_synced_commit(s) ==
  IF ~s.current.committed THEN s
  ELSE LET t == [s EXCEPT !.current.committed = FALSE]
       IN IF t.current.rel = 0 THEN t
          ELSE [wlr_drm_syncobj_merger_create(t, t.current.rel) EXCEPT !.current.merger = t.current.rel]

(* What shows the surface reads its state when a commit was applied: a      *)
(* scene buffer refers to the acquire point, the cursors of two outputs     *)
(* wait for the buffer's release.                                           *)
wlr_linux_drm_syncobj_v1_state_signal_release_with_buffer(s, i) ==
  IF s.current.merger = 0 THEN s
  ELSE [s EXCEPT !.merger[s.current.merger].n_ref = @ + 1, !.signaller[i] = @ + 1]

CommitSeen(s, c) ==
  LET acq == IF s.obj = "live" THEN s.current.acq ELSE 0
      t == wlr_drm_syncobj_timeline_unref(s, s.wait)
      cursors == wlr_linux_drm_syncobj_v1_state_signal_release_with_buffer(
                   wlr_linux_drm_syncobj_v1_state_signal_release_with_buffer(s, c.id), c.id)
  IN CASE s.consumer = "scene" /\ s.shown # 0 -> [wlr_drm_syncobj_timeline_ref(t, acq) EXCEPT !.wait = acq]
       [] s.consumer = "cursors" /\ s.obj = "live" /\ c.buffer = "buffer" -> cursors
       [] OTHER -> s

surface_apply_state(s, c) ==
  LET moved == IF s.obj = "live" THEN surface_synced_commit(surface_synced_move_state(s, c.sync)) ELSE s
      shown == CASE c.buffer = "no" -> s.shown [] c.buffer = "null" -> 0 [] c.buffer = "buffer" -> c.id
  IN CommitSeen([moved EXCEPT !.shown = shown], c)

(* The states at the head of the queue that nobody holds are applied. *)
ApplyFirst(s) == [surface_apply_state(s, s.cached[1]) EXCEPT !.cached = Tail(@)]
ApplyFree(s) ==
  FoldLeft(LAMBDA q, c : IF q.cached # <<>> /\ q.cached[1].locks = {} THEN ApplyFirst(q) ELSE q,
           s, s.cached)

surface_unlock_cached(s, i, who) ==
  LET k == CHOOSE k \in 1..Len(s.cached) : s.cached[k].id = i
      t == [s EXCEPT !.cached[k].locks = @ \ {who}]
  IN IF t.cached[k].locks # {} \/ k # 1 THEN t ELSE ApplyFree(t)

commit_destroy_locked(s, i) == wlr_drm_syncobj_timeline_waiter_finish(s, i)

surface_commit_destroy(s, i) ==
  surface_unlock_cached(wlr_drm_syncobj_timeline_waiter_finish(s, i), i, "fence")

(* The protocol object goes: its states are finished wherever they are. *)
surface_destroy(s) ==
  LET states == <<s.pending, s.current>> \o [k \in 1..Len(s.cached) |-> s.cached[k].sync]
      t == FoldLeft(surface_synced_finish_state, s, states)
  IN [t EXCEPT !.pending = NoSync, !.current = NoSync,
               !.cached = [k \in 1..Len(@) |-> [@[k] EXCEPT !.sync = NoSync]],
               !.orphan = IF s.shown # 0 THEN @ \cup {s.shown} ELSE @]

---------------------------------------------------------------------------
(* Requests of the client. *)

Client == es.surf /\ ~es.dead

manager_handle_get_surface ==
  /\ Client /\ es.obj = "none"
  /\ es' = [es EXCEPT !.obj = "live"]

surface_handle_set_acquire_point ==
  /\ ~es.dead /\ es.res /\ es.n < MaxEsCommits
  /\ \/ es.obj = "inert" /\ es' = [es EXCEPT !.dead = TRUE]
     \/ /\ es.obj = "live"
        /\ es' = [wlr_drm_syncobj_timeline_ref(wlr_drm_syncobj_timeline_unref(es, es.pending.acq), es.n + 1)
                    EXCEPT !.pending.acq = es.n + 1]

surface_handle_set_release_point ==
  /\ ~es.dead /\ es.res /\ es.n < MaxEsCommits
  /\ \/ es.obj = "inert" /\ es' = [es EXCEPT !.dead = TRUE]
     \/ /\ es.obj = "live"
        /\ es' = [wlr_drm_syncobj_timeline_ref(wlr_drm_syncobj_timeline_unref(es, es.pending.rel), es.n + 1)
                    EXCEPT !.pending.rel = es.n + 1]

Attach ==
  \E b \in {"null", "buffer"} :
    /\ Client /\ es.n < MaxEsCommits /\ es.buffer # b
    /\ es' = [es EXCEPT !.buffer = b]

Refused ==
  \/ es.buffer # "buffer" /\ (es.pending.acq # 0 \/ es.pending.rel # 0)
  \/ es.buffer = "buffer" /\ (es.pending.acq = 0 \/ es.pending.rel = 0)

(* A commit is locked until its acquire point materializes; that the check  *)
(* or the waiter fails ends the client (surface_handle_client_commit).      *)
lock_surface_commit(i) == IF wlr_drm_syncobj_timeline_check(es, i) THEN {} ELSE {"fence"}

(* surface_handle_client_commit, then the surface's own commit; ext is a    *)
(* lock of somebody else.                                                   *)
surface_handle_client_commit ==
  /\ Client /\ es.n < MaxEsCommits
  /\ LET i == es.n + 1
         sync == [es.pending EXCEPT !.committed = es.buffer # "no"]
     IN \/ /\ es.obj = "live" /\ Refused
           /\ es' = [es EXCEPT !.dead = TRUE]
        \/ /\ es.obj = "live" /\ ~Refused /\ es.pending.acq # 0
           /\ es' = [es EXCEPT !.dead = TRUE] \* no memory, or points that conflict
        \/ /\ es.obj = "live" => ~Refused
           /\ \E ext \in {{}, {"ext"}} :
                LET fence == IF es.obj = "live" /\ es.pending.acq # 0 THEN lock_surface_commit(i) ELSE {}
                    c == [id |-> i, buffer |-> es.buffer, sync |-> IF es.obj = "live" THEN sync ELSE NoSync,
                          locks |-> fence \cup ext]
                    q == IF fence # {} THEN wlr_drm_syncobj_timeline_waiter_init(es, i) ELSE es
                    s == [q EXCEPT !.n = i, !.buffer = "no",
                                   !.pending = IF sync.committed THEN NoSync ELSE @,
                                   !.needs = IF c.sync.acq # 0 THEN @ \cup {i} ELSE @]
                IN es' = IF c.locks # {} \/ s.cached # <<>>
                         THEN [s EXCEPT !.cached = Append(@, c)]
                         ELSE surface_apply_state(s, c)

surface_handle_resource_destroy ==
  /\ es.obj \in {"live", "inert"}
  /\ es' = [IF es.obj = "live" THEN surface_destroy(es) ELSE es EXCEPT
              !.obj = IF es.surf THEN "none" ELSE "gone"]

timeline_handle_resource_destroy ==
  /\ es.res
  /\ es' = [wlr_drm_syncobj_timeline_unref(es, 1) EXCEPT !.res = FALSE]

(* The wl_surface goes: what shows it lets go first, then every waiting     *)
(* commit unlocks its state, then the addon is destroyed.                   *)
SurfaceDestroy ==
  /\ es.surf
  /\ LET s == [wlr_drm_syncobj_timeline_unref(es, es.wait) EXCEPT !.wait = 0, !.consumer = "gone"]
         order == SelectSeq([k \in 1..Len(s.cached) |-> s.cached[k].id], LAMBDA i : i \in s.waits)
         t == FoldLeft(surface_commit_destroy, s, order)
         u == IF t.obj = "live" THEN surface_destroy(t) ELSE t
     IN es' = [u EXCEPT !.surf = FALSE, !.cached = <<>>, !.shown = 0, !.buffer = "no",
                        !.obj = IF @ = "live" THEN "inert" ELSE "gone"]

---------------------------------------------------------------------------
(* Events. *)

(* The client's GPU: an acquire point materializes. *)
Materialize ==
  \E i \in es.needs \ es.ready : es' = [es EXCEPT !.ready = @ \cup {i}]

surface_commit_handle_waiter_ready ==
  \E i \in es.waits \cap es.ready : es' = surface_commit_destroy(es, i)

ExtUnlock ==
  \E k \in 1..Len(es.cached) :
    /\ "ext" \in es.cached[k].locks
    /\ es' = surface_unlock_cached(es, es.cached[k].id, "ext")

(* An output samples the buffer: a release point of the output's timeline   *)
(* is added, or the fences of the DMA-BUF.                                  *)
Sampled(s, j, dmabuf) ==
  [s EXCEPT !.job[j] = [st |-> IF dmabuf THEN "running" ELSE "drawn", of |-> s.shown, dmabuf |-> dmabuf]]

wlr_linux_drm_syncobj_v1_state_add_release_point(s, j, ok) ==
  IF s.obj # "live" \/ s.current.merger = 0 THEN s
  ELSE wlr_drm_syncobj_merger_add(s, s.current.merger, j, ok)

wlr_linux_drm_syncobj_v1_state_add_release_from_implicit_sync(s, j, ok) ==
  IF s.obj # "live" \/ s.current.merger = 0 THEN s
  ELSE wlr_drm_syncobj_merger_add_dmabuf(s, s.current.merger, j, ok)

MaySample(j) ==
  /\ es.surf /\ es.consumer = "scene" /\ es.shown # 0
  /\ es.job[j].st = "none" /\ \A k \in 1..(j - 1) : es.job[k].st # "none"

handle_scene_buffer_output_sample ==
  \E j \in EsJob, ok \in BOOLEAN :
    /\ MaySample(j)
    /\ es' = wlr_linux_drm_syncobj_v1_state_add_release_point(Sampled(es, j, FALSE), j, ok)

(* A compositor that draws the buffer by itself with implicit fences. *)
SampleImplicit ==
  \E j \in EsJob, ok \in BOOLEAN :
    /\ MaySample(j)
    /\ es' = wlr_linux_drm_syncobj_v1_state_add_release_from_implicit_sync(Sampled(es, j, TRUE), j, ok)

Drawn(j) == es.job[j].st = "drawn" /\ \A k \in 1..(j - 1) : es.job[k].st # "drawn"

(* The commit of the output that samples is made, or fails, which leaves    *)
(* its point to a later one; scene_output_destroy signals all that remain.  *)
Submit == \E j \in EsJob : Drawn(j) /\ es' = [es EXCEPT !.job[j].st = "running"]

CommitFails == \E j \in EsJob : Drawn(j) /\ es' = [es EXCEPT !.job[j].st = "failed"]

wlr_scene_output_destroy ==
  /\ \E j \in EsJob : es.job[j].st \in {"drawn", "failed"}
  /\ LET after == [st \in {"drawn", "failed"} |-> IF st = "drawn" THEN "running" ELSE "void"]
     IN es' = [es EXCEPT !.job = [j \in EsJob |-> IF @[j].st \in DOMAIN after
                                                 THEN [@[j] EXCEPT !.st = after[@]] ELSE @[j]]]

JobDone ==
  \E j \in EsJob :
    /\ es.job[j].st = "running"
    /\ es.job[j].dmabuf \/ \A k \in 1..(j - 1) : es.job[k].st # "running" \/ es.job[k].dmabuf
    /\ es' = [es EXCEPT !.job[j].st = "done"]

export_waiter_handle_ready ==
  \E w \in es.waiter, ok \in BOOLEAN :
    /\ w.plane = 0 /\ FencedBy(es, w.job) # {}
    /\ es' = wlr_drm_syncobj_merger_unref(
               merger_add_exportable([es EXCEPT !.waiter = @ \ {w}], w.merger, w.job, ok), w.merger)

poll_waiter_handle_done ==
  \E w \in es.waiter :
    /\ w.plane # 0 /\ es.job[w.job].st = "done"
    /\ es' = wlr_drm_syncobj_merger_unref([es EXCEPT !.waiter = @ \ {w}], w.merger)

(* The last user of a buffer unlocks it: every listener lets go. *)
release_signaller_handle_buffer_release ==
  \E i \in EsId :
    /\ es.signaller[i] > 0
    /\ es' = FoldLeft(LAMBDA s, k : wlr_drm_syncobj_merger_unref([s EXCEPT !.signaller[i] = @ - 1], i),
                      es, [k \in 1..es.signaller[i] |-> k])

EsInit == \E c \in {"scene", "cursors"} : es = EsState(c)

EsNext ==
  \/ manager_handle_get_surface \/ surface_handle_set_acquire_point
  \/ surface_handle_set_release_point \/ Attach \/ surface_handle_client_commit
  \/ surface_handle_resource_destroy \/ timeline_handle_resource_destroy \/ SurfaceDestroy
  \/ Materialize \/ surface_commit_handle_waiter_ready \/ ExtUnlock
  \/ handle_scene_buffer_output_sample \/ SampleImplicit \/ Submit \/ CommitFails \/ wlr_scene_output_destroy
  \/ JobDone \/ export_waiter_handle_ready \/ poll_waiter_handle_done
  \/ release_signaller_handle_buffer_release

---------------------------------------------------------------------------
(* The timeline and each merger live exactly as long as something refers to *)
(* them, and a merger signals its release point once, when it goes.         *)
SyncRefsCounted ==
  LET one(b) == IF b THEN 1 ELSE 0
      points(x) == one(x.acq # 0) + one(x.rel # 0)
  IN /\ es.refs = one(es.res) + points(es.pending) + points(es.current) + one(es.wait # 0)
                  + FoldLeft(LAMBDA k, c : k + points(c.sync), 0, es.cached)
                  + Cardinality({i \in EsId : es.merger[i].n_ref > 0})
     /\ \A i \in EsId :
          LET m == es.merger[i]
          IN /\ m.n_ref = one(es.current.merger = i) + es.signaller[i]
                          + Cardinality({w \in es.waiter : w.merger = i})
             /\ m.signalled = one(m.made /\ m.n_ref = 0)

(* The client sees a release point signalled when the fences merged into it *)
(* are.  By then its buffer is neither on screen nor held nor read by the   *)
(* GPU, unless a fence could not be had or the client destroyed the object  *)
(* while the buffer was on screen.                                          *)
Released(i) == es.merger[i].signalled > 0 /\ \A j \in es.merger[i].fences : es.job[j].st \in {"done", "void"}

NotReleasedEarly ==
  \A i \in EsId \ es.orphan :
    Released(i) => /\ es.shown # i /\ es.signaller[i] = 0
                   /\ \A j \in EsJob \ es.unfenced :
                        es.job[j].of = i => es.job[j].st \notin {"drawn", "running"}

(* A buffer is shown only once its acquire point has materialized, and the  *)
(* scene's passes wait for that point, unless the object went first; and a  *)
(* commit that is held for its point has a waiter that will let it go.      *)
AcquireAwaited ==
  /\ es.shown \in es.needs =>
       /\ es.shown \in es.ready
       /\ es.consumer = "scene" => es.wait = es.shown \/ es.shown \in es.orphan \cup es.lost
  /\ \A k \in 1..Len(es.cached) : "fence" \in es.cached[k].locks => es.cached[k].id \in es.waits

ExplicitSyncSound == SyncRefsCounted /\ NotReleasedEarly /\ AcquireAwaited
=============================================================================
