--------------------------- MODULE NestedWayland ----------------------------
(***************************************************************************)
(* An output of the Wayland backend (backend/wayland/{output,backend}.c): a *)
(* window of the host compositor.  Requests reach the host in order and at  *)
(* once; what it answers waits in one queue until the backend dispatches    *)
(* it.  A host buffer (wl_buffer) is reused only once the host released it; *)
(* unmapping ignores configures until the host has seen the unmap.          *)
(***************************************************************************)
EXTENDS Naturals, Sequences, FiniteSets

CONSTANTS NstBuffer,      \* wlr_buffers the compositor renders into
          MaxNstWl,       \* bound: wl_buffers
          MaxNstSeq,      \* bound: commits
          MaxNstSerial,   \* bound: configures
          MaxNstQueue     \* bound: events in flight

(* own: the window belongs to the backend; alive, enabled, init, conf,      *)
(* unmap: of the output; serial: configure_serial, 0 without one; fcb:      *)
(* frame_callback, ncb: how many there were; cbs: those that exist; owed: frame_pending;   *)
(* fbs: presentation feedbacks; seq: commit_seq; sync: the surface has      *)
(* explicit synchronization; wl: the wl_buffers; dropped: buffers their     *)
(* owner let go of; locks: the locks the backend holds.  Of the host: pend, *)
(* cur: the attached and the committed wl_buffer of each surface; use: what *)
(* it may read; hconf: serials it sent since the last initial commit, acked *)
(* one of them; hcb, hfb: callbacks and feedbacks to answer; q: events in   *)
(* flight.  Ghosts: err, a protocol error; hang, a wait nothing can end;    *)
(* freed, the output was destroyed under its own commit; told, the answers  *)
(* to each commit; late, wl_buffers in use again while a release is on its  *)
(* way; stray, wl_buffers of commits that failed after attaching.           *)
(* slice: a bound, which of the two a behaviour explores: windows (the      *)
(* handshake, frames and feedback) or buffers (layers, cursor, explicit     *)
(* synchronization).                                                        *)
VARIABLE nst

NstSurface == {"main", "layer", "cursor"}

(* Attaching no buffer; 0 is attaching nothing.                             *)
Null == MaxNstWl + 1

NstState(own, slice) ==
  [own |-> own, slice |-> slice, alive |-> TRUE, enabled |-> FALSE, init |-> FALSE, conf |-> FALSE,
   unmap |-> FALSE, serial |-> 0, fcb |-> 0, ncb |-> 0, cbs |-> {}, owed |-> FALSE, fbs |-> {}, seq |-> 0,
   sync |-> FALSE, layer |-> FALSE, wl |-> <<>>, dropped |-> {}, locks |-> [b \in NstBuffer |-> 0],
   pend |-> [x \in NstSurface |-> 0], cur |-> [x \in NstSurface |-> 0], use |-> {},
   hinit |-> FALSE, hconf |-> {}, acked |-> FALSE, nserial |-> 0, hcb |-> {}, hfb |-> {},
   q |-> <<>>, err |-> FALSE, hang |-> FALSE, freed |-> FALSE,
   told |-> [i \in 1..MaxNstSeq |-> 0], late |-> {}, stray |-> {}]

NstInit == nst \in {NstState(TRUE, "windows"), NstState(FALSE, "buffers")}

(* A wl_buffer: the buffer it shows, or "gone" once destroyed; released;    *)
(* waiter: has_drm_syncobj_waiter.                                          *)
NstWl(s) == {i \in DOMAIN s.wl : s.wl[i].buf # "gone"}

Running(s) == ~s.hang /\ ~s.freed /\ ~s.err

Push(s, ev) == [s EXCEPT !.q = Append(@, ev)]

-----------------------------------------------------------------------------
(* Buffers.                                                                 *)

(* destroy_wl_buffer, of each of these.                                     *)
destroy_wl_buffer(s, ids) ==
  [s EXCEPT !.locks = [b \in NstBuffer |->
               @[b] - Cardinality({i \in ids : s.wl[i].buf = b /\ ~s.wl[i].released})],
            !.wl = [i \in DOMAIN @ |->
                      IF i \in ids THEN [@[i] EXCEPT !.buf = "gone", !.waiter = FALSE] ELSE @[i]],
            !.use = @ \ ids]

(* The destroy signal of a buffer (buffer_handle_buffer_destroy).           *)
BufferDestroyed(s, b) ==
  [destroy_wl_buffer(s, {i \in NstWl(s) : s.wl[i].buf = b}) EXCEPT !.dropped = @ \ {b}]

(* wlr_buffer_unlock: the last lock of a buffer its owner dropped frees it. *)
unlock(s, b) ==
  LET t == [s EXCEPT !.locks[b] = @ - 1]
  IN IF t.locks[b] = 0 /\ b \in t.dropped THEN BufferDestroyed(t, b) ELSE t

(* buffer_release: released is set first, for the unlock may destroy it.    *)
buffer_release(s, i) ==
  IF s.wl[i].released THEN s ELSE unlock([s EXCEPT !.wl[i].released = TRUE], s.wl[i].buf)

(* Takes the event for the release point.                                   *)
release_unwaited(s, i) == buffer_release(s, i)

buffer_handle_release(s, i) == IF s.wl[i].waiter THEN s ELSE buffer_release(s, i)

InFlight(s, i) == \E k \in DOMAIN s.q : s.q[k] = <<"release", i>>

(* create_wl_buffer (import_dmabuf, import_shm).                            *)
create_wl_buffer(s, b) ==
  IF Len(s.wl) = MaxNstWl THEN {}
  ELSE {[s EXCEPT !.wl = Append(@, [buf |-> b, released |-> FALSE, waiter |-> FALSE]),
                  !.locks[b] = @ + 1]}

reusable_by_buffer(s, b) == {i \in NstWl(s) : s.wl[i].buf = b /\ ~s.wl[i].waiter}

Reusable(s, b) == {i \in NstWl(s) : s.wl[i].buf = b /\ s.wl[i].released}

(* Any wl_buffer of the buffer.                                             *)
(* get_or_create_wl_buffer: the states it may end in with the wl_buffer, 0  *)
(* when it failed.                                                          *)
get_or_create_wl_buffer(s, b) ==
  IF Reusable(s, b) # {}
    THEN {[s |-> [s EXCEPT !.wl[i].released = FALSE, !.locks[b] = @ + 1,
                           !.late = IF InFlight(s, i) THEN @ \cup {i} ELSE @], i |-> i] :
            i \in Reusable(s, b)}
    ELSE {[s |-> t, i |-> Len(t.wl)] : t \in create_wl_buffer(s, b)} \cup {[s |-> s, i |-> 0]}

-----------------------------------------------------------------------------
(* Host side of the requests.                                               *)

Attach(s, x, i) == [s EXCEPT !.pend[x] = i]

(* wl_surface.commit: what was attached since the last one takes effect.    *)
HostCommit(s, x) ==
  LET i == s.pend[x]
  IN IF i = 0 THEN s
     ELSE [s EXCEPT !.pend[x] = 0, !.cur[x] = IF i = Null THEN 0 ELSE i,
                    !.use = IF i = Null THEN @ ELSE @ \cup {i}, !.stray = @ \ {i}]

HostConfigure(s) ==
  Push([s EXCEPT !.nserial = @ + 1, !.hconf = @ \cup {s.nserial + 1}],
       <<"configure", s.nserial + 1>>)

-----------------------------------------------------------------------------
(* output_commit.                                                           *)

(* Disabling: the unmap is confirmed by the sync event; what was            *)
(* configured before it is void.                                            *)
Disable(s) ==
  LET t == [s EXCEPT !.init = FALSE, !.conf = FALSE, !.serial = 0, !.unmap = s.own,
                     !.pend["main"] = 0, !.cur["main"] = 0, !.hinit = FALSE, !.hconf = {},
                     !.acked = FALSE]
  IN IF s.own THEN Push(t, <<"done">>) ELSE t

(* Does not wait for the host to see the unmap.                             *)
(* Counts configures from before the unmap.                                 *)
configure_always(s, n) == [s EXCEPT !.conf = TRUE, !.serial = n]

(* xdg_surface_handle_configure: configures that precede the unmap do not   *)
(* count.                                                                   *)
xdg_surface_handle_configure(s, n) ==
  IF s.unmap THEN s ELSE [s EXCEPT !.conf = TRUE, !.serial = n]

(* xdg_toplevel_handle_close destroys the output.                           *)
output_destroy(s) ==
  [s EXCEPT !.alive = FALSE, !.enabled = FALSE, !.fcb = 0, !.cbs = {}, !.fbs = {},
            !.unmap = FALSE, !.owed = FALSE, !.serial = 0, !.layer = FALSE, !.sync = FALSE,
            !.hinit = FALSE, !.hconf = {}, !.hcb = {}, !.hfb = {},
            !.pend = [x \in NstSurface |-> 0], !.cur = [x \in NstSurface |-> 0]]

Window(s) == {k \in DOMAIN s.q : s.q[k][1] \in {"configure", "close"}}

Without(q, ks) ==
  LET keep == {k \in DOMAIN q : k \notin ks}
  IN [n \in 1..Cardinality(keep) |->
        q[CHOOSE k \in keep : Cardinality({j \in keep : j <= k}) = n]]

(* The wait for the first configure dispatches the window's own events and  *)
(* leaves the others: a close destroys the output under the commit, and     *)
(* while the unmap is unconfirmed nothing can end the wait.                 *)
RECURSIVE WaitConfigured(_)
WaitConfigured(s) ==
  IF Window(s) = {} THEN [s EXCEPT !.hang = TRUE]
  ELSE LET k == CHOOSE j \in Window(s) : \A m \in Window(s) : j <= m
           t == [s EXCEPT !.q = Without(@, {k})]
       IN IF s.q[k][1] = "close" THEN [output_destroy(t) EXCEPT !.freed = TRUE]
          ELSE LET u == xdg_surface_handle_configure(t, s.q[k][2])
               IN IF u.conf THEN u ELSE WaitConfigured(u)

(* The initial commit.                                                      *)
Initialize(s) ==
  IF ~s.own \/ s.init THEN s
  ELSE WaitConfigured(HostConfigure([HostCommit(s, "main") EXCEPT !.init = TRUE, !.hinit = TRUE]))

(* output_test: release points need a buffer.                               *)
output_test(b, explicit) == explicit => b # "none"

(* get_or_create_drm_syncobj_timeline may fail to import the timeline.      *)
get_or_create_drm_syncobj_timeline == BOOLEAN

(* The release point of a buffer, and the waiter for it.                    *)
SetPoints(s, i) ==
  {[s |-> IF ok THEN [s EXCEPT !.sync = TRUE, !.wl[i].waiter = TRUE]
          ELSE [s EXCEPT !.stray = @ \cup {i}], ok |-> ok] :
     ok \in get_or_create_drm_syncobj_timeline}

(* Attaching a buffer.  The wl_buffer of a commit that fails from here on   *)
(* is neither shown nor released.                                           *)
AttachBuffer(s, b, explicit) ==
  UNION {IF r.i = 0 THEN {[s |-> r.s, ok |-> FALSE]}
         ELSE LET t == Attach(r.s, "main", r.i)
              IN IF explicit THEN SetPoints(t, r.i)
                 ELSE {[s |-> [t EXCEPT !.sync = FALSE], ok |-> TRUE]} :
         r \in get_or_create_wl_buffer(s, b)}

(* output_layer_commit and output_layer_unmap, for a layer in its own       *)
(* sub-surface; lay is "keep", "off" or a buffer.                           *)
commit_layers(s, lay) ==
  CASE lay = "keep" -> {[s |-> s, ok |-> TRUE]}
    [] lay = "off" ->
         {[s |-> IF s.layer THEN [HostCommit(Attach(s, "layer", Null), "layer") EXCEPT !.layer = FALSE]
                 ELSE s, ok |-> TRUE]}
    [] OTHER ->
         {IF r.i = 0 THEN [s |-> r.s, ok |-> FALSE]
          ELSE [s |-> [HostCommit(Attach(r.s, "layer", r.i), "layer") EXCEPT !.layer = TRUE],
                ok |-> TRUE] :
          r \in get_or_create_wl_buffer(s, lay)}

NextCb(s) == s.ncb + 1

(* Leaves the earlier callback alone.                                       *)
new_callback_only(s) ==
  [s EXCEPT !.ncb = @ + 1, !.fcb = NextCb(s), !.cbs = @ \cup {NextCb(s)}, !.hcb = @ \cup {NextCb(s)}]

(* A new frame callback replaces the one that is outstanding.               *)
NewCallback(s) ==
  [s EXCEPT !.ncb = @ + 1, !.fcb = NextCb(s), !.cbs = (@ \ {s.fcb}) \cup {NextCb(s)}, !.hcb = @ \cup {NextCb(s)}]

(* Acknowledging an unknown configure, or a first buffer before one, is an  *)
(* error to the host.                                                       *)
AckAndCommit(s) ==
  LET acked == s.acked \/ s.serial # 0
      bad == s.own /\ (\/ s.serial # 0 /\ s.serial \notin s.hconf
                       \/ s.pend["main"] \notin {0, Null} /\ ~acked)
  IN [HostCommit(s, "main") EXCEPT !.serial = 0, !.acked = acked, !.err = bad]

(* The rest: callback, feedback (its allocation may fail, and the host may  *)
(* not know it), acknowledgement and commit.                                *)
Finish(s, buffer) ==
  LET t == AckAndCommit(NewCallback(s))
      done == [t EXCEPT !.enabled = TRUE, !.seq = @ + 1, !.owed = @ \/ buffer]
  IN IF s.slice = "buffers" THEN {done}
     ELSE {[done EXCEPT !.fbs = @ \cup {s.seq + 1}, !.hfb = @ \cup {s.seq + 1}],
           [done EXCEPT !.told[s.seq + 1] = @ + 1],
           t}

output_commit_enabled(b, explicit, lay) ==
  /\ nst.alive /\ Running(nst) /\ nst.seq < MaxNstSeq /\ nst.ncb < MaxNstSeq
  /\ nst.nserial < MaxNstSerial /\ Len(nst.q) <= MaxNstQueue
  /\ b # "none" \/ nst.enabled
  /\ output_test(b, explicit)
  /\ nst.slice = "windows" => ~explicit /\ lay = "keep"
  /\ LET s == Initialize(nst)
     IN IF ~Running(s) THEN nst' = s
        ELSE \E a \in IF b = "none" THEN {[s |-> [s EXCEPT !.sync = FALSE], ok |-> TRUE]}
                      ELSE AttachBuffer(s, b, explicit) :
               IF ~a.ok THEN nst' = a.s
               ELSE \E l \in commit_layers(a.s, lay) :
                      IF ~l.ok
                        THEN nst' = [l.s EXCEPT !.stray = IF b = "none" THEN @
                                                           ELSE @ \cup {a.s.pend["main"]}]
                        ELSE \E t \in Finish(l.s, b # "none") : nst' = t

output_commit_disabled ==
  /\ nst.alive /\ nst.enabled /\ Running(nst) /\ nst.seq < MaxNstSeq /\ Len(nst.q) < MaxNstQueue
  /\ nst' = [Disable(nst) EXCEPT !.enabled = FALSE, !.seq = @ + 1]

(* output_set_cursor, with a buffer or none.                                *)
output_set_cursor(b) ==
  /\ nst.alive /\ Running(nst) /\ nst.slice = "buffers"
  /\ IF b = "none" THEN nst.cur["cursor"] # 0 /\ nst' = HostCommit(Attach(nst, "cursor", Null), "cursor")
     ELSE \E r \in get_or_create_wl_buffer(nst, b) :
            nst' = IF r.i = 0 THEN r.s ELSE HostCommit(Attach(r.s, "cursor", r.i), "cursor")

-----------------------------------------------------------------------------
(* The compositor and the host.                                             *)

(* The owner of a buffer drops it; it dies with the last lock.              *)
DropBuffer(b) ==
  /\ Running(nst) /\ nst.slice = "buffers" /\ b \notin nst.dropped /\ \E i \in NstWl(nst) : nst.wl[i].buf = b
  /\ nst' = IF nst.locks[b] = 0 THEN BufferDestroyed(nst, b)
            ELSE [nst EXCEPT !.dropped = @ \cup {b}]

(* backend_destroy: outputs first, then what is left of the buffers.        *)
backend_destroy ==
  /\ Running(nst) /\ (nst.alive \/ NstWl(nst) # {})
  /\ LET s == output_destroy(nst)
     IN nst' = [destroy_wl_buffer(s, NstWl(s)) EXCEPT
                  !.dropped = {}, !.stray = {}, !.late = {}, !.q = <<>>]

(* The host is done with a buffer: it signals the release point, or sends   *)
(* the event.                                                               *)
HostRelease(i) ==
  /\ Running(nst) /\ i \in nst.use /\ Len(nst.q) < MaxNstQueue
  /\ nst' = Push([nst EXCEPT !.use = @ \ {i}], <<IF nst.wl[i].waiter THEN "ready" ELSE "release", i>>)

(* With a release point the event means nothing and may come at any time.   *)
HostEarlyRelease(i) ==
  /\ Running(nst) /\ i \in nst.use /\ nst.wl[i].waiter
  /\ ~InFlight(nst, i) /\ Len(nst.q) < MaxNstQueue
  /\ nst' = Push(nst, <<"release", i>>)

HostResize ==
  /\ Running(nst) /\ nst.slice = "windows" /\ nst.alive /\ nst.own /\ nst.hinit
  /\ nst.nserial < MaxNstSerial /\ Len(nst.q) <= MaxNstQueue
  /\ nst' = HostConfigure(nst)

HostClose ==
  /\ Running(nst) /\ nst.slice = "windows" /\ nst.alive /\ nst.own /\ Len(nst.q) < MaxNstQueue
  /\ \A k \in DOMAIN nst.q : nst.q[k][1] # "close"
  /\ nst' = Push(nst, <<"close">>)

HostFrame(n) ==
  /\ Running(nst) /\ nst.slice = "windows" /\ n \in nst.hcb /\ nst.cur["main"] # 0 /\ Len(nst.q) < MaxNstQueue
  /\ nst' = Push([nst EXCEPT !.hcb = {c \in @ : c > n}], <<"frame", n>>)

HostPresented(n) ==
  /\ Running(nst) /\ nst.slice = "windows" /\ n \in nst.hfb /\ Len(nst.q) < MaxNstQueue
  /\ nst' = Push([nst EXCEPT !.hfb = @ \ {n}], <<"presented", n>>)

(* presentation_feedback_handle_presented and _discarded.                   *)
presentation_feedback_done(s, n) ==
  IF n \notin s.fbs THEN s
  ELSE [s EXCEPT !.fbs = @ \ {n}, !.told[n] = @ + 1]

(* surface_frame_callback: events of destroyed callbacks are discarded.     *)
surface_frame_callback(s, n) ==
  IF n \notin s.cbs THEN s
  ELSE [s EXCEPT !.cbs = @ \ {n}, !.owed = FALSE, !.err = (s.fcb # n), !.fcb = 0]

(* wl_display_dispatch: one event.                                          *)
NstDispatch ==
  /\ Running(nst) /\ nst.q # <<>>
  /\ LET ev == Head(nst.q)
         s == [nst EXCEPT !.q = Tail(@)]
     IN nst' =
          CASE ev[1] = "configure" -> IF s.alive THEN xdg_surface_handle_configure(s, ev[2]) ELSE s
            [] ev[1] = "close" -> IF s.alive THEN output_destroy(s) ELSE s
            [] ev[1] = "done" -> [s EXCEPT !.unmap = FALSE]
            [] ev[1] = "frame" -> surface_frame_callback(s, ev[2])
            [] ev[1] = "presented" -> presentation_feedback_done(s, ev[2])
            [] ev[1] = "release" -> IF ev[2] \in NstWl(s) THEN buffer_handle_release(s, ev[2]) ELSE s
            [] ev[1] = "ready" ->
                 IF ev[2] \in NstWl(s) /\ s.wl[ev[2]].waiter
                   THEN buffer_release([s EXCEPT !.wl[ev[2]].waiter = FALSE], ev[2]) ELSE s

NstNext ==
  \/ /\ nst.alive /\ nst.seq < MaxNstSeq /\ nst.ncb < MaxNstSeq /\ nst.nserial < MaxNstSerial
     /\ \E b \in NstBuffer \cup {"none"} :
          IF nst.slice = "windows" THEN output_commit_enabled(b, FALSE, "keep")
          ELSE \E explicit \in BOOLEAN, lay \in NstBuffer \cup {"keep", "off"} :
                 output_commit_enabled(b, explicit, lay)
  \/ output_commit_disabled
  \/ \E b \in NstBuffer \cup {"none"} : output_set_cursor(b)
  \/ \E b \in NstBuffer : DropBuffer(b)
  \/ backend_destroy
  \/ \E i \in nst.use : HostRelease(i) \/ HostEarlyRelease(i)
  \/ HostResize \/ HostClose
  \/ \E n \in nst.hcb : HostFrame(n)
  \/ \E n \in nst.hfb : HostPresented(n)
  \/ NstDispatch

-----------------------------------------------------------------------------
(* What the host may still read is not given back to the renderer, unless a *)
(* release of an earlier use was on its way when the buffer was taken again *)
(* (buffer_handle_release).                                                 *)
HostReadsLocked == \A i \in nst.use \ nst.late : i \in NstWl(nst) /\ ~nst.wl[i].released

(* Locks match the wl_buffers that are not released: none is given back     *)
(* twice, none is kept.                                                     *)
HostLocksCounted ==
  \A b \in NstBuffer :
     nst.locks[b] = Cardinality({i \in NstWl(nst) : nst.wl[i].buf = b /\ ~nst.wl[i].released})

(* A wl_buffer is released one day: the host has it, will show it or has    *)
(* sent the release, unless its commit failed half way.                     *)
HostReleasesAll ==
  \A i \in NstWl(nst) :
     ~nst.wl[i].released =>
        \/ i \in nst.use \cup nst.stray \cup nst.late
        \/ \E k \in DOMAIN nst.q : nst.q[k] \in {<<"release", i>>, <<"ready", i>>}
        \/ ~nst.alive

(* The host is never sent a stale acknowledgement or a buffer before the    *)
(* first one, frame callbacks are the one the output waits for, every       *)
(* commit is answered once, and an output that waits for a frame has asked  *)
(* for it.  The wait for the first configure ends, unless the output is     *)
(* enabled again before the host has confirmed the unmap: the configure is  *)
(* then ignored and the confirmation is in the queue that is not read.      *)
HostProtocol ==
  /\ ~nst.err
  /\ \A n \in DOMAIN nst.told : nst.told[n] <= 1
  /\ nst.hang => nst.unmap
  /\ nst.owed /\ nst.enabled /\ Running(nst) => nst.fcb # 0 /\ nst.fcb \in nst.cbs

NestedOutputSound == HostReadsLocked /\ HostLocksCounted /\ HostReleasesAll /\ HostProtocol

-----------------------------------------------------------------------------
(***************************************************************************)
(* Input devices of the Wayland backend (backend/wayland/{seat,pointer,     *)
(* tablet_v2,backend}.c): the seats of the host compositor offer and drop   *)
(* devices.  A seat's pointer is one device per output, so that motion is   *)
(* relative to it; touch points and the state of a tablet tool are kept     *)
(* until the event that completes them.                                     *)
(***************************************************************************)
CONSTANTS NsSeat,         \* seats of the host
          NsOutput,       \* outputs of the backend
          NsId,           \* key codes and touch ids
          TouchCap,       \* size of wlr_wl_touch_points.ids
          MaxNsEvents     \* bound: pointer and tablet events

(* slice: a bound, the devices a behaviour explores; started: of the        *)
(* backend; outs: the outputs that exist; wl, ptrs, active: of each seat,   *)
(* its wl_pointer, the outputs it has a pointer for, the active pointer's   *)
(* output; cursor, enter: of each output, cursor.pointer's seat and         *)
(* enter_serial; fingers: of each pointer.  kbd, touch: the host devices,   *)
(* and ready: those initialised here; keys, points: what is pressed, the    *)
(* touch points; has, tool: the tablet tool and what it reported since the  *)
(* last frame, on: its output; pad, ring: the pad and its ring's reports.   *)
(* Of the host: hover, gest: the output under each seat's pointer, the      *)
(* fingers of its gesture; hkeys, hpoints; hprox, htip, hring.  Of the      *)
(* compositor: seen, rung: the proximity and tip of the tool, a finger on   *)
(* the ring.  Ghosts: odd, an event that does not fit; raw, a device        *)
(* finished that was never initialised; kept, touch points that outlived    *)
(* their device; lost, a tool that came and went in one frame; dangling,    *)
(* the tool used an output that is gone.                                    *)
VARIABLE nse

NseState(slice, started) ==
  [slice |-> slice, started |-> started, outs |-> {}, wl |-> {},
   ptrs |-> [s \in NsSeat |-> {}], active |-> [s \in NsSeat |-> "none"],
   cursor |-> [o \in NsOutput |-> "none"], enter |-> [o \in NsOutput |-> 0],
   fingers |-> [p \in NsSeat \X NsOutput |-> 0],
   hover |-> [s \in NsSeat |-> "none"], gest |-> [s \in NsSeat |-> 0],
   kbd |-> FALSE, touch |-> FALSE, ready |-> {}, keys |-> {}, hkeys |-> {}, focus |-> FALSE,
   points |-> <<>>, hpoints |-> {}, has |-> FALSE, tool |-> {}, on |-> "none", seen |-> {},
   hprox |-> FALSE, htip |-> FALSE, pad |-> FALSE, ring |-> {}, hring |-> FALSE, rung |-> FALSE,
   odd |-> FALSE, raw |-> FALSE, kept |-> {}, lost |-> FALSE, dangling |-> FALSE, n |-> 0]

NseInit ==
  nse \in {NseState("pointers", TRUE), NseState("devices", FALSE), NseState("devices", TRUE),
           NseState("tablet", TRUE), NseState("pad", TRUE)}

On(slice) == nse.slice = slice

Counted == nse.n < MaxNsEvents

Tick(s) == [s EXCEPT !.n = @ + 1]

-----------------------------------------------------------------------------
(* Pointers.                                                                *)

(* Leaves the seat's active pointer alone.                                  *)
destroy_keeps_active(s, w, o) ==
  [s EXCEPT !.ptrs[w] = @ \ {o}, !.cursor[o] = IF @ = w THEN "none" ELSE @]

destroy_pointer(s, w, o) ==
  [s EXCEPT !.ptrs[w] = @ \ {o}, !.cursor[o] = IF @ = w THEN "none" ELSE @,
            !.active[w] = IF @ = o THEN "none" ELSE @, !.fingers[<<w, o>>] = 0]

create_pointer(pointers, o) == pointers \cup {o}

(* output_start gives every seat that has a pointer one for the output.     *)
output_start(o) ==
  /\ o \notin nse.outs /\ nse.started /\ (On("pointers") \/ On("tablet"))
  /\ nse' = [nse EXCEPT !.outs = @ \cup {o},
               !.ptrs = [w \in NsSeat |-> IF w \in nse.wl THEN create_pointer(@[w], o) ELSE @[w]]]

(* The output is destroyed (pointer_output_destroy).                        *)
OutputGone(o) ==
  /\ o \in nse.outs
  /\ LET gone == [w \in NsSeat |-> destroy_pointer(nse, w, o)]
     IN nse' = [nse EXCEPT !.outs = @ \ {o}, !.cursor[o] = "none", !.enter[o] = 0,
                  !.ptrs = [w \in NsSeat |-> gone[w].ptrs[w]],
                  !.active = [w \in NsSeat |-> gone[w].active[w]],
                  !.fingers = [p \in DOMAIN @ |-> IF p[2] = o THEN 0 ELSE @[p]],
                  !.hover = [w \in NsSeat |-> IF @[w] = o THEN "none" ELSE @[w]],
                  !.gest = [w \in NsSeat |-> IF nse.hover[w] = o THEN 0 ELSE @[w]]]

init_seat_pointer(s, w) ==
  [s EXCEPT !.wl = @ \cup {w}, !.ptrs[w] = s.outs]

RECURSIVE NseDestroyAll(_, _, _)
NseDestroyAll(s, w, os) ==
  IF os = {} THEN s
  ELSE LET o == CHOOSE x \in os : TRUE IN NseDestroyAll(destroy_pointer(s, w, o), w, os \ {o})

finish_seat_pointer(s, w) ==
  [NseDestroyAll(s, w, s.ptrs[w]) EXCEPT !.wl = @ \ {w}, !.active[w] = "none", !.hover[w] = "none", !.gest[w] = 0]

(* The pointer half of seat_handle_capabilities, and destroy_wl_seat.       *)
PointerCapability(w) ==
  /\ On("pointers") /\ Counted
  /\ nse' = Tick(IF w \in nse.wl THEN finish_seat_pointer(nse, w) ELSE init_seat_pointer(nse, w))

(* update_wl_output_cursor: its assertions.                                 *)
update_wl_output_cursor(s, o) ==
  [s EXCEPT !.odd = @ \/ (s.cursor[o] # "none" /\ (s.enter[o] = 0 \/ o \notin s.ptrs[s.cursor[o]]))]

(* pointer_handle_enter: the first seat's pointer rules the output's cursor.*)
pointer_handle_enter(w, o) ==
  /\ On("pointers") /\ w \in nse.wl /\ o \in nse.outs /\ nse.hover[w] = "none" /\ Counted
  /\ LET s == [nse EXCEPT !.active[w] = IF o \in nse.ptrs[w] THEN o ELSE "none", !.hover[w] = o]
     IN nse' = Tick(IF s.cursor[o] \notin {"none", w} THEN s
                    ELSE update_wl_output_cursor([s EXCEPT !.enter[o] = 1, !.cursor[o] = w], o))

(* pointer_handle_leave: the cursor's pointer is compared with the active   *)
(* pointer, which is none by then.                                          *)
pointer_handle_leave(w) ==
  /\ On("pointers") /\ nse.hover[w] # "none" /\ Counted
  /\ LET o == nse.hover[w]
         s == [nse EXCEPT !.active[w] = IF @ = o THEN "none" ELSE @, !.hover[w] = "none", !.gest[w] = 0]
         same == \/ s.cursor[o] = "none" /\ s.active[w] = "none"
                 \/ s.cursor[o] = w /\ s.active[w] = o
     IN nse' = Tick(IF same THEN [s EXCEPT !.enter[o] = 0, !.cursor[o] = "none"] ELSE s)

(* output_set_cursor of the backend.                                        *)
SetCursor(o) ==
  /\ On("pointers") /\ o \in nse.outs
  /\ nse' = update_wl_output_cursor(nse, o)

(* Motion, buttons, axes: for the active pointer, which must be a device    *)
(* that exists, on the output the host pointer is over.                     *)
Delivered(s, w) ==
  LET o == s.active[w]
  IN [s EXCEPT !.odd = @ \/ (o # "none" /\ (o \notin s.ptrs[w] \/ o # s.hover[w]))]

pointer_handle_motion(w) ==
  On("pointers") /\ w \in nse.wl /\ nse' = Delivered(nse, w)

(* Gestures: the fingers are told when they begin and kept by the pointer.  *)
gesture_swipe_begin(w) ==
  /\ On("pointers") /\ nse.hover[w] # "none" /\ nse.gest[w] = 0 /\ Counted
  /\ \E f \in {2, 3} :
       LET s == Tick([Delivered(nse, w) EXCEPT !.gest[w] = f])
       IN nse' = IF s.active[w] = "none" THEN s ELSE [s EXCEPT !.fingers[<<w, s.active[w]>>] = f]

gesture_swipe_update(w) ==
  /\ On("pointers") /\ nse.gest[w] # 0
  /\ LET s == Delivered(nse, w)
     IN nse' = [s EXCEPT !.odd = @ \/ (s.active[w] # "none"
                                       /\ s.fingers[<<w, s.active[w]>>] # s.gest[w])]

gesture_end(w) ==
  /\ On("pointers") /\ nse.gest[w] # 0
  /\ nse' = [Delivered(nse, w) EXCEPT !.gest[w] = 0]

-----------------------------------------------------------------------------
(* Keyboard and touch.                                                      *)

init_seat_keyboard(s) == [s EXCEPT !.ready = @ \cup {"kbd"}]
init_seat_touch(s) == [s EXCEPT !.ready = @ \cup {"touch"}]

(* wlr_keyboard_finish, wlr_touch_finish: of a device that is initialised.  *)
FinishDevice(s, d) == [s EXCEPT !.ready = @ \ {d}, !.raw = @ \/ d \notin s.ready]

KeyboardCapability ==
  /\ On("devices") /\ Counted
  /\ nse' = Tick(IF nse.kbd
       THEN [FinishDevice(nse, "kbd") EXCEPT !.kbd = FALSE, !.keys = {}, !.hkeys = {}, !.focus = FALSE]
       ELSE LET s == [nse EXCEPT !.kbd = TRUE] IN IF s.started THEN init_seat_keyboard(s) ELSE s)

(* Dropping touch keeps the touch points.                                   *)
TouchCapability ==
  /\ On("devices") /\ Counted
  /\ nse' = Tick(IF nse.touch
       THEN [FinishDevice(nse, "touch") EXCEPT !.touch = FALSE, !.hpoints = {},
               !.kept = {nse.points[i] : i \in DOMAIN nse.points}]
       ELSE LET s == [nse EXCEPT !.touch = TRUE] IN IF s.started THEN init_seat_touch(s) ELSE s)

(* nested_backend_start initialises what the host has offered so far.              *)
nested_backend_start ==
  /\ ~nse.started
  /\ LET k == IF nse.kbd THEN init_seat_keyboard(nse) ELSE nse
         t == IF nse.touch THEN init_seat_touch(k) ELSE k
     IN nse' = [t EXCEPT !.started = TRUE]

(* destroy_wl_seat: the seat's global is removed.                           *)
destroy_wl_seat ==
  /\ On("devices") /\ (nse.kbd \/ nse.touch)
  /\ LET t == IF nse.touch THEN FinishDevice(nse, "touch") ELSE nse
         k == IF t.kbd /\ t.started THEN FinishDevice(t, "kbd") ELSE t
     IN nse' = [k EXCEPT !.kbd = FALSE, !.touch = FALSE, !.keys = {}, !.hkeys = {}, !.focus = FALSE,
                         !.points = <<>>, !.hpoints = {}, !.kept = {}]

(* keyboard_handle_enter presses the keys that are down.                    *)
keyboard_handle_enter ==
  /\ "kbd" \in nse.ready /\ nse.kbd /\ ~nse.focus
  /\ \E ks \in SUBSET NsId :
       nse' = [nse EXCEPT !.focus = TRUE, !.hkeys = ks, !.keys = @ \cup ks]

(* Keeps the keys.                                                          *)
leave_silently == nse.focus /\ nse' = [nse EXCEPT !.focus = FALSE, !.hkeys = {}]

(* keyboard_handle_leave releases all keys.                                 *)
keyboard_handle_leave ==
  nse.focus /\ nse' = [nse EXCEPT !.focus = FALSE, !.hkeys = {}, !.keys = {}]

keyboard_handle_key(k) ==
  /\ nse.focus
  /\ nse' = IF k \in nse.hkeys THEN [nse EXCEPT !.hkeys = @ \ {k}, !.keys = @ \ {k}]
            ELSE [nse EXCEPT !.hkeys = @ \cup {k}, !.keys = @ \cup {k}]

(* touch_handle_down: asserts that there is room.                           *)
touch_handle_down(i) ==
  /\ "touch" \in nse.ready /\ nse.touch /\ i \notin nse.hpoints
  /\ Len(nse.points) <= TouchCap
  /\ nse' = [nse EXCEPT !.odd = @ \/ (Len(nse.points) = TouchCap /\ nse.kept = {}), !.points = Append(@, i),
                        !.hpoints = @ \cup {i}]

First(q, i) == CHOOSE k \in DOMAIN q : q[k] = i /\ \A j \in 1..(k - 1) : q[j] # i

(* One past the point.                                                      *)
remove_next(q, i) ==
  IF \E k \in DOMAIN q : q[k] = i
    THEN LET k == First(q, i) IN SubSeq(q, 1, k) \o SubSeq(q, k + 2, Len(q)) ELSE q

remove_touch_point(q, i) ==
  IF \E k \in DOMAIN q : q[k] = i
    THEN LET k == First(q, i) IN SubSeq(q, 1, k - 1) \o SubSeq(q, k + 1, Len(q)) ELSE q

touch_handle_up(i) ==
  /\ i \in nse.hpoints
  /\ nse' = [nse EXCEPT !.points = remove_touch_point(@, i), !.hpoints = @ \ {i}]

(* touch_handle_cancel tells of every point.                                *)
touch_handle_cancel ==
  /\ nse.touch /\ nse.points # <<>>
  /\ nse' = [nse EXCEPT !.points = <<>>, !.hpoints = {}, !.kept = {},
               !.odd = @ \/ \E k \in DOMAIN nse.points : nse.points[k] \notin nse.hpoints \cup nse.kept]

-----------------------------------------------------------------------------
(* Tablet tool: values add up until the frame event.                        *)

handle_tool_added == On("tablet") /\ ~nse.has /\ nse' = [nse EXCEPT !.has = TRUE, !.tool = {}, !.seen = {}]

handle_tablet_tool_removed ==
  /\ nse.has
  /\ nse' = [nse EXCEPT !.has = FALSE, !.tool = {}, !.on = "none", !.hprox = FALSE, !.htip = FALSE, !.lost = FALSE]

handle_tablet_tool_proximity_in(o) ==
  /\ nse.has /\ ~nse.hprox /\ o \in nse.outs /\ Counted
  /\ nse' = Tick([nse EXCEPT !.tool = @ \cup {"in"}, !.on = o, !.hprox = TRUE])

(* Forgets to report it.                                                    *)
out_unreported ==
  /\ nse.has /\ nse.hprox /\ ~nse.htip
  /\ nse' = [nse EXCEPT !.on = "none", !.hprox = FALSE]

(* The host lifts the tip before the tool leaves.                           *)
handle_tablet_tool_proximity_out ==
  /\ nse.has /\ nse.hprox /\ ~nse.htip
  /\ nse' = [nse EXCEPT !.tool = @ \cup {"out"}, !.on = "none", !.hprox = FALSE]

(* handle_tablet_tool_down and _up.                                         *)
handle_tablet_tool_tip ==
  /\ nse.has /\ nse.hprox /\ Counted
  /\ nse' = Tick([nse EXCEPT !.tool = @ \cup {IF nse.htip THEN "up" ELSE "down"}, !.htip = ~@])

(* handle_tablet_tool_motion: asserts an output and reads its size.         *)
handle_tablet_tool_motion ==
  /\ nse.has /\ nse.hprox
  /\ nse' = [nse EXCEPT !.tool = @ \cup {"x"}, !.odd = @ \/ nse.on = "none",
                        !.dangling = @ \/ nse.on \notin nse.outs]

(* What the compositor knows after an event of the tool.                    *)
Told(s, ev) ==
  CASE ev = "in" -> [s EXCEPT !.seen = @ \cup {"prox"}]
    [] ev = "down" -> [s EXCEPT !.seen = @ \cup {"tip"}]
    [] ev = "up" -> [s EXCEPT !.seen = @ \ {"tip"}]
    [] ev = "out" -> [s EXCEPT !.seen = {}]
    [] OTHER -> s

ToolEvents(t) ==
  LET order == <<"in", "axis", "down", "up", "out">>
      told == t \cup IF "x" \in t /\ "in" \notin t THEN {"axis"} ELSE {}
  IN SelectSeq(order, LAMBDA ev : ev \in told)

RECURSIVE TellAll(_, _)
TellAll(s, evs) == IF evs = <<>> THEN s ELSE TellAll(Told(s, Head(evs)), Tail(evs))

(* handle_tablet_tool_frame: a tool that came and went is ignored, and so   *)
(* is what it did; down is told before up.                                  *)
handle_tablet_tool_frame ==
  /\ nse.has /\ nse.tool # {}
  /\ LET t == nse.tool
         s == IF {"in", "out"} \subseteq t THEN [nse EXCEPT !.lost = TRUE]
              ELSE [TellAll(nse, ToolEvents(t)) EXCEPT !.lost = @ \/ {"up", "down"} \subseteq t]
     IN nse' = [s EXCEPT !.tool = {}]

-----------------------------------------------------------------------------
(* Tablet pad: a ring reports the finger's angle and that it was lifted,    *)
(* with the next frame (strips are alike).                                  *)

handle_pad_added == On("pad") /\ ~nse.pad /\ nse' = [nse EXCEPT !.pad = TRUE, !.ring = {}]

handle_tablet_pad_removed ==
  nse.pad /\ nse' = [nse EXCEPT !.pad = FALSE, !.hring = FALSE, !.rung = FALSE]

handle_tablet_pad_ring_angle ==
  nse.pad /\ "stop" \notin nse.ring /\ nse' = [nse EXCEPT !.ring = @ \cup {"angle"}, !.hring = TRUE]

handle_tablet_pad_ring_stop ==
  nse.pad /\ nse.hring /\ nse' = [nse EXCEPT !.ring = @ \cup {"stop"}, !.hring = FALSE]

(* Tells of the stop, or else of the angle.                                 *)
ring_stop_first(r, was) == IF "angle" \in r THEN TRUE ELSE IF "stop" \in r THEN FALSE ELSE was

(* The angle is told first, then the stop.                                  *)
RingTold(r, was) == IF "stop" \in r THEN FALSE ELSE IF "angle" \in r THEN TRUE ELSE was

handle_tablet_pad_ring_frame ==
  /\ nse.pad /\ nse.ring # {}
  /\ nse' = [nse EXCEPT !.rung = RingTold(nse.ring, @), !.ring = {}]

NseNext ==
  \/ \E o \in NsOutput : output_start(o) \/ OutputGone(o) \/ SetCursor(o)
                         \/ handle_tablet_tool_proximity_in(o)
  \/ \E w \in NsSeat :
       \/ PointerCapability(w) \/ pointer_handle_leave(w) \/ pointer_handle_motion(w)
       \/ gesture_swipe_begin(w) \/ gesture_swipe_update(w) \/ gesture_end(w)
       \/ \E o \in NsOutput : pointer_handle_enter(w, o)
  \/ KeyboardCapability \/ TouchCapability \/ nested_backend_start \/ destroy_wl_seat
  \/ keyboard_handle_enter \/ keyboard_handle_leave \/ touch_handle_cancel
  \/ \E i \in NsId : keyboard_handle_key(i) \/ touch_handle_down(i) \/ touch_handle_up(i)
  \/ handle_pad_added \/ handle_tablet_pad_removed \/ handle_tablet_pad_ring_angle
  \/ handle_tablet_pad_ring_stop \/ handle_tablet_pad_ring_frame
  \/ handle_tool_added \/ handle_tablet_tool_removed \/ handle_tablet_tool_proximity_out
  \/ handle_tablet_tool_tip \/ handle_tablet_tool_motion \/ handle_tablet_tool_frame

-----------------------------------------------------------------------------
(* No pointer that is gone is a seat's active one or rules a cursor, and    *)
(* events reach the pointer of the output the host pointer is over, with    *)
(* the fingers of their gesture (destroy_pointer, pointer_handle_enter).    *)
PointersLive ==
  /\ ~nse.odd
  /\ \A w \in NsSeat : nse.active[w] # "none" => nse.active[w] \in nse.ptrs[w] /\ w \in nse.wl
  /\ \A o \in NsOutput : nse.cursor[o] # "none" => o \in nse.ptrs[nse.cursor[o]]

(* The compositor sees the keys and touch points of the host, and no key    *)
(* without keyboard focus; touch points may outlive a device that was       *)
(* dropped.                                                                 *)
PressedAgree ==
  /\ nse.keys = nse.hkeys
  /\ {nse.points[i] : i \in DOMAIN nse.points} \subseteq nse.hpoints \cup nse.kept
  /\ nse.hpoints \subseteq {nse.points[i] : i \in DOMAIN nse.points}

(* Between frames the compositor knows where the tool is, unless it came    *)
(* and went, or touched and lifted, within one frame; and whether a finger  *)
(* is on the pad's ring.                                                    *)
ToolAgrees ==
  /\ nse.has /\ nse.tool = {} /\ ~nse.lost =>
       ("prox" \in nse.seen) = nse.hprox /\ ("tip" \in nse.seen) = nse.htip
  /\ nse.ring = {} => nse.rung = nse.hring

NestedSeatSound == PointersLive /\ PressedAgree /\ ToolAgrees
=============================================================================
