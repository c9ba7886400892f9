----------------------------- MODULE X11Backend -----------------------------
(***************************************************************************)
(* An output of the X11 backend (backend/x11/{backend,output,input_device}  *)
(* .c): a window whose content is presented from pixmaps with the Present   *)
(* extension.  A pixmap counts its uses until the server reports it idle;   *)
(* areas the server exposes are added to the next damage; sizes and touches *)
(* go through the same event queue.                                         *)
(***************************************************************************)
EXTENDS Naturals, Sequences, FiniteSets

CONSTANTS XbBuffer,       \* buffers the compositor renders into
          XbArea,         \* areas of the window
          XbSize,         \* window sizes
          XbTouch,        \* touch ids of the server
          MaxXbSeq,       \* bound: commits
          MaxXbQueue,     \* bound: events in flight
          MaxXbEvents     \* bound: what the server does by itself

(* slice: a bound, what a behaviour explores; alive, enabled, win, mode,    *)
(* owed, needs, seq: of the output; busy: n_busy of the x11 buffers (0 is   *)
(* idle, and has: those that exist); locks, dropped: of the buffers;        *)
(* exposed: areas to repaint; touch: touchpoints, newest first, as          *)
(* <<x11_id, wayland_id>>.  Of the server: size, use: presents not yet      *)
(* idle; todo: presents to complete, as <<serial, commit, buffer>>; bare:   *)
(* areas that lost their content; htouch; q: the events in flight.  have,   *)
(* open, started, wants, made: of the backend (extensions, resources, the   *)
(* outputs asked for before it started, those made); pic, cursor: the cursor's picture and   *)
(* what the window shows.  Ghosts: done, twice: commits completed, and      *)
(* completed again; misnamed: a completion that names another commit; torn: *)
(* buffers given up while the server used them; odd: a broken assertion;    *)
(* unwanted: a commit without a buffer took away the wish for a frame that  *)
(* an exposure had made.                                                    *)
VARIABLE xbk

XbState(slice) ==
  [slice |-> slice, alive |-> TRUE, enabled |-> FALSE, win |-> 1, mode |-> 1, owed |-> FALSE,
   needs |-> FALSE, seq |-> 0, has |-> {}, busy |-> [b \in XbBuffer |-> 0],
   locks |-> [b \in XbBuffer |-> 0], dropped |-> {}, exposed |-> {}, touch |-> <<>>, size |-> 1,
   use |-> [b \in XbBuffer |-> 0], todo |-> <<>>, bare |-> {}, htouch |-> {}, q |-> <<>>,
   have |-> {}, open |-> {}, started |-> FALSE, wants |-> 0, made |-> 0, pic |-> "none", cursor |-> "none",
   done |-> {}, twice |-> FALSE, misnamed |-> FALSE, torn |-> {}, odd |-> FALSE,
   unwanted |-> FALSE, n |-> 0]

XbInit == xbk \in {XbState("frames"), XbState("windows"), XbState("setup")}

XbOn(slice) == xbk.alive /\ xbk.slice = slice

XbPush(s, ev) == [s EXCEPT !.q = Append(@, ev)]

XbRoom == Len(xbk.q) < MaxXbQueue

XbTick == xbk.n < MaxXbEvents

-----------------------------------------------------------------------------
(* Buffers.                                                                 *)

(* What the server still has to say about the pixmap is about nothing.     *)
Forget(s, b) ==
  [s EXCEPT !.has = @ \ {b}, !.busy[b] = 0, !.use[b] = 0,
            !.q = SelectSeq(@, LAMBDA ev : ev # <<"idle", b>>),
            !.todo = [k \in DOMAIN @ |-> IF @[k][3] = b THEN <<@[k][1], @[k][2], "none">> ELSE @[k]],
            !.torn = IF s.use[b] > 0 /\ s.alive THEN @ \cup {b} ELSE @]

(* Gives back one lock.                                                     *)
destroy_unlocks_once(s, b) ==
  [Forget(s, b) EXCEPT !.locks[b] = IF s.busy[b] > 0 THEN @ - 1 ELSE @]

(* destroy_x11_buffer gives back every lock of its pixmap.                  *)
destroy_x11_buffer(s, b) == [Forget(s, b) EXCEPT !.locks[b] = @ - s.busy[b]]

(* create_x11_buffer: a buffer whose format, stride or planes the server    *)
(* does not take has no pixmap.                                             *)
create_x11_buffer(s, b) ==
  {s, [s EXCEPT !.has = @ \cup {b}, !.busy[b] = 1, !.locks[b] = @ + 1]}

(* get_or_create_x11_buffer: one lock for each present.                     *)
get_or_create_x11_buffer(s, b) ==
  IF b \in s.has THEN {[s EXCEPT !.busy[b] = @ + 1, !.locks[b] = @ + 1]} ELSE create_x11_buffer(s, b)

(* wlr_buffer_unlock: the last lock of a dropped buffer destroys it, and    *)
(* the pixmap with it.                                                      *)
XbUnlock(s, b) ==
  LET t == [s EXCEPT !.locks[b] = @ - 1]
  IN IF t.locks[b] = 0 /\ b \in t.dropped
       THEN [destroy_x11_buffer(t, b) EXCEPT !.dropped = @ \ {b}] ELSE t

XbDrop(b) ==
  /\ XbOn("frames") /\ b \in xbk.has /\ b \notin xbk.dropped
  /\ xbk' = IF xbk.locks[b] = 0 THEN destroy_x11_buffer(xbk, b)
            ELSE [xbk EXCEPT !.dropped = @ \cup {b}]

-----------------------------------------------------------------------------
(* Commits.                                                                 *)

(* What the output core does after a commit that succeeded.                 *)
XbCommitted(s) == [s EXCEPT !.enabled = TRUE, !.seq = @ + 1, !.owed = TRUE, !.needs = FALSE]

(* The areas to repaint are forgotten before they are used.                 *)
damage_unexposed(s, damage) == IF damage = {} THEN XbArea ELSE damage

(* output_commit_buffer: what was exposed is repainted with the damage.     *)
Repainted(s, damage) == IF damage = {} THEN XbArea ELSE s.exposed \cup damage

(* Without damage (the empty set here) the whole window is repainted.       *)
(* output_commit_buffer: the present repaints the damage and what was       *)
(* exposed; a failure gives up the pixmap and all its uses.                 *)
output_commit_buffer(s, b, damage) ==
  UNION {IF b \notin t.has THEN {[s |-> t, ok |-> FALSE]}
         ELSE {[s |-> [t EXCEPT !.exposed = {}, !.unwanted = FALSE, !.bare = @ \ Repainted(t, damage),
                               !.use[b] = @ + 1, !.todo = Append(@, <<t.seq, t.seq + 1, b>>)], ok |-> TRUE]}
              \cup IF damage = {} THEN {}
                   ELSE {[s |-> destroy_x11_buffer([t EXCEPT !.exposed = @ \cup damage], b), ok |-> FALSE]} :
         t \in get_or_create_x11_buffer(s, b)}

output_commit(b, damage) ==
  /\ XbOn("frames") /\ xbk.seq < MaxXbSeq /\ b \notin xbk.dropped
  /\ \E r \in output_commit_buffer(xbk, b, damage) :
       xbk' = IF r.ok THEN XbCommitted(r.s) ELSE r.s

(* A commit without a buffer asks for the next frame alone; it clears       *)
(* needs_frame like any other, although what was exposed is not repainted.  *)
output_commit_msc ==
  /\ XbOn("frames") /\ xbk.enabled /\ xbk.seq < MaxXbSeq
  /\ xbk' = XbCommitted([xbk EXCEPT !.todo = Append(@, <<xbk.seq, xbk.seq + 1, "none">>),
                                    !.unwanted = xbk.exposed # {}])

XbDisable ==
  /\ XbOn("frames") /\ xbk.enabled /\ xbk.seq < MaxXbSeq
  /\ xbk' = [xbk EXCEPT !.enabled = FALSE, !.seq = @ + 1]

(* output_set_custom_mode: the server is asked unless the window has the    *)
(* size; when it refuses, the commit fails.                                 *)
output_set_custom_mode(s, z) ==
  IF z = s.win THEN s
  ELSE LET t == [s EXCEPT !.win = z, !.size = z]
       IN IF s.size = z THEN t ELSE XbPush(t, <<"configure", z>>)

output_commit_mode(z) ==
  /\ XbOn("windows") /\ XbRoom /\ XbTick
  /\ \/ xbk' = [output_set_custom_mode(xbk, z) EXCEPT !.mode = z, !.n = @ + 1]
     \/ z # xbk.win /\ xbk' = [xbk EXCEPT !.n = @ + 1]

x11_output_destroy ==
  /\ xbk.alive /\ xbk.slice # "setup"
  /\ LET s == [xbk EXCEPT !.alive = FALSE]
     IN xbk' = [s EXCEPT !.has = {}, !.busy = [b \in XbBuffer |-> 0],
                  !.locks = [b \in XbBuffer |-> destroy_x11_buffer(s, b).locks[b]],
                  !.dropped = {}, !.use = [b \in XbBuffer |-> 0], !.todo = <<>>, !.bare = {},
                  !.q = SelectSeq(@, LAMBDA ev : ev[1] # "idle"),
                  !.exposed = {}, !.enabled = FALSE, !.owed = FALSE, !.touch = <<>>, !.htouch = {}]

-----------------------------------------------------------------------------
(* The server.                                                              *)

(* Presents complete in order; a pixmap is idle some time later.            *)
ServerComplete ==
  /\ XbOn("frames") /\ xbk.todo # <<>> /\ XbRoom
  /\ xbk' = XbPush([xbk EXCEPT !.todo = Tail(@)], <<"complete", <<Head(xbk.todo)[1], Head(xbk.todo)[2]>>>>)

Waiting(b) == Cardinality({k \in DOMAIN xbk.todo : xbk.todo[k][3] = b})

ServerIdle(b) ==
  /\ XbOn("frames") /\ xbk.use[b] > Waiting(b) /\ XbRoom
  /\ xbk' = XbPush([xbk EXCEPT !.use[b] = @ - 1], <<"idle", b>>)

ServerExpose(a) ==
  /\ XbOn("frames") /\ XbRoom /\ XbTick /\ a \notin xbk.bare
  /\ xbk' = XbPush([xbk EXCEPT !.bare = @ \cup {a}, !.n = @ + 1], <<"expose", a>>)

ServerResize(z) ==
  /\ XbOn("windows") /\ XbRoom /\ XbTick /\ z # xbk.size
  /\ xbk' = XbPush([xbk EXCEPT !.size = z, !.n = @ + 1], <<"configure", z>>)

ServerTouch(i) ==
  /\ XbOn("windows") /\ XbRoom
  /\ IF i \in xbk.htouch THEN xbk' = XbPush([xbk EXCEPT !.htouch = @ \ {i}], <<"end", i>>)
     ELSE XbTick /\ xbk' = XbPush([xbk EXCEPT !.htouch = @ \cup {i}, !.n = @ + 1], <<"begin", i>>)

-----------------------------------------------------------------------------
(* The backend's setup and the cursor.                                      *)

(* wlr_x11_backend_create: Present, Xfixes and Xinput are required, DRI3    *)
(* and SHM are not; what was opened before a failure is closed, except the  *)
(* device of DRI3.                                                          *)
XbOpened(have) == {"connection", "source"} \cup (IF "dri3" \in have THEN {"fd"} ELSE {})

XbExtensions == SUBSET {"dri3", "shm"}

wlr_x11_backend_create ==
  /\ XbOn("setup") /\ xbk.open = {}
  /\ \E have \in XbExtensions :
       \/ xbk' = [xbk EXCEPT !.have = have, !.open = XbOpened(have)]
       \* The extensions or the screen lack something.
       \/ xbk' = [xbk EXCEPT !.alive = FALSE]
       \* The device of DRI3 does not open: shared memory is left.
       \/ /\ "dri3" \in have
          /\ xbk' = [xbk EXCEPT !.have = have \ {"dri3"}, !.open = XbOpened(have \ {"dri3"})]
       \* No context for errors.
       \/ xbk' = [xbk EXCEPT !.alive = FALSE, !.open = XbOpened(have) \ {"connection", "source"}]

wlr_x11_output_create ==
  /\ XbOn("setup") /\ xbk.open # {} /\ xbk.made + xbk.wants < MaxXbEvents
  /\ xbk' = IF xbk.started THEN [xbk EXCEPT !.made = @ + 1] ELSE [xbk EXCEPT !.wants = @ + 1]

x11_backend_start ==
  /\ XbOn("setup") /\ xbk.open # {} /\ ~xbk.started
  /\ xbk' = [xbk EXCEPT !.started = TRUE, !.made = xbk.wants, !.cursor = "blank"]

(* Leaves the connection open.                                              *)
destroy_connected ==
  XbOn("setup") /\ xbk.open # {} /\ xbk' = [xbk EXCEPT !.alive = FALSE, !.made = 0, !.open = @ \ {"source"}]

(* x11_event destroys the backend when the server hangs up.                 *)
x11_backend_destroy ==
  XbOn("setup") /\ xbk.open # {} /\ xbk' = [xbk EXCEPT !.alive = FALSE, !.made = 0, !.open = {}]

(* x11_output_set_cursor: the old picture is freed first, and a failure leaves  *)
(* none; the window shows the picture, or nothing.                          *)
x11_output_set_cursor(b) ==
  /\ XbOn("setup") /\ xbk.made > 0
  /\ \E pic \in {b, "none"} :
       xbk' = [xbk EXCEPT !.pic = pic, !.cursor = IF pic = "none" THEN "blank" ELSE pic]

-----------------------------------------------------------------------------
(* Events (handle_x11_event).                                               *)

handle_x11_expose(s, a) == [s EXCEPT !.exposed = @ \cup {a}, !.needs = TRUE, !.unwanted = FALSE]

(* Does not keep the window's size.                                         *)
configure_unkept(s, z) == s

handle_x11_configure_notify(s, z) == [s EXCEPT !.win = z]

(* handle_x11_present_event: a pixmap that is gone is not counted.          *)
handle_idle(s, b) ==
  IF b \notin s.has THEN s
  ELSE XbUnlock([s EXCEPT !.odd = @ \/ s.busy[b] = 0,
                          !.busy[b] = IF @ = 0 THEN 0 ELSE @ - 1], b)

(* The completion names a commit by the serial the present was given.       *)
handle_complete(s, n) ==
  [s EXCEPT !.owed = FALSE, !.twice = @ \/ n[1] \in s.done, !.done = @ \cup {n[1]},
            !.misnamed = @ \/ n[1] # n[2]]

(* Numbers a touch after the oldest.                                        *)
touch_id_after_oldest(q) == IF q = <<>> THEN 0 ELSE q[Len(q)][2] + 1

(* A new touch is numbered after the newest.                                *)
TouchId(q) == IF q = <<>> THEN 0 ELSE q[1][2] + 1

handle_touch_begin(s, i) ==
  [s EXCEPT !.touch = <<<<i, TouchId(s.touch)>>>> \o @]

handle_touch_end(s, i) == [s EXCEPT !.touch = SelectSeq(@, LAMBDA t : t[1] # i)]

XbDispatch ==
  /\ xbk.q # <<>>
  /\ LET ev == Head(xbk.q)
         s == [xbk EXCEPT !.q = Tail(@)]
     IN IF ~s.alive THEN xbk' = s
        ELSE CASE ev[1] = "expose" -> xbk' = handle_x11_expose(s, ev[2])
               [] ev[1] = "idle" -> xbk' = handle_idle(s, ev[2])
               [] ev[1] = "complete" -> xbk' = handle_complete(s, ev[2])
               [] ev[1] = "begin" -> xbk' = handle_touch_begin(s, ev[2])
               [] ev[1] = "end" -> xbk' = handle_touch_end(s, ev[2])
               [] ev[1] = "configure" ->
                    \* The compositor follows the request, or not.
                    LET t == handle_x11_configure_notify(s, ev[2])
                    IN xbk' \in {t, [output_set_custom_mode(t, ev[2]) EXCEPT !.mode = ev[2]]}

XbNext ==
  \/ \E b \in XbBuffer : XbDrop(b) \/ ServerIdle(b)
                         \/ \E d \in {{}} \cup {{a} : a \in XbArea} : output_commit(b, d)
  \/ output_commit_msc \/ XbDisable \/ x11_output_destroy \/ ServerComplete \/ XbDispatch
  \/ wlr_x11_backend_create \/ wlr_x11_output_create \/ x11_backend_start \/ x11_backend_destroy
  \/ \E b \in XbBuffer : x11_output_set_cursor(b)
  \/ \E z \in XbSize : output_commit_mode(z) \/ ServerResize(z)
  \/ \E a \in XbArea : ServerExpose(a)
  \/ \E i \in XbTouch : ServerTouch(i)

-----------------------------------------------------------------------------
InQueue(ev) == \E k \in DOMAIN xbk.q : xbk.q[k] = ev
Queued(ev) == Cardinality({k \in DOMAIN xbk.q : xbk.q[k] = ev})

(* A buffer stays locked for every present the server has not reported      *)
(* idle, and for no other; a commit that fails for want of memory gives all *)
(* of them up (destroy_x11_buffer), and nothing is locked at the end.       *)
PresentsLocked ==
  /\ ~xbk.odd
  /\ \A b \in XbBuffer : xbk.locks[b] = xbk.use[b] + Queued(<<"idle", b>>)

(* Every area that lost its content is repainted: its exposure is on the    *)
(* way, or it is part of the next damage and a frame is wanted.  Only a     *)
(* commit without a buffer takes the wish away, with the area still there:  *)
(* it is then repainted when the compositor draws for another reason.       *)
ExposuresRepainted ==
  \A a \in xbk.bare :
    InQueue(<<"expose", a>>) \/ (a \in xbk.exposed /\ (xbk.needs \/ xbk.unwanted))

(* An output that waits for a frame will be told: a present is outstanding  *)
(* or its completion on the way; none is completed twice.                   *)
FramesComplete ==
  /\ xbk.owed => xbk.todo # <<>> \/ \E k \in DOMAIN xbk.q : xbk.q[k][1] = "complete"
  /\ ~xbk.twice

(* Touch ids given to the compositor are distinct among the touches that    *)
(* are down, and once the events are handled the window has the size the    *)
(* server gave it.                                                          *)
WindowAgrees ==
  /\ \A j, k \in DOMAIN xbk.touch : xbk.touch[j][2] = xbk.touch[k][2] => j = k
  /\ xbk.alive /\ xbk.q = <<>> =>
       xbk.win = xbk.size /\ {xbk.touch[k][1] : k \in DOMAIN xbk.touch} = xbk.htouch

(* A backend that failed to start, or was destroyed, has closed what it     *)
(* opened; only the device of DRI3 stays open after a late failure.         *)
BackendClosed ==
  xbk.slice = "setup" /\ ~xbk.alive => xbk.open \subseteq {"fd"} /\ xbk.made = 0

X11BackendSound == PresentsLocked /\ ExposuresRepainted /\ FramesComplete /\ WindowAgrees
                   /\ BackendClosed
=============================================================================
