------------------------------- MODULE Capture -------------------------------
(***************************************************************************)
(* Screen capture: frames of types/wlr_screencopy_v1.c and                  *)
(* types/wlr_export_dmabuf_v1.c, sessions of                                *)
(* types/wlr_ext_image_copy_capture_v1.c on the sources of                  *)
(* types/ext_image_capture_source_v1, and captured cursors.  The picture is *)
(* a set of cells that a commit changes; a copy of it has stale cells, those *)
(* that changed since they were painted.                                    *)
(***************************************************************************)
EXTENDS Integers, FiniteSets

CONSTANTS CapCell,        \* cells of the picture, an output of size n has those up to n
          CapSession      \* capture sessions

(* slice: a bound, what moves; live, enabled, size of the output;      rl,  *)
(* sl: its attach_render and software cursor locks; need: a frame is asked  *)
(* for.                                                                     *)
(* frame: the client's screencopy frame (st: "none", "new", "copying");     *)
(* ref: references to the client's record; mgr: its manager object lives;   *)
(* damages: the damage kept for it (tracked once a frame asked for it);     *)
(* view: stale cells of the picture the client put together from the damage *)
(* it was told.                                                             *)
(* exp: a frame to be exported, with or without cursor locked.              *)
(* src: kind of the capture source ("output", "scene"), started: sessions   *)
(* on it, locked: software_cursors_locked; sess: of each session its        *)
(* damage, frame, buffer_damage, the constraints it was told, its buffer    *)
(* (size and stale cells).                                                  *)
(* cur: the cursor source: entered, front (the cursor buffer), its version, *)
(* prev (prev_buffer), needs (needs_frame), and of the cursor session: told *)
(* entered, damage, capturing, seen (the version captured last).            *)
(* Ghosts: torn: a picture that was ready shows old cells; grown: cells of  *)
(* an output that grew which the client was not told of or has no room for; *)
(* unwanted: a commit without a buffer took the wish for a frame; silent:   *)
(* an exported frame ended without an answer; unpainted: a session asked    *)
(* for cursors a source did not paint.                                      *)
VARIABLE cap

Idle == [st |-> "none", cursor |-> FALSE, dam |-> FALSE, size |-> 1]
NoSession == [on |-> FALSE, dam |-> {}, st |-> "none", bdam |-> {}, told |-> 0, bsize |-> 0,
              buf |-> {}]

CapState(slice, kind) ==
  [slice |-> slice, live |-> TRUE, enabled |-> TRUE, size |-> 1,
   rl |-> 0, sl |-> 0, need |-> FALSE,
   frame |-> Idle, ref |-> 1, mgr |-> TRUE, tracked |-> FALSE, damages |-> {},
   view |-> {}, exp |-> "none",
   src |-> kind, started |-> 0, locked |-> FALSE, sess |-> [k \in CapSession |-> NoSession],
   cur |-> [entered |-> FALSE, front |-> "none", ver |-> 0, prev |-> "none", needs |-> FALSE,
            told |-> FALSE, dam |-> FALSE, capturing |-> FALSE, seen |-> 2, on |-> FALSE],
   torn |-> FALSE, grown |-> {}, unwanted |-> FALSE, silent |-> FALSE, unpainted |-> FALSE]

CapInit == cap \in {CapState("frames", "none"), CapState("sessions", "output"),
                    CapState("sessions", "scene"), CapState("cursor", "none")}

FramesOn == cap.slice = "frames"
SessionsOn == cap.slice = "sessions"
CursorOn == cap.slice = "cursor"

Locks(s, r, c) == [s EXCEPT !.rl = @ + r, !.sl = @ + c]

One(b) == IF b THEN 1 ELSE 0

CapCells(n) == {c \in CapCell : c <= n}

(* wlr_output_update_needs_frame                                            *)
NeedsFrame(s) == [s EXCEPT !.need = TRUE, !.unwanted = FALSE]

(* output_apply_commit of a commit with a buffer                            *)
FrameMade(s) == [s EXCEPT !.need = FALSE, !.unwanted = FALSE]

-----------------------------------------------------------------------------
(* Screencopy.                                                              *)

(* client_unref                                                             *)
client_unref(s) ==
  LET n == s.ref - 1
  IN [s EXCEPT !.ref = n, !.tracked = @ /\ n > 0, !.damages = IF n > 0 THEN @ ELSE {},
               !.view = IF n > 0 THEN @ ELSE {}, !.grown = IF n > 0 THEN @ ELSE {}]

(* Leaves the locks of a frame that was waiting.                            *)
frame_destroy_locked(s) == client_unref([s EXCEPT !.frame = Idle])

(* frame_destroy                                                            *)
frame_destroy(s) ==
  LET held == s.frame.st = "copying"
  IN client_unref(Locks([s EXCEPT !.frame = Idle],
                        IF held THEN -1 ELSE 0,
                        IF held /\ s.frame.cursor THEN -1 ELSE 0))

(* capture_output: one frame of an output for a client.                     *)
capture_output(cursor) ==
  /\ FramesOn /\ cap.mgr /\ cap.live /\ cap.enabled /\ cap.frame.st = "none"
  /\ cap' = [cap EXCEPT !.frame = [st |-> "new", cursor |-> cursor, dam |-> FALSE,
                                   size |-> cap.size],
                        !.ref = @ + 1]

(* frame_handle_copy, with or without damage.                               *)
frame_handle_copy(dam) ==
  /\ cap.frame.st = "new"
  /\ cap' = IF ~cap.enabled THEN frame_destroy(cap)
            ELSE Locks([NeedsFrame(cap) EXCEPT !.frame.st = "copying", !.frame.dam = dam],
                       1, One(cap.frame.cursor))

frame_handle_resource_destroy == cap.frame.st # "none" /\ cap' = frame_destroy(cap)

manager_handle_resource_destroy ==
  FramesOn /\ cap.mgr /\ cap' = client_unref([cap EXCEPT !.mgr = FALSE])

(* Counts the damage of commits with a frame waiting only.                  *)
accumulate_waiting(s, D) ==
  IF s.tracked /\ s.frame.st = "copying"
  THEN [s EXCEPT !.damages = (@ \cup D) \cap CapCells(s.size)] ELSE s

(* screencopy_damage_accumulate, before the commit, which may fail: clipped *)
(* to the size the output has before the commit.                            *)
screencopy_damage_accumulate(s, D) ==
  IF s.tracked THEN [s EXCEPT !.damages = (@ \cup D) \cap CapCells(s.size)] ELSE s

(* frame_handle_output_commit of a buffer: a frame that asked for damage    *)
(* waits for some; ok: the copy succeeded.  All damage is told, the box of  *)
(* the frame is copied.                                                     *)
frame_handle_output_commit(s, ok) ==
  LET all == CapCells(s.size)
      t == IF s.frame.dam /\ ~s.tracked
           THEN [s EXCEPT !.tracked = TRUE, !.damages = all, !.view = all] ELSE s
  IN IF s.frame.st # "copying" THEN s
     ELSE IF t.frame.dam /\ t.damages = {} THEN t
     ELSE IF t.frame.size > t.size \/ ~ok THEN frame_destroy(t)
     ELSE IF ~t.frame.dam THEN frame_destroy(t)
     ELSE frame_destroy([t EXCEPT !.damages = {}, !.view = @ \ CapCells(t.frame.size),
                                  !.grown = all \ CapCells(t.frame.size),
                                  !.torn = @ \/ ~(t.view \subseteq t.damages \cup t.grown)])

-----------------------------------------------------------------------------
(* Exported frames.                                                         *)

ExportLocks(s) == One(s.exp = "cursor")

(* frame_destroy of an exported frame                                       *)
export_destroy(s) ==
  IF s.exp = "none" THEN s ELSE Locks([s EXCEPT !.exp = "none"], -1, -ExportLocks(s))

manager_handle_capture_output(cursor) ==
  /\ FramesOn /\ cap.live /\ cap.enabled /\ cap.exp = "none"
  /\ LET s == [NeedsFrame(cap) EXCEPT !.exp = IF cursor THEN "cursor" ELSE "plain"]
     IN cap' = Locks(s, 1, ExportLocks(s))

ExportReleased == cap.exp # "none" /\ cap' = export_destroy(cap)

-----------------------------------------------------------------------------
(* Capture sessions.                                                        *)

(* output_source_start: only the first session decides on the cursors.      *)
output_source_start(s, cursors) ==
  LET t == [s EXCEPT !.started = @ + 1]
  IN IF s.src = "scene" THEN t
     ELSE IF t.started > 1 THEN [t EXCEPT !.unpainted = @ \/ (cursors /\ ~s.locked)]
     ELSE Locks([t EXCEPT !.locked = cursors], 1, One(cursors))

(* Counts the sessions and never unlocks the cursors.                       *)
source_stop_cursors(s) ==
  LET t == [s EXCEPT !.started = @ - 1]
  IN IF t.started > 0 \/ s.src = "scene" THEN t ELSE Locks([t EXCEPT !.locked = FALSE], -1, 0)

(* output_source_stop                                                       *)
output_source_stop(s) ==
  LET t == [s EXCEPT !.started = @ - 1]
  IN IF t.started > 0 \/ s.src = "scene" THEN t
     ELSE Locks([t EXCEPT !.locked = FALSE], -1, -One(s.locked))

(* session_create: all of the picture is damage.                            *)
session_create(k, cursors) ==
  /\ SessionsOn /\ cap.live /\ ~cap.sess[k].on
  /\ cap' = [output_source_start(cap, cursors) EXCEPT
               !.sess[k] = [NoSession EXCEPT !.on = TRUE, !.dam = CapCells(cap.size), !.told = cap.size]]

(* session_destroy fails the frame.                                         *)
session_destroy(s, k) == output_source_stop([s EXCEPT !.sess[k] = NoSession])

session_handle_resource_destroy(k) == cap.sess[k].on /\ cap' = session_destroy(cap, k)

(* session_handle_create_frame and frame_handle_attach_buffer, of a buffer  *)
(* of the size the client was told; a new buffer is damaged as a whole      *)
(* (frame_handle_damage_buffer).                                            *)
session_handle_create_frame(k) ==
  LET q == cap.sess[k]
  IN /\ q.on /\ q.st = "none"
     /\ cap' = [cap EXCEPT !.sess[k] =
                  IF q.bsize = q.told THEN [q EXCEPT !.st = "new", !.bdam = {}]
                  ELSE [q EXCEPT !.st = "new", !.bdam = CapCells(q.told), !.bsize = q.told,
                                 !.buf = CapCells(q.told)]]

(* frame_handle_capture asks the source for a frame when there is damage.   *)
frame_handle_capture(k) ==
  LET q == cap.sess[k]
  IN /\ q.st = "new"
     /\ LET s == IF q.dam = {} THEN cap ELSE NeedsFrame(cap)
        IN cap' = [s EXCEPT !.sess[k].st = "capturing"]

FrameReleased(k) ==
  cap.sess[k].st # "none" /\ cap' = [cap EXCEPT !.sess[k].st = "none", !.sess[k].bdam = {}]

(* Takes the damage of this event only.                                     *)
source_frame_last(s, k, D, ok) ==
  LET q == [s.sess[k] EXCEPT !.dam = @ \cup D]
      paint == q.bdam \cup D
  IN IF ~q.on THEN s
     ELSE IF q.st # "capturing" \/ q.dam = {} THEN [s EXCEPT !.sess[k] = q]
     ELSE IF ~ok \/ q.bsize # s.size THEN [s EXCEPT !.sess[k] = [q EXCEPT !.st = "none", !.bdam = {}]]
     ELSE [s EXCEPT !.sess[k] = [q EXCEPT !.st = "none", !.dam = {}, !.bdam = {}, !.buf = {}],
                    !.torn = @ \/ ~(q.buf \subseteq paint)]

(* session_handle_source_frame, with                                        *)
(* wlr_ext_image_copy_capture_frame_v1_copy_buffer and _ready: the buffer   *)
(* gets what it lacks and what changed since the last one that was ready.   *)
session_handle_source_frame(s, k, D, ok) ==
  LET q == [s.sess[k] EXCEPT !.dam = @ \cup D]
      paint == q.bdam \cup q.dam
  IN IF ~q.on THEN s
     ELSE IF q.st # "capturing" \/ q.dam = {} THEN [s EXCEPT !.sess[k] = q]
     ELSE IF ~ok \/ q.bsize # s.size THEN [s EXCEPT !.sess[k] = [q EXCEPT !.st = "none", !.bdam = {}]]
     ELSE [s EXCEPT !.sess[k] = [q EXCEPT !.st = "none", !.dam = {}, !.bdam = {}, !.buf = {}],
                    !.torn = @ \/ ~(q.buf \subseteq paint)]

Sessions(s, D, ok) ==
  LET one == IF "k1" \in CapSession THEN session_handle_source_frame(s, "k1", D, ok) ELSE s
  IN IF "k2" \in CapSession THEN session_handle_source_frame(one, "k2", D, ok) ELSE one

-----------------------------------------------------------------------------
(* The output.                                                              *)

CapChanged(s, C) ==
  [s EXCEPT !.view = IF s.tracked THEN @ \cup C ELSE {},
            !.sess = [k \in CapSession |->
                        LET q == @[k]
                        IN IF q.bsize = 0 THEN q
                           ELSE [q EXCEPT !.buf = @ \cup (C \cap CapCells(q.bsize))]]]

(* What follows a commit with a buffer: source_handle_output_commit tells   *)
(* the sessions.                                                            *)
Committed(s, D, ok) ==
  Sessions(export_destroy(frame_handle_output_commit(FrameMade(s), ok)), D, ok)

(* An output renders a frame with damage, or when one was asked for;        *)
(* source_handle_output_frame, of a source that renders a scene node, does  *)
(* so with damage only.                                                     *)
Renders(s, D) == D # {} \/ (s.need /\ s.src # "scene")

(* A frame is committed: some cells changed, or all of them stayed.         *)
CapOutputCommit(D, change, ok) ==
  /\ FramesOn \/ SessionsOn
  /\ cap.live /\ cap.enabled /\ change \subseteq D /\ D \subseteq CapCells(cap.size)
  /\ Renders(cap, D)
  /\ cap' = Committed(CapChanged(screencopy_damage_accumulate(cap, D), change), D, ok)

(* A commit without a buffer, of gamma for one: no frame is told, and the   *)
(* wish for one is gone.                                                    *)
CommitWithoutBuffer ==
  /\ cap.live /\ cap.enabled /\ cap.need /\ cap.src # "scene"
  /\ cap' = [cap EXCEPT !.need = FALSE, !.unwanted = TRUE]

(* A commit that the backend refuses was counted by its precommit.          *)
OutputCommitFails(D) ==
  /\ FramesOn /\ cap.live /\ cap.tracked /\ ~(D \subseteq cap.damages)
  /\ D \subseteq CapCells(cap.size)
  /\ cap' = screencopy_damage_accumulate(cap, D)

(* A commit of the mode, that brings a buffer of the new size (see          *)
(* output_ensure_buffer), tells the sessions their constraints              *)
(* (source_update_buffer_constraints); all of the picture is new.           *)
OutputMode(size) ==
  /\ cap.live /\ cap.enabled /\ size # cap.size /\ (FramesOn \/ SessionsOn)
  /\ LET all == CapCells(size)
         pre == screencopy_damage_accumulate(cap, all)
         s == [pre EXCEPT !.size = size, !.view = {},
                          !.grown = IF cap.tracked THEN all \ CapCells(cap.size) ELSE {},
                          !.sess = [k \in CapSession |-> IF @[k].on THEN [@[k] EXCEPT !.told = size]
                                                         ELSE @[k]]]
     IN cap' = Committed(CapChanged(s, all), all, TRUE)

(* A commit that disables the output: a screencopy frame that waits fails,  *)
(* an exported one waits on.  One that enables it brings a new buffer.      *)
OutputEnable(on) ==
  /\ FramesOn /\ cap.live /\ on # cap.enabled
  /\ LET s == [cap EXCEPT !.enabled = on]
         all == CapCells(s.size)
     IN cap' = IF on THEN Committed(CapChanged(screencopy_damage_accumulate(s, all), all), all, TRUE)
               ELSE IF s.frame.st = "copying" THEN frame_destroy(s) ELSE s

(* The output is destroyed: frame_handle_output_destroy,                    *)
(* frame_output_handle_destroy, output_addon_destroy.                       *)
CapOutputDestroy ==
  /\ cap.live /\ (FramesOn \/ SessionsOn)
  /\ LET s == IF cap.frame.st = "none" THEN cap ELSE frame_destroy(cap)
         t == export_destroy([s EXCEPT !.silent = @ \/ s.exp # "none", !.tracked = FALSE,
                                       !.damages = {}, !.view = {}, !.grown = {}])
         one == IF t.sess["k1"].on THEN session_destroy(t, "k1") ELSE t
         two == IF "k2" \in CapSession /\ one.sess["k2"].on THEN session_destroy(one, "k2") ELSE one
     IN cap' = [two EXCEPT !.live = FALSE]

-----------------------------------------------------------------------------
(* The captured cursor.                                                     *)

(* cursor_session_update                                                    *)
cursor_session_update(c) == IF c.on THEN [c EXCEPT !.told = c.entered] ELSE c

(* manager_handle_create_pointer_cursor_session, with the session that      *)
(* captures the images.                                                     *)
manager_handle_create_pointer_cursor_session ==
  /\ CursorOn /\ ~cap.cur.on
  /\ cap' = [cap EXCEPT !.cur = cursor_session_update([@ EXCEPT !.on = TRUE, !.dam = TRUE,
                                                                !.told = FALSE, !.seen = 2])]

cursor_session_destroy ==
  /\ cap.cur.on
  /\ cap' = [cap EXCEPT !.cur = [@ EXCEPT !.on = FALSE, !.capturing = FALSE, !.told = FALSE,
                                          !.dam = FALSE, !.seen = 2]]

(* output_cursor_source_request_frame                                       *)
output_cursor_source_request_frame ==
  /\ cap.cur.on /\ ~cap.cur.capturing
  /\ cap' = [cap EXCEPT !.cur.capturing = TRUE, !.cur.needs = @ \/ cap.cur.dam]

(* Keeps the buffer before when it was released and painted again.          *)
release_kept(c, old) == c

(* output_cursor_source_handle_prev_buffer_release                          *)
output_cursor_source_handle_prev_buffer_release(c, old) ==
  IF c.prev = old THEN [c EXCEPT !.prev = "none"] ELSE c

(* The cursor plane gets another image, in a buffer that is not in use, or  *)
(* none, with the next commit of the output:                                *)
(* output_cursor_source_handle_output_commit; ok: the copy succeeded, a     *)
(* frame that fails leaves the damage.                                      *)
CursorFrame(c, ok) ==
  IF c.front = "none" \/ (c.front = c.prev /\ ~c.needs) THEN [c EXCEPT !.needs = FALSE]
  ELSE [c EXCEPT !.needs = FALSE, !.prev = c.front, !.dam = c.on /\ ~(c.capturing /\ ok),
                 !.seen = IF c.capturing /\ ok THEN c.ver ELSE @, !.capturing = FALSE]

CursorCommit(b, ok) ==
  /\ CursorOn /\ (b = "none" \/ b # cap.cur.front)
  /\ LET old == cap.cur.front
         moved == [cap.cur EXCEPT !.front = b, !.entered = b # "none",
                                  !.ver = IF b = "none" THEN @ ELSE 1 - @]
         free == output_cursor_source_handle_prev_buffer_release(moved, old)
     IN cap' = [cap EXCEPT !.cur = CursorFrame(cursor_session_update(free), ok)]

(* A commit of the output that leaves the cursor.                           *)
CursorKept(ok) == CursorOn /\ cap.cur.needs /\ cap' = [cap EXCEPT !.cur = CursorFrame(@, ok)]

CapNext ==
  \/ \E b \in BOOLEAN : \/ capture_output(b) \/ frame_handle_copy(b)
                        \/ manager_handle_capture_output(b) \/ OutputEnable(b)
  \/ frame_handle_resource_destroy \/ manager_handle_resource_destroy \/ ExportReleased
  \/ \E k \in CapSession : \/ \E b \in BOOLEAN : session_create(k, b)
                           \/ session_handle_resource_destroy(k)
                           \/ session_handle_create_frame(k) \/ frame_handle_capture(k)
                           \/ FrameReleased(k)
  \/ \E D \in SUBSET CapCells(cap.size) : \/ \E change \in SUBSET D, ok \in BOOLEAN : CapOutputCommit(D, change, ok)
                                        \/ OutputCommitFails(D)
  \/ \E size \in {1, 2} : OutputMode(size)
  \/ CommitWithoutBuffer \/ CapOutputDestroy
  \/ manager_handle_create_pointer_cursor_session \/ cursor_session_destroy
  \/ output_cursor_source_request_frame
  \/ \E ok \in BOOLEAN : CursorKept(ok) \/ \E b \in {"none", "a", "b"} : CursorCommit(b, ok)

-----------------------------------------------------------------------------
(* The output keeps rendering into its buffer, and draws the cursor, as     *)
(* long as a capture needs that, and no longer, however captures end.       *)
LocksBalanced ==
  /\ cap.rl = One(cap.frame.st = "copying") + One(cap.exp # "none")
              + One(cap.src = "output" /\ cap.started > 0)
  /\ cap.sl = One(cap.frame.st = "copying" /\ cap.frame.cursor) + One(cap.exp = "cursor")
              + One(cap.locked)
  /\ cap.started = Cardinality({k \in CapSession : cap.sess[k].on})
  /\ cap.ref = One(cap.mgr) + One(cap.frame.st # "none")

(* A client that repaints what it was told has the picture of the output,   *)
(* over failed commits, frames given up and captures without damage; the    *)
(* cells by which the output grew are not told, since the damage is clipped *)
(* to the size before the commit.                                           *)
PicturesWhole == ~cap.torn

(* A frame for which the session still has damage is asked for, until a     *)
(* commit without a buffer takes the wish; a session whose damage is empty  *)
(* has captured the last cursor.                                            *)
FramesAsked ==
  /\ \A k \in CapSession : cap.src = "output" /\ cap.sess[k].st = "capturing"
                           /\ cap.sess[k].dam # {} => cap.need \/ cap.unwanted
  /\ LET c == cap.cur
     IN /\ c.on /\ ~c.dam /\ c.front # "none" => c.seen = c.ver
        /\ c.capturing /\ c.dam => c.needs \/ c.front = "none"
        /\ c.on => c.told = c.entered

CaptureSound == LocksBalanced /\ PicturesWhole /\ FramesAsked
=============================================================================
