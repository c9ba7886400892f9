------------------------------- MODULE Cursor -------------------------------
(***************************************************************************)
(* The cursor (types/wlr_cursor.c, types/output/cursor.c): one position in  *)
(* the output layout and one image (a buffer, a surface or a theme's        *)
(* animation), shown by an output cursor on each output, in the cursor      *)
(* plane or drawn into the frame.  The layout is a line of cells, one for   *)
(* each output.                                                             *)
(***************************************************************************)
EXTENDS Integers, FiniteSets

CONSTANTS CurOutput,      \* outputs
          CurCell,        \* the cell of each output
          CurDevice,      \* input devices
          CurPos,         \* positions warped to
          MaxCurEnv       \* bound: changes of what the environment can do

(* slice: a bound, what moves, the image or the layout; layout: its outputs;*)
(* gone: outputs destroyed; x: the position; kind: what the image is from   *)
(* ("none", "buf", "surf", "xc"), with bhot, the hotspot of the last buffer,*)
(* and frame of the surface; bufd, slive: the surface has a buffer, lives;  *)
(* here: the outputs with a cursor, and for each: at, vis, img, hw (it has  *)
(* the plane), plane (what the plane shows), idx and timer of the           *)
(* animation, locks; map: mapped_output of the devices that are attached.   *)
(* Of the environment: hwok, texok: the plane, the renderer take images;    *)
(* drawn: what the last frame shows; dirty: damage since; ent: outputs the  *)
(* surface entered.  Ghosts: kept: an image the renderer refused left the   *)
(* one before; left: entered outputs removed from the layout; dangling: a   *)
(* mapping to an output that is gone was used; unhidden: a null buffer left *)
(* the image shown.                                                         *)
VARIABLE cur

CurState(slice) ==
  [slice |-> slice, layout |-> IF slice = "image" THEN {"o1"} ELSE {}, gone |-> {}, x |-> 1,
   kind |-> "none", bhot |-> 0, sver |-> 0, bufd |-> TRUE, slive |-> TRUE,
   here |-> IF slice = "image" THEN {"o1"} ELSE {}, at |-> [o \in CurOutput |-> 1],
   vis |-> [o \in CurOutput |-> TRUE], img |-> [o \in CurOutput |-> "none"],
   hw |-> [o \in CurOutput |-> FALSE], plane |-> [o \in CurOutput |-> <<"none", 0>>],
   idx |-> [o \in CurOutput |-> 0], timer |-> {}, locks |-> [o \in CurOutput |-> 0],
   map |-> [d \in {} |-> "none"], hwok |-> TRUE, texok |-> TRUE,
   drawn |-> [o \in CurOutput |-> <<"none", 0>>], dirty |-> {}, ent |-> {}, n |-> 0,
   kept |-> FALSE, left |-> {}, dangling |-> FALSE, unhidden |-> FALSE]

CurInit == cur \in {CurState("image"), CurState("layout")}

ImageOn == cur.slice = "image"
LayoutOn == cur.slice = "layout"

Dirty(s, o) == [s EXCEPT !.dirty = @ \cup {o}]

Visible(s, o) == s.at[o] = CurCell[o]

-----------------------------------------------------------------------------
(* The cursor of an output.                                                 *)

(* output_cursor_attempt_hardware                                           *)
AttemptHardware(s, o) == s.hwok /\ s.locks[o] = 0

(* Frees the plane and leaves the drawing to the next damage.               *)
disable_undamaged(s, o) == [s EXCEPT !.hw[o] = FALSE, !.plane[o] = <<"none", 0>>]

(* output_disable_hardware_cursor: the cursor is drawn from now on.         *)
output_disable_hardware_cursor(s, o) ==
  IF ~s.hw[o] THEN s
  ELSE Dirty([s EXCEPT !.hw[o] = FALSE, !.plane[o] = <<"none", 0>>], o)

(* Does not damage what was drawn before.                                   *)
set_texture_undamaged(s, o, i) ==
  IF i = "none" /\ s.img[o] = "none" THEN s
  ELSE LET t == [s EXCEPT !.img[o] = i, !.vis[o] = Visible(s, o)]
       IN IF AttemptHardware(t, o) THEN [t EXCEPT !.hw[o] = TRUE, !.plane[o] = <<i, t.at[o]>>]
          ELSE Dirty(output_disable_hardware_cursor(t, o), o)

(* output_cursor_set_texture: what was drawn is damaged, then the plane is  *)
(* tried, and what will be drawn is damaged.                                *)
output_cursor_set_texture(s, o, i) ==
  IF i = "none" /\ s.img[o] = "none" THEN s
  ELSE LET d == IF s.hw[o] THEN s ELSE Dirty(s, o)
           t == [d EXCEPT !.img[o] = i, !.vis[o] = Visible(d, o)]
       IN IF AttemptHardware(t, o) THEN [t EXCEPT !.hw[o] = TRUE, !.plane[o] = <<i, t.at[o]>>]
          ELSE Dirty(output_disable_hardware_cursor(t, o), o)

(* wlr_output_cursor_move                                                   *)
wlr_output_cursor_move(s, o, x) ==
  IF s.at[o] = x THEN s
  ELSE LET d == IF s.hw[o] THEN s ELSE Dirty(s, o)
           t == [d EXCEPT !.at[o] = x, !.vis[o] = x = CurCell[o]]
       IN IF ~s.vis[o] /\ ~t.vis[o] THEN t
          ELSE IF ~s.hw[o] THEN Dirty(t, o) ELSE [t EXCEPT !.plane[o] = <<t.img[o], x>>]

(* wlr_output_lock_software_cursors: for screen captures and the like.      *)
wlr_output_lock_software_cursors(o, lock) ==
  /\ ImageOn /\ o \in cur.here
  /\ \/ lock /\ cur.locks[o] = 0
     \/ ~lock /\ cur.locks[o] > 0
  /\ LET s == [cur EXCEPT !.locks[o] = IF lock THEN @ + 1 ELSE @ - 1]
     IN cur' = IF s.locks[o] > 0 THEN output_disable_hardware_cursor(s, o) ELSE s

(* wlr_output_cursor_destroy                                                *)
wlr_output_cursor_destroy(s, o) ==
  LET t == IF s.hw[o] THEN output_disable_hardware_cursor(s, o) ELSE Dirty(s, o)
  IN [t EXCEPT !.here = @ \ {o}, !.img[o] = "none"]

(* A frame of the output draws the cursor that has no plane                 *)
(* (wlr_output_add_software_cursors_to_render_pass).                        *)
Software(s, o) ==
  IF o \in s.here /\ s.img[o] # "none" /\ s.vis[o] /\ ~s.hw[o] THEN <<s.img[o], s.at[o]>>
  ELSE <<"none", 0>>

OutputFrame(o) ==
  /\ o \in cur.dirty
  /\ cur' = [cur EXCEPT !.dirty = @ \ {o}, !.drawn[o] = Software(cur, o)]

-----------------------------------------------------------------------------
(* The image.                                                               *)

SurfaceImage(s) == IF ~s.bufd THEN "none" ELSE IF s.sver = 0 THEN "s0" ELSE "s1"

ThemeImage(i) == IF i = 0 THEN "x0" ELSE "x1"

(* wlr_output_cursor_set_buffer: an image without a texture leaves the one  *)
(* before.                                                                  *)
wlr_output_cursor_set_buffer(s, o, i) ==
  IF ~s.texok THEN [s EXCEPT !.kept = TRUE] ELSE output_cursor_set_texture(s, o, i)

(* output_cursor_set_xcursor_image: the animation has two images.           *)
output_cursor_set_xcursor_image(s, o, i) ==
  [wlr_output_cursor_set_buffer(s, o, ThemeImage(i)) EXCEPT
     !.idx[o] = i, !.timer = @ \cup {o}]

(* Keeps the timer of the animation.                                        *)
reset_timed(s, o) == [s EXCEPT !.idx[o] = 0]

(* cursor_output_cursor_reset_image                                         *)
ResetOutput(s, o) == [s EXCEPT !.idx[o] = 0, !.timer = @ \ {o}]

(* cursor_output_cursor_update                                              *)
cursor_output_cursor_update(s, o) ==
  LET r == ResetOutput(s, o)
  IN CASE s.kind = "buf" -> output_cursor_set_texture(r, o, IF r.texok THEN "b" ELSE "none")
       [] s.kind = "surf" ->
            LET t == output_cursor_set_texture(r, o, SurfaceImage(r))
            IN [t EXCEPT !.ent = IF t.vis[o] THEN @ \cup {o} ELSE @ \ {o}]
       [] s.kind = "xc" -> output_cursor_set_xcursor_image(r, o, 0)
       [] OTHER -> output_cursor_set_texture(r, o, "none")

(* cursor_update_outputs                                                    *)
cursor_update_outputs(s) ==
  LET one == IF "o1" \in s.here THEN cursor_output_cursor_update(s, "o1") ELSE s
  IN IF "o2" \in one.here THEN cursor_output_cursor_update(one, "o2") ELSE one

(* Sends no leave.                                                          *)
reset_entered(s) == [s EXCEPT !.kind = "none"]

(* cursor_reset_image: the surface leaves the outputs.                      *)
cursor_reset_image(s) ==
  [s EXCEPT !.kind = "none", !.ent = IF s.kind = "surf" THEN @ \ s.here ELSE @]

(* wlr_cursor_set_buffer: the comparison with the buffer before also holds  *)
(* for the null buffer while a surface or a theme is shown.                 *)
wlr_cursor_set_buffer(set, hot) ==
  /\ ImageOn
  /\ LET same == set = (cur.kind = "buf") /\ hot = cur.bhot
         r == cursor_reset_image(cur)
     IN cur' = IF same THEN [cur EXCEPT !.unhidden = @ \/ (~set /\ cur.kind # "none")]
               ELSE cursor_update_outputs(IF set THEN [r EXCEPT !.kind = "buf", !.bhot = hot] ELSE r)

wlr_cursor_unset_image ==
  ImageOn /\ cur' = cursor_update_outputs(cursor_reset_image(cur))

wlr_cursor_set_xcursor ==
  /\ cur.kind # "xc"
  /\ cur' = cursor_update_outputs([cursor_reset_image(cur) EXCEPT !.kind = "xc"])

wlr_cursor_set_surface ==
  /\ cur.slive /\ cur.kind # "surf"
  /\ cur' = cursor_update_outputs([cursor_reset_image(cur) EXCEPT !.kind = "surf"])

(* cursor_handle_surface_commit, with or without a buffer.                  *)
cursor_handle_surface_commit(bufd) ==
  /\ ImageOn /\ cur.slive
  /\ LET s == [cur EXCEPT !.sver = 1 - @, !.bufd = bufd]
     IN cur' = IF s.kind = "surf" THEN cursor_update_outputs(s) ELSE s

cursor_handle_surface_destroy ==
  /\ ImageOn /\ cur.slive
  /\ LET s == [cur EXCEPT !.slive = FALSE]
         t == IF s.kind = "surf" THEN cursor_update_outputs(cursor_reset_image(s)) ELSE s
     IN cur' = [t EXCEPT !.ent = {}, !.left = {}]

handle_xcursor_timer(o) ==
  /\ o \in cur.timer
  /\ cur' = output_cursor_set_xcursor_image(cur, o, 1 - cur.idx[o])

(* output_cursor_output_handle_output_commit: a new scale or transform.     *)
OutputCommit(o) == ImageOn /\ o \in cur.here /\ cur' = cursor_output_cursor_update(cur, o)

(* The plane or the renderer stops, or begins, to take images.              *)
Environment ==
  /\ ImageOn /\ cur.n < MaxCurEnv
  /\ cur' \in {[cur EXCEPT !.hwok = ~@, !.n = @ + 1], [cur EXCEPT !.texok = ~@, !.n = @ + 1]}

-----------------------------------------------------------------------------
(* The position.                                                            *)

Cells(s) == {CurCell[o] : o \in s.layout}

Closest(S, p) == CHOOSE c \in S : \A d \in S :
                   LET near(e) == IF e > p THEN e - p ELSE p - e
                   IN near(c) < near(d) \/ (near(c) = near(d) /\ c <= d)

(* cursor_warp_unchecked moves the cursor of every output.                  *)
cursor_warp_unchecked(s, x) ==
  LET t == [s EXCEPT !.x = x]
      one == IF "o1" \in t.here THEN wlr_output_cursor_move(t, "o1", x) ELSE t
  IN IF "o2" \in one.here THEN wlr_output_cursor_move(one, "o2", x) ELSE one

(* get_mapping: the output the device is mapped to, while it is in the      *)
(* layout, or nothing.                                                      *)
get_mapping(s, d) ==
  IF d \in DOMAIN s.map /\ s.map[d] \in s.layout THEN {CurCell[s.map[d]]} ELSE {}

UsesGone(s, d) == [s EXCEPT !.dangling = @ \/ (d \in DOMAIN s.map /\ s.map[d] \in s.gone)]

(* wlr_cursor_warp: a position out of the mapping or the layout is refused. *)
wlr_cursor_warp(d, x) ==
  LET box == get_mapping(cur, d)
  IN /\ IF box # {} THEN x \in box ELSE x \in Cells(cur)
     /\ x # cur.x
     /\ cur' = cursor_warp_unchecked(UsesGone(cur, d), x)

(* wlr_cursor_warp_closest: also for moves and absolute positions.          *)
wlr_cursor_warp_closest(d, x) ==
  LET box == get_mapping(cur, d)
      s == UsesGone(cur, d)
  IN /\ LayoutOn
     /\ cur' = IF box # {} THEN cursor_warp_unchecked(s, Closest(box, x))
               ELSE IF s.layout = {} THEN s
               ELSE cursor_warp_unchecked(s, Closest(Cells(s), x))

(* Leaves the cursor where it is.                                           *)
change_unmoved(s) == s

(* handle_layout_change                                                     *)
handle_layout_change(s) ==
  IF s.x \in Cells(s) \/ s.layout = {} THEN s
  ELSE cursor_warp_unchecked(s, Closest(Cells(s), s.x))

(* layout_add: the output cursor goes to the position before it is shown.   *)
layout_add(s, o) ==
  IF o \in s.here THEN s
  ELSE cursor_output_cursor_update(
         wlr_output_cursor_move([s EXCEPT !.here = @ \cup {o}, !.at[o] = 0, !.vis[o] = TRUE,
                                          !.img[o] = "none", !.hw[o] = FALSE], o, s.x), o)

LayoutAdd(o) ==
  /\ LayoutOn /\ o \notin cur.layout \cup cur.gone
  /\ cur' = handle_layout_change(layout_add([cur EXCEPT !.layout = @ \cup {o}], o))

(* handle_layout_output_destroy: no leave is sent to the surface.           *)
handle_layout_output_destroy(s, o) ==
  LET t == wlr_output_cursor_destroy(ResetOutput(s, o), o)
  IN [t EXCEPT !.left = @ \cup (t.ent \cap {o})]

LayoutRemove(o) ==
  /\ LayoutOn /\ o \in cur.layout
  /\ cur' = handle_layout_change(
              handle_layout_output_destroy([cur EXCEPT !.layout = @ \ {o}], o))

(* An output that is destroyed is left by the surfaces on it.               *)
OutputDestroy(o) ==
  /\ LayoutOn /\ o \notin cur.gone
  /\ LET s == IF o \notin cur.layout THEN cur
              ELSE handle_layout_output_destroy([cur EXCEPT !.layout = @ \ {o}], o)
     IN cur' = handle_layout_change([s EXCEPT !.gone = @ \cup {o}, !.ent = @ \ {o},
                                              !.left = @ \ {o}, !.dirty = @ \ {o},
                                              !.drawn[o] = <<"none", 0>>])

-----------------------------------------------------------------------------
(* Devices.                                                                 *)

wlr_cursor_attach_input_device(d) ==
  /\ LayoutOn /\ d \notin DOMAIN cur.map
  /\ cur' = [cur EXCEPT !.map = [e \in DOMAIN @ \cup {d} |-> IF e = d THEN "none" ELSE @[e]]]

(* wlr_cursor_detach_input_device, also when the device is destroyed.       *)
wlr_cursor_detach_input_device(d) ==
  /\ d \in DOMAIN cur.map
  /\ cur' = [cur EXCEPT !.map = [e \in DOMAIN @ \ {d} |-> @[e]]]

wlr_cursor_map_input_to_output(d, o) ==
  /\ d \in DOMAIN cur.map /\ o \in cur.layout \cup {"none"}
  /\ cur' = [cur EXCEPT !.map[d] = o]

CurNext ==
  \/ \E o \in CurOutput : \/ OutputFrame(o) \/ handle_xcursor_timer(o) \/ OutputCommit(o)
                          \/ LayoutAdd(o) \/ LayoutRemove(o) \/ OutputDestroy(o)
                          \/ \E lock \in BOOLEAN : wlr_output_lock_software_cursors(o, lock)
  \/ \E set \in BOOLEAN, hot \in {0, 1} : wlr_cursor_set_buffer(set, hot)
  \/ wlr_cursor_unset_image \/ wlr_cursor_set_xcursor \/ wlr_cursor_set_surface
  \/ \E bufd \in BOOLEAN : cursor_handle_surface_commit(bufd)
  \/ cursor_handle_surface_destroy \/ Environment
  \/ \E d \in CurDevice :
       \/ \E p \in CurPos : wlr_cursor_warp(d, p) \/ wlr_cursor_warp_closest(d, p)
       \/ wlr_cursor_attach_input_device(d) \/ wlr_cursor_detach_input_device(d)
       \/ \E o \in CurOutput \cup {"none"} : wlr_cursor_map_input_to_output(d, o)

-----------------------------------------------------------------------------
(* Once the damage is repainted the frame shows the cursor where it is,     *)
(* without trails, unless the plane shows it; and the plane shows it there. *)
ScreenAgrees ==
  \A o \in CurOutput :
    /\ o \notin cur.dirty => cur.drawn[o] = Software(cur, o)
    /\ cur.hw[o] /\ cur.vis[o] => cur.plane[o] = <<cur.img[o], cur.at[o]>>
    /\ ~cur.hw[o] => cur.plane[o] = <<"none", 0>>
    /\ cur.locks[o] > 0 => ~cur.hw[o]

(* Every output of the layout has the cursor at the one position, with the  *)
(* one image; only an animation has a timer.                                *)
Wanted(o) ==
  CASE cur.kind = "surf" -> {SurfaceImage(cur)}
    [] cur.kind = "xc" -> {ThemeImage(cur.idx[o])}
    [] cur.kind = "buf" -> {"b", "none"}
    [] OTHER -> {"none"}

OutputsAgree ==
  /\ cur.here = cur.layout
  /\ \A o \in cur.here : /\ cur.at[o] = cur.x /\ cur.vis[o] = Visible(cur, o)
                         /\ cur.kept \/ cur.img[o] \in Wanted(o)
  /\ cur.timer = IF cur.kind = "xc" THEN cur.here ELSE {}
  /\ cur.kind = "surf" => cur.slive
  /\ cur.kind # "surf" => cur.ent \subseteq cur.left

(* The cursor is on an output whenever there is one.                        *)
InLayout == cur.layout # {} => cur.x \in Cells(cur)

CursorSound == ScreenAgrees /\ OutputsAgree /\ InLayout
=============================================================================
