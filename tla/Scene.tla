------------------------------- MODULE Scene --------------------------------
(***************************************************************************)
(* The scene graph: a tree of nodes on a layout, the part of each node that *)
(* is visible, the outputs a surface is told it is on, and the damage that  *)
(* makes outputs repaint.  Everything is updated incrementally, within the  *)
(* region an operation touches.  Space is one-dimensional: boxes are        *)
(* intervals and regions sets of cells; scale and transform are 1.          *)
(***************************************************************************)
EXTENDS Integers, Sequences, FiniteSets, SequencesExt

CONSTANTS SceneOutput,     \* outputs, a sequence in order of their index
          SceneOutputWidth,
          ScenePos, SceneLen,   \* positions and lengths of nodes
          MaxSceneOps

ASSUME SceneAssumption ==
  /\ SceneOutputWidth \in Nat \ {0} /\ MaxSceneOps \in Nat
  /\ ScenePos \subseteq Int /\ SceneLen \subseteq Nat

VARIABLE scene

(* root holds the tree, the rectangle and the buffer of a surface. *)
Trees == {"root", "tree"}
Leaves == {"rect", "buffer"}
SceneNodes == Trees \cup Leaves
SceneOutputs == Range(SceneOutput)
Colors == {"clear", "tint", "solid", "black"}

Screen == 0..(SceneOutputWidth - 1)
Shift(cells, d) == {c + d : c \in cells}
MinOf(s) == CHOOSE m \in s : \A c \in s : m <= c
MaxOf(s) == CHOOSE m \in s : \A c \in s : c <= m
Hull(s) == IF s = {} THEN {} ELSE MinOf(s)..MaxOf(s)

NoOutput == [alive |-> FALSE, on |-> TRUE, x |-> 0, pending |-> {}, ring |-> {},
             stale |-> {}, unpainted |-> {}, excused |-> {}, culled |-> {}]

(* parent, order (bottom to top), enabled, x: of the nodes; len, color:     *)
(* of the leaves; buf: "held" locked, "lent" uploaded and unlocked, "gone"  *)
(* released with only the texture left; opaque: buffer_is_opaque; region:   *)
(* opaque_region; bit: the content; visible, bbox, valid: the cached        *)
(* geometry; active, primary: of the buffer; entered, suspended: of its     *)
(* surface.  stale and unpainted: cells of which the screen, or the         *)
(* output's buffer, lags behind the scene; late: cells still counted as     *)
(* hidden by an opaque buffer that has been replaced; excused, culled:      *)
(* cells that shortcuts of the code, or late, leave stale or unpainted.     *)
wlr_scene_create ==
          [alive |-> {"root"}, parent |-> [n \in SceneNodes \ {"root"} |-> "root"],
           order |-> [t \in Trees |-> <<>>], enabled |-> [n \in SceneNodes |-> TRUE],
           x |-> [n \in SceneNodes |-> 0], len |-> [n \in Leaves |-> 0], color |-> "clear",
           buf |-> "none", opaque |-> FALSE, region |-> {}, bit |-> 0, late |-> {},
           visible |-> [n \in Leaves |-> {}], bbox |-> [t \in Trees |-> {}],
           valid |-> [t \in Trees |-> FALSE], active |-> {}, primary |-> "none",
           entered |-> {}, suspended |-> {}, ops |-> 0,
           out |-> [o \in SceneOutputs |-> NoOutput]]

-----------------------------------------------------------------------------
(* The tree. *)
RECURSIVE wlr_scene_node_coords(_, _)
wlr_scene_node_coords(st, n) ==
  IF n = "root" THEN [x |-> st.x[n], on |-> st.enabled[n]]
  ELSE LET up == wlr_scene_node_coords(st, st.parent[n]) IN
       [x |-> up.x + st.x[n], on |-> up.on /\ st.enabled[n]]

invalidate_own(st, n) ==
  IF n \in Trees THEN [st EXCEPT !.valid[n] = FALSE, !.bbox[n] = {}]
  ELSE [st EXCEPT !.valid[st.parent[n]] = FALSE, !.bbox[st.parent[n]] = {}]

(* Only up to the first ancestor that is invalid already. *)
RECURSIVE scene_node_invalidate_bounding_box(_, _)
scene_node_invalidate_bounding_box(st, n) ==
  LET own == IF n \in Trees THEN [st EXCEPT !.valid[n] = FALSE, !.bbox[n] = {}] ELSE st IN
  IF n # "root" /\ own.valid[own.parent[n]]
    THEN scene_node_invalidate_bounding_box(own, own.parent[n]) ELSE own

LeafBox(st, n) == 0..(st.len[n] - 1)

(* Relative to the node; a valid box is taken from the cache. *)
RECURSIVE scene_node_get_bounding_box(_, _)
scene_node_get_bounding_box(st, n) ==
  IF ~st.enabled[n] THEN {}
  ELSE IF n \in Leaves THEN LeafBox(st, n)
  ELSE IF st.valid[n] THEN st.bbox[n]
  ELSE Hull(UNION {Shift(scene_node_get_bounding_box(st, c), st.x[c]) : c \in Range(st.order[n])})

(* Asking for a box validates it and those of the enabled trees below. *)
RECURSIVE Cached(_, _)
Cached(st, n) ==
  IF n \notin Trees \/ ~st.enabled[n] \/ st.valid[n] THEN st
  ELSE LET kids == FoldLeft(Cached, st, st.order[n]) IN
       [kids EXCEPT !.valid[n] = TRUE, !.bbox[n] = scene_node_get_bounding_box(kids, n)]

(* Leaves from top to bottom whose box, and whose ancestors', meet cells.   *)
RECURSIVE scene_nodes_in_box(_, _, _, _)
scene_nodes_in_box(st, n, at, cells) ==
  IF ~st.enabled[n] \/ Shift(scene_node_get_bounding_box(st, n), at) \cap cells = {} THEN <<>>
  ELSE IF n \in Leaves THEN <<n>>
  ELSE FoldLeft(LAMBDA acc, c : scene_nodes_in_box(st, c, at + st.x[c], cells) \o acc,
                <<>>, st.order[n])

Abs(st, n) == Shift(LeafBox(st, n), wlr_scene_node_coords(st, n).x)

(* A buffer counts as opaque only while the pointer to it is known. *)
scene_node_opaque_region(st, n) ==
  IF n = "rect" THEN IF st.color \in {"solid", "black"} THEN Abs(st, n) ELSE {}
  ELSE IF st.buf \notin {"held", "lent"} THEN {}
  ELSE IF st.opaque THEN Abs(st, n)
  ELSE Shift(st.region \cap LeafBox(st, n), wlr_scene_node_coords(st, n).x)

RECURSIVE scene_node_visibility(_, _)
scene_node_visibility(st, n) ==
  IF ~st.enabled[n] THEN {}
  ELSE IF n \in Leaves THEN st.visible[n]
  ELSE UNION {scene_node_visibility(st, c) : c \in Range(st.order[n])}

RECURSIVE scene_node_boundary_region(_, _)
scene_node_boundary_region(st, n) ==
  IF ~st.enabled[n] THEN {}
  ELSE IF n \in Leaves THEN Abs(st, n)
  ELSE UNION {scene_node_boundary_region(st, c) : c \in Range(st.order[n])}

-----------------------------------------------------------------------------
(* Outputs and damage. *)
AliveOutputs(st) == {o \in SceneOutputs : st.out[o].alive}
OutputBox(st, o) == Shift(Screen, st.out[o].x)

scene_output_damage(st, o, cells) ==
  [st EXCEPT !.out[o].pending = @ \cup (cells \cap Screen),
             !.out[o].ring = @ \cup (cells \cap Screen)]

scene_output_damage_whole(st, o) == scene_output_damage(st, o, Screen)

scene_damage_outputs(st, cells) ==
  [st EXCEPT !.out = [o \in SceneOutputs |->
     IF st.out[o].alive
       THEN scene_output_damage(st, o, Shift(cells, -st.out[o].x)).out[o] ELSE @[o]]]

(* The surface leaves outputs when it is on others; with none at all it     *)
(* stays where it was and is suspended there.                               *)
handle_scene_buffer_outputs_update(st, on) ==
  IF on = {} THEN [st EXCEPT !.suspended = @ \cup (st.entered \cap AliveOutputs(st))]
  ELSE [st EXCEPT !.suspended = {}, !.entered = on]

(* Outputs with more than a tenth of what can be seen; the primary one is   *)
(* the last of those with the largest share.                                *)
Overlap(st, o) == Cardinality(st.visible["buffer"] \cap OutputBox(st, o))
ActiveOutputs(st, ignore) ==
  LET area == Cardinality(st.visible["buffer"]
                          \cap UNION {OutputBox(st, o) : o \in AliveOutputs(st)})
  IN {o \in AliveOutputs(st) \ {ignore} : st.out[o].on /\ 10 * Overlap(st, o) > area}

update_node_update_outputs(st, ignore) ==
  LET on == ActiveOutputs(st, ignore)
      best == {i \in DOMAIN SceneOutput :
                 /\ SceneOutput[i] \in on
                 /\ \A p \in on : Overlap(st, p) <= Overlap(st, SceneOutput[i])}
      primary == IF on = {} THEN "none" ELSE SceneOutput[MaxOf(best)]
  IN IF on = st.active /\ primary = st.primary THEN st
     ELSE handle_scene_buffer_outputs_update([st EXCEPT !.active = on, !.primary = primary], on)

(* acc.left: what of the region nothing above has hidden. *)
scene_node_update_iterator(acc, n) ==
  LET st == [acc.st EXCEPT !.visible[n] =
               ((@ \ acc.region) \cup acc.left) \cap Abs(acc.st, n)]
  IN [acc EXCEPT !.st = IF n = "buffer" THEN update_node_update_outputs(st, "none") ELSE st,
                 !.left = @ \ scene_node_opaque_region(st, n)]

scene_update_region(st, region) ==
  LET boxed == Cached(st, "root")
      nodes == scene_nodes_in_box(boxed, "root", boxed.x["root"], Hull(region))
      done == FoldLeft(scene_node_update_iterator,
                       [st |-> boxed, region |-> region, left |-> region], nodes).st
  IN [done EXCEPT !.late = @ \ region]

RECURSIVE scene_node_cleanup_when_disabled(_, _)
scene_node_cleanup_when_disabled(st, n) ==
  IF n \in Trees
    THEN FoldLeft(LAMBDA s, c : IF s.enabled[c] THEN scene_node_cleanup_when_disabled(s, c) ELSE s,
                  st, st.order[n])
    ELSE LET hidden == [st EXCEPT !.visible[n] = {}] IN
         IF n = "buffer" THEN update_node_update_outputs(hidden, "none") ELSE hidden

update_without_boundary(st, n, damage, given) ==
  IF ~wlr_scene_node_coords(st, n).on THEN st
  ELSE LET old == IF given THEN damage ELSE scene_node_visibility(st, n)
           new == scene_update_region(st, old)
       IN scene_damage_outputs(new, old \cup scene_node_visibility(new, n))

(* damage is what the node showed before, given when that is no longer      *)
(* known from the node itself.                                              *)
scene_node_update(st, n, damage, given) ==
  IF ~wlr_scene_node_coords(st, n).on
    THEN IF given
           THEN scene_damage_outputs(
                  scene_update_region(scene_node_cleanup_when_disabled(st, n), damage), damage)
           ELSE st
    ELSE LET old == IF given THEN damage ELSE scene_node_visibility(st, n)
             new == scene_update_region(st, old \cup scene_node_boundary_region(st, n))
         IN scene_damage_outputs(new, old \cup scene_node_visibility(new, n))

Touch(st, n) == scene_node_update(st, n, {}, FALSE)
Shown(st, n) == IF wlr_scene_node_coords(st, n).on THEN scene_node_visibility(st, n) ELSE {}

-----------------------------------------------------------------------------
(* What ought to be on the screen, from the tree alone: at each cell the    *)
(* contents from the top down to the first one that hides the rest.  A      *)
(* surface's opaque region is all or nothing, and all of an opaque buffer.  *)
Solid(st) == st.opaque \/ st.region # {}
Content(st, n) == IF n = "rect" THEN <<n, st.color>> ELSE <<n, Solid(st), st.bit>>

Drawn(st, n) == IF n = "rect" THEN st.color # "clear" ELSE st.buf # "none"

Hides(st, n) == IF n = "rect" THEN st.color \in {"solid", "black"}
                ELSE st.buf # "none" /\ Solid(st)

RECURSIVE TopToBottom(_, _)
TopToBottom(st, n) ==
  IF ~st.enabled[n] THEN <<>>
  ELSE IF n \in Leaves THEN <<n>>
  ELSE FoldLeft(LAMBDA acc, c : TopToBottom(st, c) \o acc, <<>>, st.order[n])

Above(st, c) ==
  SelectSeq(TopToBottom(st, "root"), LAMBDA n : Drawn(st, n) /\ c \in Abs(st, n))

RECURSIVE DownToOpaque(_, _)
DownToOpaque(st, s) ==
  IF s = <<>> THEN <<>>
  ELSE IF Hides(st, Head(s)) THEN <<Content(st, Head(s))>>
  ELSE <<Content(st, Head(s))>> \o DownToOpaque(st, Tail(s))

Picture(st, c) == DownToOpaque(st, Above(st, c))

(* Cells of the output at which leaves that can be seen are not drawn. *)
MissedCells(st, o) == {c \in Screen : c + st.out[o].x \in st.late}

(* After a step: the cells whose picture changed lag behind. *)
Differs(old, new, o) ==
  {c \in Screen : Picture(old, c + old.out[o].x) # Picture(new, c + new.out[o].x)}

Step(new) ==
  scene' = [new EXCEPT !.ops = @ + 1,
    !.out = [o \in SceneOutputs |->
      LET d == IF new.out[o].alive THEN Differs(scene, new, o) ELSE {}
          missed == d \cap MissedCells(new, o)
      IN [@[o] EXCEPT !.stale = @ \cup d, !.unpainted = @ \cup d,
                      !.excused = (@ \ d) \cup missed, !.culled = (@ \ d) \cup missed]]]

-----------------------------------------------------------------------------
(* Operations on nodes. *)
Inserted(st, n, t) ==
  [st EXCEPT !.parent[n] = t, !.order[t] = Append(@, n)]
Removed(st, n) ==
  [st EXCEPT !.order[st.parent[n]] = SelectSeq(@, LAMBDA c : c # n)]

scene_node_init(st, n, t) ==
  LET fresh == [st EXCEPT !.alive = @ \cup {n}, !.parent[n] = t, !.enabled[n] = TRUE, !.x[n] = 0]
  IN Inserted(scene_node_invalidate_bounding_box(fresh, n), n, t)

wlr_scene_tree_create(st) ==
  [scene_node_init(st, "tree", "root") EXCEPT !.order["tree"] = <<>>]

wlr_scene_rect_create(st, t, l, c) ==
  Touch([scene_node_init(st, "rect", t) EXCEPT !.len["rect"] = l, !.color = c,
                                               !.visible["rect"] = {}], "rect")

(* For a surface, which has no buffer yet. *)
wlr_scene_buffer_create(st, t) ==
  Touch([scene_node_init(st, "buffer", t) EXCEPT !.len["buffer"] = 0, !.buf = "none",
           !.opaque = FALSE, !.region = {}, !.visible["buffer"] = {}], "buffer")

CreateTree == "tree" \notin scene.alive /\ Step(wlr_scene_tree_create(scene))
CreateRect(t, l, c) ==
  "rect" \notin scene.alive /\ t \in scene.alive /\ Step(wlr_scene_rect_create(scene, t, l, c))
CreateBuffer(t) ==
  "buffer" \notin scene.alive /\ t \in scene.alive /\ Step(wlr_scene_buffer_create(scene, t))

wlr_scene_rect_set_size(l) ==
  /\ "rect" \in scene.alive /\ scene.len["rect"] # l
  /\ Step(Touch(scene_node_invalidate_bounding_box([scene EXCEPT !.len["rect"] = l], "rect"),
                "rect"))

wlr_scene_rect_set_color(c) ==
  /\ "rect" \in scene.alive /\ scene.color # c
  /\ Step(Touch([scene EXCEPT !.color = c], "rect"))

set_enabled_after(st, n, b) ==
  scene_node_update(scene_node_invalidate_bounding_box([st EXCEPT !.enabled[n] = b], n), n,
                    Shown([st EXCEPT !.enabled[n] = b], n), TRUE)

(* The visibility is taken before the flag changes. *)
wlr_scene_node_set_enabled(st, n, b) ==
  IF st.enabled[n] = b THEN st
  ELSE scene_node_update(scene_node_invalidate_bounding_box([st EXCEPT !.enabled[n] = b], n), n,
                         Shown(st, n), TRUE)

SetEnabled(n, b) ==
  /\ n \in scene.alive /\ scene.enabled[n] # b
  /\ Step(wlr_scene_node_set_enabled(scene, n, b))

wlr_scene_node_set_position(n, p) ==
  /\ n \in scene.alive \ {"root"} /\ scene.x[n] # p
  /\ Step(Touch(scene_node_invalidate_bounding_box([scene EXCEPT !.x[n] = p], n), n))

(* place_above and place_below, raise_to_top and lower_to_bottom. *)
wlr_scene_node_place(n, sibling, above) ==
  /\ {n, sibling} \subseteq scene.alive \ {"root"} /\ n # sibling
  /\ scene.parent[n] = scene.parent[sibling]
  /\ LET t == scene.parent[n]
         rest == SelectSeq(scene.order[t], LAMBDA c : c # n)
         i == CHOOSE k \in DOMAIN rest : rest[k] = sibling
         new == InsertAt(rest, IF above THEN i + 1 ELSE i, n)
     IN /\ new # scene.order[t]
        /\ Step(Touch([scene EXCEPT !.order[t] = new], n))

wlr_scene_node_reparent(n, t) ==
  /\ {n, t} \subseteq scene.alive /\ n \in Leaves /\ t \in Trees /\ scene.parent[n] # t
  /\ LET out == Removed(scene_node_invalidate_bounding_box(scene, n), n)
         in == scene_node_invalidate_bounding_box(Inserted(out, n, t), n)
     IN Step(scene_node_update(in, n, Shown(scene, n), TRUE))

scene_buffer_set_buffer(st, b, isOpaque) ==
  [scene_node_invalidate_bounding_box(st, "buffer") EXCEPT !.buf = b, !.opaque = isOpaque]

(* Children are disabled and removed after their parent is disabled.        *)
RECURSIVE wlr_scene_node_destroy(_, _)
wlr_scene_node_destroy(st, n) ==
  LET off == wlr_scene_node_set_enabled(st, n, FALSE)
      bare == IF n = "buffer"
                THEN [scene_buffer_set_buffer(off, "none", FALSE) EXCEPT
                        !.entered = {}, !.suspended = {}]
              ELSE IF n \in Trees
                THEN FoldLeft(wlr_scene_node_destroy, off, off.order[n])
              ELSE off
  IN [Removed(bare, n) EXCEPT !.alive = @ \ {n}]

Destroy(n) ==
  /\ n \in scene.alive \ {"root"}
  /\ Step(wlr_scene_node_destroy(scene, n))

(* Without damage the whole buffer counts; mapping or unmapping moves what  *)
(* is visible, else only visible cells are damaged: what the former buffer  *)
(* hid stays hidden although the new one may not be opaque.                 *)
wlr_scene_buffer_set_buffer_with_options(st, mapped, isOpaque) ==
  LET was == st.buf # "none"
      new == [scene_buffer_set_buffer(st, IF mapped THEN "held" ELSE "none", isOpaque)
              EXCEPT !.bit = 1 - @]
  IN IF ~mapped /\ ~was THEN st
     ELSE IF mapped # was THEN Touch(new, "buffer")
     ELSE IF ~wlr_scene_node_coords(new, "buffer").on THEN new
     ELSE [scene_damage_outputs(new, new.visible["buffer"]) EXCEPT
             !.late = @ \cup (scene_node_opaque_region(st, "buffer")
                              \ scene_node_opaque_region(new, "buffer"))]

wlr_scene_buffer_set_opaque_region(st, region) ==
  LET new == [st EXCEPT !.region = region] IN
  IF st.region = region \/ ~wlr_scene_node_coords(st, "buffer").on THEN new
  ELSE scene_update_region(new, scene_node_boundary_region(new, "buffer"))

wlr_scene_buffer_set_dest_size(st, l) ==
  IF st.len["buffer"] = l THEN st
  ELSE Touch(scene_node_invalidate_bounding_box([st EXCEPT !.len["buffer"] = l], "buffer"),
             "buffer")

(* A buffer without alpha, with alpha, and with alpha all of which the      *)
(* client says is opaque.                                                   *)
Formats == {"xrgb", "argb", "hinted"}
surface_update_opaque_region(format, l) == IF format = "argb" THEN {} ELSE 0..(l - 1)

(* The surface committed.  Its opaque region comes first, while the former  *)
(* buffer is there, and without damage, then size and buffer; without a     *)
(* buffer the size and the region are kept.                                 *)
surface_reconfigure(st, mapped, format, l) ==
  IF ~mapped THEN wlr_scene_buffer_set_buffer_with_options(st, FALSE, FALSE)
  ELSE wlr_scene_buffer_set_buffer_with_options(
         wlr_scene_buffer_set_dest_size(
           wlr_scene_buffer_set_opaque_region(st, surface_update_opaque_region(format, l)), l),
         TRUE, format = "xrgb")

SurfaceCommit(mapped, format, l) ==
  "buffer" \in scene.alive /\ Step(surface_reconfigure(scene, mapped, format, l))

(* A buffer that no client reuses in place is copied once and given back.   *)
scene_buffer_get_texture(st) == IF st.buf = "held" THEN [st EXCEPT !.buf = "lent"] ELSE st

scene_buffer_handle_buffer_release ==
  scene.buf = "lent" /\ Step([scene EXCEPT !.buf = "gone"])

-----------------------------------------------------------------------------
(* Outputs. *)
geometry_damage_only(st, o) == scene_output_damage_whole(st, o)

scene_output_update_geometry(st, o) ==
  update_node_update_outputs(scene_output_damage_whole(st, o), "none")

wlr_scene_output_create(st, o, p) ==
  [scene_output_update_geometry(
     [st EXCEPT !.out[o] = [NoOutput EXCEPT !.alive = TRUE, !.x = p]], o)
   EXCEPT !.out[o].stale = Screen, !.out[o].unpainted = Screen]

CreateOutput(o, p) == ~scene.out[o].alive /\ Step(wlr_scene_output_create(scene, o, p))

(* With the output itself: its surfaces are taken off it as well. *)
wlr_scene_output_destroy(o) ==
  /\ scene.out[o].alive
  /\ LET st == update_node_update_outputs(scene, o) IN
     Step([st EXCEPT !.out[o] = NoOutput, !.entered = @ \ {o}, !.suspended = @ \ {o}])

wlr_scene_output_set_position(o, p) ==
  /\ scene.out[o].alive /\ scene.out[o].x # p
  /\ Step(scene_output_update_geometry([scene EXCEPT !.out[o].x = p], o))

(* The compositor turns the output on or off, or sets a mode. *)
scene_output_handle_enabled(o, b) ==
  /\ scene.out[o].alive
  /\ Step(scene_output_update_geometry([scene EXCEPT !.out[o].on = b], o))

scene_node_invisible(st, n) == ~Drawn(st, n)

(* Black that covers is left to the black background. *)
construct_render_list(st, o) ==
  SelectSeq(scene_nodes_in_box(Cached(st, "root"), "root", 0, OutputBox(st, o)),
            LAMBDA n : /\ ~scene_node_invisible(st, n)
                       /\ ~(n = "rect" /\ st.color = "black")
                       /\ st.visible[n] \cap OutputBox(st, o) # {})

scene_output_handle_commit(st, o, damage) == [st EXCEPT !.out[o].pending = @ \ damage]

(* One buffer covers what is visible: it is shown itself, whole.            *)
scene_entry_try_direct_scanout(o) ==
  LET s == scene.out[o]
      hidden == {c \in Screen : c + s.x \in Abs(scene, "buffer") \ scene.visible["buffer"]}
                \cup MissedCells(scene, o)
  IN /\ s.alive /\ s.on /\ s.pending # {}
     /\ construct_render_list(scene, o) = <<"buffer">> /\ scene.buf \in {"held", "lent"}
     /\ LET st == scene_output_handle_commit(scene, o, s.pending) IN
        scene' = [st EXCEPT !.ops = @ + 1, !.out[o].stale = (@ \ s.pending) \cup hidden,
                            !.out[o].excused = (@ \ s.pending) \cup hidden]

(* A buffer whose texture cannot be made is skipped: the cells that are     *)
(* not painted.                                                             *)
scene_entry_render(st, o, missing) ==
  IF missing /\ "buffer" \in Range(construct_render_list(st, o)) /\ st.buf = "held"
    THEN Shift(st.visible["buffer"], -st.out[o].x) \cap st.out[o].ring ELSE {}

(* The ring says which cells of the buffer to paint; skipped cells are      *)
(* damaged again.                                                           *)
wlr_scene_output_build_state(st, o, missing) ==
  LET painted == "buffer" \in Range(construct_render_list(st, o)) /\ ~missing
      tex == IF painted THEN scene_buffer_get_texture(st) ELSE st
      skipped == scene_entry_render(st, o, missing)
      missed == st.out[o].ring \cap MissedCells(st, o)
      rotated == [tex EXCEPT !.out[o].unpainted = (@ \ st.out[o].ring) \cup skipped \cup missed,
                             !.out[o].culled = (@ \ st.out[o].ring) \cup missed,
                             !.out[o].ring = {}]
  IN scene_output_damage(rotated, o, skipped)

wlr_scene_output_commit(o, missing) ==
  LET s == scene.out[o]
      st == wlr_scene_output_build_state(scene, o, missing)
      done == scene_output_handle_commit(st, o, s.pending)
  IN /\ s.alive /\ s.on /\ s.pending # {}
     /\ scene' = [done EXCEPT !.ops = @ + 1,
                    !.out[o].stale = (@ \ s.pending) \cup done.out[o].unpainted,
                    !.out[o].excused = (@ \ s.pending) \cup done.out[o].unpainted]

(* The frame was painted but the output refused it. *)
CommitRefused(o) ==
  /\ scene.out[o].alive /\ scene.out[o].pending # {}
  /\ scene' = [wlr_scene_output_build_state(scene, o, FALSE) EXCEPT !.ops = @ + 1]

(* The renderer failed: what is in the buffer is unknown. *)
SubmitFailed(o) ==
  /\ scene.out[o].alive /\ scene.out[o].pending # {}
  /\ scene' = [scene EXCEPT !.ops = @ + 1, !.out[o].unpainted = Screen, !.out[o].ring = Screen]

(* An empty scene, or one with an output, a tree, a rectangle in it and a  *)
(* surface with a buffer.                                                   *)
SceneInit ==
  LET base == wlr_scene_tree_create(wlr_scene_output_create(wlr_scene_create, SceneOutput[1], 0)) IN
  \/ scene = wlr_scene_create
  \/ \E u \in Trees :
       scene = surface_reconfigure(
         wlr_scene_buffer_create(wlr_scene_rect_create(base, "tree", MaxOf(SceneLen), "solid"), u),
         TRUE, "argb", MaxOf(SceneLen))

SceneStep ==
  \/ CreateTree
  \/ \E t \in Trees, l \in SceneLen, c \in Colors : CreateRect(t, l, c)
  \/ \E t \in Trees : CreateBuffer(t)
  \/ \E l \in SceneLen : wlr_scene_rect_set_size(l)
  \/ \E c \in Colors : wlr_scene_rect_set_color(c)
  \/ \E n \in SceneNodes, b \in BOOLEAN : SetEnabled(n, b)
  \/ \E n \in SceneNodes, p \in ScenePos : wlr_scene_node_set_position(n, p)
  \/ \E n, m \in SceneNodes, b \in BOOLEAN : wlr_scene_node_place(n, m, b)
  \/ \E n \in Leaves, t \in Trees : wlr_scene_node_reparent(n, t)
  \/ \E n \in SceneNodes : Destroy(n)
  \/ \E f \in Formats, l \in SceneLen : SurfaceCommit(TRUE, f, l)
  \/ SurfaceCommit(FALSE, "argb", 0)
  \/ scene_buffer_handle_buffer_release
  \/ \E o \in SceneOutputs, p \in ScenePos : CreateOutput(o, p)
  \/ \E o \in SceneOutputs : wlr_scene_output_destroy(o)
  \/ \E o \in SceneOutputs, p \in ScenePos : wlr_scene_output_set_position(o, p)
  \/ \E o \in SceneOutputs, b \in BOOLEAN : scene_output_handle_enabled(o, b)
  \/ \E o \in SceneOutputs : scene_entry_try_direct_scanout(o)
  \/ \E o \in SceneOutputs, m \in BOOLEAN : wlr_scene_output_commit(o, m)
  \/ \E o \in SceneOutputs : CommitRefused(o)
  \/ \E o \in SceneOutputs : SubmitFailed(o)

SceneNext == scene.ops < MaxSceneOps /\ SceneStep

-----------------------------------------------------------------------------
(* Every cell at which the screen lags behind the scene is damaged, so that *)
(* the next frame repaints it, and every cell of the output's buffer that   *)
(* is out of date is in its ring.  Excused are cells whose texture could    *)
(* not be made (the commit takes their new damage away with the old), cells *)
(* of a scanned-out buffer that lie under a black rectangle, and cells      *)
(* painted without what an opaque buffer, replaced since, still hides.      *)
DamageComplete ==
  \A o \in AliveOutputs(scene) :
    LET s == scene.out[o] IN s.stale \ s.excused \subseteq s.pending /\ s.unpainted \ s.culled \subseteq s.ring

(* The visible region kept for a leaf contains every cell that no opaque    *)
(* leaf above hides, and nothing outside the leaf or of a hidden leaf;      *)
(* excused are the cells of an opaque buffer that was replaced by one with  *)
(* alpha and the same size, for which nothing recomputes what is below      *)
(* until a node there is updated for another reason.                        *)
VisibleSound ==
  \A n \in Leaves \cap scene.alive :
    LET at == wlr_scene_node_coords(scene, n)
        free == {c \in Abs(scene, n) :
                   LET up == Above(scene, c) IN
                   \A i \in DOMAIN up : Hides(scene, up[i]) =>
                     \E j \in 1..i : up[j] = n}
    IN IF at.on THEN scene.visible[n] \subseteq Abs(scene, n)
                     /\ (Drawn(scene, n) => free \ scene.late \subseteq scene.visible[n])
       ELSE scene.visible[n] = {}

(* A valid bounding box is that of the node's enabled descendants. *)
BoxesCached ==
  \A t \in Trees \cap scene.alive :
    scene.valid[t] => scene.bbox[t] =
      scene_node_get_bounding_box([scene EXCEPT !.valid = [u \in Trees |-> FALSE],
                                                !.enabled[t] = TRUE], t)

(* The outputs a surface was told it is on are those that show it, the one  *)
(* that paces its frames among them.                                        *)
OutputsKnown ==
  "buffer" \in scene.alive =>
    /\ scene.active = ActiveOutputs(scene, "none")
    /\ scene.active # {} => scene.entered = scene.active /\ scene.suspended = {}
                            /\ scene.primary \in scene.active
    /\ scene.active = {} => scene.entered \subseteq scene.suspended

-----------------------------------------------------------------------------
(***************************************************************************)
(* What keeps a scene in step with surfaces: the stacking order of sub-     *)
(* surfaces, requested by the client, applied with commits of the parent    *)
(* that may wait in the cache, and copied into the scene tree one node at a *)
(* time; and the arrangement of two layer surfaces on one axis of an output.*)
(***************************************************************************)
CONSTANTS StackSub, MaxStackCached, MaxStackOps,
          ArrangeArea,          \* length of the output on the axis
          ArrangeLen, ArrangeMargin, ArrangeZone

VARIABLES stack, arrange

Without(s, c) == SelectSeq(s, LAMBDA d : d # c)

-----------------------------------------------------------------------------
(* A state lists the sub-surfaces below and above the parent, bottom first; *)
(* tree is the order of the nodes; asked what the client's last commit that *)
(* was applied said.                                                        *)
StackState == [below |-> <<>>, above |-> <<>>]

StackInit ==
  stack = [alive |-> {}, added |-> {}, pending |-> StackState, cached |-> <<>>,
           current |-> StackState, tree |-> <<"self">>, asked |-> <<"self">>, waiting |-> <<>>,
           ops |-> 0]

Flat(s) == s.below \o <<"self">> \o s.above
Drop(s, c) == [below |-> Without(s.below, c), above |-> Without(s.above, c)]

StackStep(new) == stack.ops < MaxStackOps /\ stack' = [new EXCEPT !.ops = @ + 1]

subcompositor_handle_get_subsurface(c) ==
  /\ c \notin stack.alive
  /\ StackStep([stack EXCEPT !.alive = @ \cup {c}, !.pending.above = Append(@, c)])

(* Directly above or below a sibling or the parent. *)
Placed(s, c, sibling, above) ==
  LET rest == Drop(s, c)
      at(list) == CHOOSE i \in DOMAIN list : list[i] = sibling
      into(list) == InsertAt(list, IF above THEN at(list) + 1 ELSE at(list), c)
  IN IF sibling = "self"
       THEN IF above THEN [rest EXCEPT !.above = <<c>> \o @] ELSE [rest EXCEPT !.below = Append(@, c)]
     ELSE IF sibling \in Range(rest.below) THEN [rest EXCEPT !.below = into(@)]
     ELSE [rest EXCEPT !.above = into(@)]

subsurface_handle_place(c, sibling, above) ==
  /\ c \in stack.alive /\ c # sibling /\ (sibling = "self" \/ sibling \in stack.alive)
  /\ StackStep([stack EXCEPT !.pending = Placed(@, c, sibling, above)])

surface_state_move_prepend(state, next) ==
  [below |-> next.below \o SelectSeq(state.below, LAMBDA c : c \notin Range(next.below \o next.above)),
   above |-> state.above \o SelectSeq(next.above, LAMBDA c : c \notin Range(state.above))]

(* Each is taken out of where it was and put last into its list. *)
surface_state_move(state, next) ==
  LET moved(list, names) == FoldLeft(LAMBDA l, c : Append(Without(l, c), c), list, names)
      gone(list, names) == SelectSeq(list, LAMBDA c : c \notin Range(names))
  IN [below |-> moved(gone(state.below, next.above), next.below),
      above |-> moved(gone(state.above, next.below), next.above)]

place_above(tree, n, sibling) ==
  LET rest == Without(tree, n)
      i == CHOOSE k \in DOMAIN rest : rest[k] = sibling
  IN InsertAt(rest, i + 1, n)

(* Walks the list and places each node above the one before. *)
subsurface_tree_reconfigure(tree, s) ==
  LET names == Flat(s) IN
  FoldLeft(LAMBDA t, i : IF i = 1 THEN t ELSE place_above(t, names[i], names[i - 1]),
           tree, [i \in DOMAIN names |-> i])

(* New sub-surfaces are announced first and get a node on top. *)
surface_commit_state(st, next, asked) ==
  LET cur == surface_state_move(st.current, next)
      fresh == SelectSeq(cur.below \o cur.above, LAMBDA c : c \notin st.added)
      tree == st.tree \o fresh
  IN [st EXCEPT !.current = cur, !.added = @ \cup Range(fresh), !.asked = asked,
                !.tree = subsurface_tree_reconfigure(tree, cur)]

surface_handle_commit(cache) ==
  /\ IF cache \/ stack.cached # <<>>
       THEN /\ Len(stack.cached) < MaxStackCached
            /\ StackStep([stack EXCEPT !.cached = Append(@, surface_state_move(StackState, stack.pending)),
                                       !.waiting = Append(@, Flat(stack.pending))])
       ELSE StackStep(surface_commit_state(stack, stack.pending, Flat(stack.pending)))

CachedCommit ==
  /\ stack.cached # <<>>
  /\ StackStep([surface_commit_state(stack, Head(stack.cached), Head(stack.waiting)) EXCEPT
                  !.cached = Tail(@), !.waiting = Tail(@)])

(* The sub-surface leaves every state and its node goes. *)
subsurface_destroy(c) ==
  /\ c \in stack.alive
  /\ StackStep([stack EXCEPT !.alive = @ \ {c}, !.added = @ \ {c}, !.tree = Without(@, c),
                  !.asked = Without(@, c), !.waiting = [i \in DOMAIN @ |-> Without(@[i], c)],
                  !.pending = Drop(@, c), !.current = Drop(@, c),
                  !.cached = [i \in DOMAIN @ |-> Drop(@[i], c)]])

StackNext ==
  \/ \E c \in StackSub : subcompositor_handle_get_subsurface(c) \/ subsurface_destroy(c)
  \/ \E c \in StackSub, s \in StackSub \cup {"self"}, b \in BOOLEAN : subsurface_handle_place(c, s, b)
  \/ \E b \in BOOLEAN : surface_handle_commit(b)
  \/ CachedCommit

(* The current order and that of the scene nodes are what the client asked  *)
(* for with the last commit that took effect, whatever was created,         *)
(* destroyed or moved between its lists while commits waited.               *)
StackingAgreed == Flat(stack.current) = stack.asked /\ stack.tree = stack.asked

-----------------------------------------------------------------------------
(* wlr_scene_layer_surface_v1_configure on one axis: a surface asks for a   *)
(* length (0: what is there), anchors and an exclusive zone at its edge.    *)
Anchors == SUBSET {"start", "end"}
ArrangeAsk == [len : ArrangeLen, anchor : Anchors, margin : ArrangeMargin, zone : ArrangeZone,
               mapped : BOOLEAN]

(* Without a length the surface must be anchored to both edges; the zone    *)
(* counts for a mapped surface anchored to one edge.                        *)
Legal(a) == a.len = 0 => a.anchor = {"start", "end"}

PlaceOnAxis(a, bounds) ==
  IF a.len = 0 THEN [x |-> bounds.x + a.margin, len |-> bounds.len - 2 * a.margin]
  ELSE [len |-> a.len,
        x |-> IF a.anchor = {"start"} THEN bounds.x + a.margin
              ELSE IF a.anchor = {"end"} THEN bounds.x + bounds.len - a.len - a.margin
              ELSE bounds.x + bounds.len \div 2 - a.len \div 2]

NonNegative(n) == IF n < 0 THEN 0 ELSE n

zone_without_margin(a, usable) ==
  IF a.anchor = {"start"} THEN [x |-> usable.x + a.zone, len |-> NonNegative(usable.len - a.zone)]
  ELSE [usable EXCEPT !.len = NonNegative(@ - a.zone)]

layer_surface_exclusive_zone(a, usable) ==
  LET taken == a.zone + a.margin IN
  IF a.anchor = {"start"} THEN [x |-> usable.x + taken, len |-> NonNegative(usable.len - taken)]
  ELSE [usable EXCEPT !.len = NonNegative(@ - taken)]

wlr_scene_layer_surface_v1_configure(a, full, usable) ==
  LET bounds == IF a.zone = -1 THEN full ELSE usable IN
  [box |-> PlaceOnAxis(a, bounds),
   usable |-> IF a.mapped /\ a.zone > 0 /\ a.anchor \in {{"start"}, {"end"}}
                THEN layer_surface_exclusive_zone(a, usable) ELSE usable]

FullArea == [x |-> 0, len |-> ArrangeArea]

(* areas[i]: the usable area when the i-th surface is placed. *)
ArrangeInit == arrange = [asks |-> <<>>, boxes |-> <<>>, areas |-> <<FullArea>>]

(* One surface after the other, as the compositor goes through its list. *)
ArrangeNext ==
  /\ Len(arrange.asks) < 2
  /\ \E a \in ArrangeAsk :
       /\ Legal(a)
       /\ LET r == wlr_scene_layer_surface_v1_configure(a, FullArea, Last(arrange.areas)) IN
          arrange' = [asks |-> Append(arrange.asks, a), boxes |-> Append(arrange.boxes, r.box),
                      areas |-> Append(arrange.areas, r.usable)]

Inside(b, area) == b.x >= area.x /\ b.x + b.len <= area.x + area.len
Disjoint(b, area) == b.x + b.len <= area.x \/ area.x + area.len <= b.x

Reserves(a) == a.mapped /\ a.anchor \in {{"start"}, {"end"}} /\ a.len <= a.zone
Fits(a, area) ==
  /\ a.zone # -1
  /\ area.len >= IF a.len = 0 THEN 2 * a.margin
                 ELSE a.len + IF a.anchor \in {{"start"}, {"end"}} THEN a.margin ELSE 0

(* A mapped surface no longer than the zone it reserves is left clear: no   *)
(* area that remains usable after it meets it, and what asks to keep clear  *)
(* and fits, its margin included, is placed inside the area usable then.    *)
ZonesKept ==
  \A i \in DOMAIN arrange.asks :
    /\ \A j \in DOMAIN arrange.areas :
         i < j /\ Reserves(arrange.asks[i]) /\ arrange.areas[j].len > 0
           => Disjoint(arrange.boxes[i], arrange.areas[j])
    /\ Fits(arrange.asks[i], arrange.areas[i]) => Inside(arrange.boxes[i], arrange.areas[i])
=============================================================================
