------------------------------- MODULE Popups -------------------------------
(***************************************************************************)
(* xdg_popup: popups on a toplevel and on one another, their configures    *)
(* and repositions, and the grab the shell keeps for a seat.  PopRoot is a *)
(* mapped toplevel of the same client.  Clients reposition a popup after   *)
(* its initial commit only.                                                *)
(***************************************************************************)
EXTENDS Integers, FiniteSets
CONSTANTS PopSurface, PopRoot, NoPop

ASSUME PopAssumption == PopRoot \notin PopSurface /\ NoPop \notin PopSurface \cup {PopRoot}

VARIABLE pop

GrabKinds == {"pointer", "keyboard", "touch"}

(* res: surfaces with a popup resource; obj: those whose popup object       *)
(* exists, the others were dismissed; parent: of the object; init, conf,    *)
(* mapped, idle: initialized, configured, mapped, configure_idle; token: a  *)
(* reposition is scheduled; asked: the client waits for repositioned;       *)
(* flight: configures sent and not acknowledged; list: popups of the grab,  *)
(* in whatever order; grabs: the seat's grabs that are the popup grab;      *)
(* torn: the list was corrupted; client: connected.                         *)
PopInit ==
  pop = [res |-> {}, obj |-> {}, parent |-> [s \in PopSurface |-> NoPop],
         init |-> {}, conf |-> {}, mapped |-> {}, idle |-> {}, token |-> {}, asked |-> {},
         flight |-> {}, list |-> {}, grabs |-> {}, torn |-> FALSE, root |-> TRUE, client |-> TRUE]

Children(st, s) == {c \in st.obj : st.parent[c] = s}

(* The popups below s and s itself, as long as their objects exist: what    *)
(* every set holds that has s and the children of its members.              *)
Below(st, s) ==
  {c \in st.obj \cup {s} :
     \A S \in SUBSET PopSurface :
       s \in S /\ (\A d \in st.obj : st.parent[d] \in S => d \in S) => c \in S}

-----------------------------------------------------------------------------
(* Grab. *)

(* The popups of the grab are sent popup_done; the three grabs end.  The   *)
(* pointer grab's cancel handler comes back and finds the default grabs.   *)
xdg_popup_grab_end(st) == [st EXCEPT !.grabs = {}]

(* Popups that go, ps, leave the grab; the last one takes it with it.  A   *)
(* corrupted list is never seen empty.                                     *)
reset_keeps_grab(st, ps) == IF st.torn THEN st ELSE [st EXCEPT !.list = @ \ ps]

reset_xdg_popup(st, ps) ==
  IF st.torn \/ ps \cap st.list = {} THEN st
  ELSE [st EXCEPT !.list = @ \ ps, !.grabs = IF st.list \subseteq ps THEN {} ELSE @]

(* Each is sent popup_done, children first. *)
destroy_xdg_popup(st, ps) ==
  [reset_xdg_popup([st EXCEPT !.mapped = @ \ ps], ps) EXCEPT
     !.obj = @ \ ps, !.parent = [s \in PopSurface |-> IF s \in ps THEN NoPop ELSE @[s]],
     !.token = @ \ ps, !.asked = @ \ ps]

wlr_xdg_popup_destroy(st, s) == destroy_xdg_popup(st, Below(st, s) \cap st.obj)

reset_keeps_popups(st, s) ==
  [st EXCEPT !.init = @ \ {s}, !.conf = @ \ {s}, !.idle = @ \ {s}, !.flight = @ \ {s}]

(* Back to a surface that needs an initial commit, without popups. *)
reset_xdg_surface(st, s) ==
  LET closed == destroy_xdg_popup(st, UNION {Below(st, c) : c \in Children(st, s)}) IN
  [closed EXCEPT !.init = @ \ {s}, !.conf = @ \ {s}, !.idle = @ \ {s}, !.flight = @ \ {s}]

-----------------------------------------------------------------------------
(* The client's requests. *)

(* The parent has a role; a dismissed popup still counts. *)
create_xdg_popup(s, p) ==
  /\ pop.client /\ s \notin pop.res /\ s # p
  /\ p \in pop.res \cup (IF pop.root THEN {PopRoot} ELSE {})
  /\ pop' = [pop EXCEPT !.res = @ \cup {s}, !.obj = @ \cup {s}, !.parent[s] = p]

(* The compositor answers an initial commit by scheduling a configure. *)
CommitInitial(s) ==
  /\ s \in pop.res \ pop.init
  /\ pop' = [pop EXCEPT !.init = @ \cup {s}, !.idle = IF s \in pop.obj THEN @ \cup {s} ELSE @]

(* With a buffer, once configured, an existing popup is mapped. *)
CommitBuffer(s) ==
  /\ s \in (pop.obj \cap pop.init \cap pop.conf) \ pop.mapped
  /\ pop' = [pop EXCEPT !.mapped = @ \cup {s}]

(* Unmapped by a commit without buffer: the popup object stays. *)
CommitNull(s) ==
  /\ s \in pop.mapped
  /\ pop' = reset_xdg_surface(reset_xdg_popup([pop EXCEPT !.mapped = @ \ {s}], {s}), s)

xdg_surface_role_commit(s) ==
  pop.client /\ (CommitInitial(s) \/ CommitBuffer(s) \/ CommitNull(s))

(* Refused on a mapped popup and on one that has popups itself.  A popup    *)
(* that has the grab already is linked a second time: it then follows       *)
(* itself, the list no longer leads back to its head and keeps it for good. *)
xdg_popup_handle_grab(s) ==
  /\ pop.client /\ s \in pop.obj \ pop.mapped /\ Children(pop, s) = {}
  /\ pop' = [pop EXCEPT !.list = @ \cup {s}, !.grabs = GrabKinds, !.torn = @ \/ s \in pop.list]

reposition_unscheduled(s) ==
  /\ pop.client /\ s \in pop.obj \cap pop.init
  /\ pop' = [pop EXCEPT !.token = @ \cup {s}, !.asked = @ \cup {s}]

xdg_popup_handle_reposition(s) ==
  /\ pop.client /\ s \in pop.obj \cap pop.init
  /\ pop' = [pop EXCEPT !.token = @ \cup {s}, !.asked = @ \cup {s}, !.idle = @ \cup {s}]

(* The repositioned event goes out with the configure; the surface of a     *)
(* dismissed popup is sent a bare one.                                      *)
send_xdg_popup_configure(s) ==
  /\ s \in pop.idle
  /\ pop' = [pop EXCEPT !.idle = @ \ {s}, !.flight = @ \cup {s},
                        !.token = @ \ {s}, !.asked = @ \ (pop.token \cap {s})]

handle_xdg_popup_ack_configure(s) ==
  /\ pop.client /\ s \in pop.res \cap pop.flight
  /\ pop' = [pop EXCEPT !.flight = @ \ {s}, !.conf = @ \cup {s}]

(* The client must close the topmost popup first; a client that went away  *)
(* loses its resources in any order.                                       *)
xdg_popup_handle_destroy(s) ==
  /\ s \in pop.res /\ (pop.client /\ s \in pop.obj => Children(pop, s) = {})
  /\ LET st == IF s \in pop.obj THEN destroy_xdg_popup(pop, {s}) ELSE pop IN
     pop' = [reset_xdg_surface(st, s) EXCEPT !.res = @ \ {s}]

(* The toplevel below is unmapped or destroyed. *)
ResetRoot == pop.root /\ pop' = [reset_xdg_surface(pop, PopRoot) EXCEPT !.root = pop.client]
Disconnect == pop.client /\ pop' = [pop EXCEPT !.client = FALSE]

-----------------------------------------------------------------------------
(* The compositor and the seat. *)
Dismiss(s) == s \in pop.obj /\ pop' = wlr_xdg_popup_destroy(pop, s)
ClickOutside == pop.grabs # {} /\ pop' = xdg_popup_grab_end(pop)
StartOtherGrab == pop.grabs # {} /\ pop' = [pop EXCEPT !.grabs = {}]

wlr_xdg_surface_schedule_configure(s) ==
  s \in (pop.obj \cap pop.init) \ pop.idle /\ pop' = [pop EXCEPT !.idle = @ \cup {s}]

PopNext ==
  \/ \E s \in PopSurface :
       \/ \E p \in PopSurface \cup {PopRoot} : create_xdg_popup(s, p)
       \/ xdg_surface_role_commit(s)
       \/ xdg_popup_handle_grab(s)
       \/ xdg_popup_handle_reposition(s)
       \/ send_xdg_popup_configure(s)
       \/ handle_xdg_popup_ack_configure(s)
       \/ xdg_popup_handle_destroy(s)
       \/ Dismiss(s)
       \/ wlr_xdg_surface_schedule_configure(s)
  \/ ResetRoot \/ Disconnect \/ ClickOutside \/ StartOtherGrab

PopSpec == PopInit /\ [][PopNext]_pop

-----------------------------------------------------------------------------
(* Popups go with what they stand on: no popup object outlives the surface *)
(* it was created on, or the mapping of its toplevel; and unless a client   *)
(* asked for the grab of one popup twice, the grab holds existing popups    *)
(* only, and the seat's grabs are the shell's only while a popup is left to *)
(* release them.                                                            *)
PopupsOwned ==
  /\ \A s \in pop.obj : pop.parent[s] \in pop.res \cup (IF pop.root THEN {PopRoot} ELSE {})
  /\ pop.mapped \subseteq pop.obj
  /\ ~pop.torn => pop.list \subseteq pop.obj /\ (pop.grabs # {} => pop.list # {})

(* A client that asked for a new position waits for repositioned: the       *)
(* configure that carries it is on its way while the popup is initialized,  *)
(* also when it was unmapped and mapped again in between.                   *)
RepositionAnswered == pop.asked \cap pop.init \subseteq pop.idle \cap pop.token

-----------------------------------------------------------------------------
(***************************************************************************)
(* The xdg_positioner: where a popup goes relative to its anchor rectangle *)
(* and how it is moved into the area the compositor allows.  Both axes are *)
(* treated alike: an anchor or gravity is -1 (left, top), 0 (none) or 1    *)
(* (right, bottom) on each axis, a box is [pos, len] on each axis.         *)
(* TLC checks every choice of rules; one step runs the algorithm.          *)
(***************************************************************************)
CONSTANTS AnchorPos,   \* positions of the anchor rectangle
          PopupLen,    \* lengths of the popup
          RectLen,     \* lengths of the anchor rectangle
          AreaLen,     \* length of the area, which starts at 0
          Adjustments  \* sets of constraint adjustments

ASSUME PositionerAssumption == /\ AnchorPos \subseteq Int /\ AreaLen \in Nat \ {0}
                               /\ PopupLen \cup RectLen \subseteq Nat \ {0}

VARIABLE placing

Axes == {"x", "y"}
Sides == {-1, 0, 1}
Area == [pos |-> 0, len |-> AreaLen]

Rules == [rect: [pos: AnchorPos, len: RectLen], len: PopupLen, anchor: Sides, gravity: Sides]

-----------------------------------------------------------------------------
(* The place the rules ask for, on one axis. *)
wlr_xdg_positioner_rules_get_geometry(r) ==
  LET at == r.rect.pos + (CASE r.anchor = -1 -> 0 [] r.anchor = 1 -> r.rect.len
                            [] OTHER -> r.rect.len \div 2)
      back == CASE r.gravity = -1 -> r.len [] r.gravity = 1 -> 0 [] OTHER -> r.len \div 2
  IN [pos |-> at - back, len |-> r.len]

(* How far the box sticks out on the low and the high side. *)
get_constrained_box_offsets(b) ==
  [lo |-> Area.pos - b.pos, hi |-> b.pos + b.len - Area.pos - Area.len]

AxisFree(o) == o.lo <= 0 /\ o.hi <= 0
is_unconstrained(offs) == \A a \in Axes : AxisFree(offs[a])

xdg_positioner_anchor_invert(r) == [r EXCEPT !.anchor = -@, !.gravity = -@]

(* Each operator maps the boxes and offsets of both axes to new ones; the  *)
(* offsets are not recomputed by a flip that did not help.                 *)
xdg_positioner_rules_unconstrain_by_flip(rules, adj, st) ==
  LET flips == {a \in Axes : /\ (st.offs[a].lo > 0) # (st.offs[a].hi > 0)
                             /\ <<"flip", a>> \in adj}
      flipped == [a \in Axes |-> wlr_xdg_positioner_rules_get_geometry(
                    IF a \in flips THEN xdg_positioner_anchor_invert(rules[a]) ELSE rules[a])]
      offs == [a \in Axes |-> get_constrained_box_offsets(flipped[a])]
  IN IF flips = {} THEN st
     ELSE [box |-> [a \in Axes |-> IF AxisFree(offs[a]) THEN [st.box[a] EXCEPT !.pos = flipped[a].pos]
                                   ELSE st.box[a]],
           offs |-> [a \in Axes |-> IF AxisFree(offs[a]) THEN offs[a] ELSE st.offs[a]]]

Abs(i) == IF i > 0 THEN i ELSE -i

SlideLonger(r, o) ==
  IF o.lo > 0 /\ o.hi > 0 THEN (IF r.gravity = -1 THEN -o.hi ELSE o.lo)
  ELSE IF Abs(o.lo) < Abs(o.hi) THEN -o.hi ELSE o.lo

(* Sticking out on both sides: towards the gravity; otherwise the shorter way. *)
SlideBy(r, o) ==
  IF o.lo > 0 /\ o.hi > 0 THEN (IF r.gravity = -1 THEN -o.hi ELSE o.lo)
  ELSE IF Abs(o.lo) < Abs(o.hi) THEN o.lo ELSE -o.hi

xdg_positioner_rules_unconstrain_by_slide(rules, adj, st) ==
  LET slides == {a \in Axes : ~AxisFree(st.offs[a]) /\ <<"slide", a>> \in adj}
      box == [a \in Axes |-> IF a \in slides THEN [st.box[a] EXCEPT !.pos = @ + SlideBy(rules[a], st.offs[a])]
                             ELSE st.box[a]]
  IN IF slides = {} THEN st
     ELSE [box |-> box, offs |-> [a \in Axes |-> get_constrained_box_offsets(box[a])]]

(* Clipping is given up on both axes when one of them would become empty. *)
xdg_positioner_rules_unconstrain_by_resize(adj, st) ==
  LET clips == {a \in Axes : ~AxisFree(st.offs[a]) /\ <<"resize", a>> \in adj}
      out(i) == IF i < 0 THEN 0 ELSE i
      clip(b, o) == [pos |-> b.pos + out(o.lo), len |-> b.len - out(o.lo) - out(o.hi)]
      box == [a \in Axes |-> IF a \in clips THEN clip(st.box[a], st.offs[a]) ELSE st.box[a]]
  IN IF clips = {} \/ \E a \in Axes : box[a].len <= 0 THEN st
     ELSE [box |-> box, offs |-> [a \in Axes |-> get_constrained_box_offsets(box[a])]]

wlr_xdg_positioner_rules_unconstrain_box(rules, adj, box) ==
  LET raw == [box |-> box, offs |-> [a \in Axes |-> get_constrained_box_offsets(box[a])]]
      flipped == xdg_positioner_rules_unconstrain_by_flip(rules, adj, raw)
      slid == xdg_positioner_rules_unconstrain_by_slide(rules, adj, flipped)
      clipped == xdg_positioner_rules_unconstrain_by_resize(adj, slid)
  IN CASE is_unconstrained(raw.offs) -> box
       [] ~is_unconstrained(raw.offs) /\ is_unconstrained(flipped.offs) -> flipped.box
       [] ~is_unconstrained(flipped.offs) /\ is_unconstrained(slid.offs) -> slid.box
       [] OTHER -> clipped.box

-----------------------------------------------------------------------------
Asked(p) == [a \in Axes |-> wlr_xdg_positioner_rules_get_geometry(p.rules[a])]

(* The second axis is varied less: the axes meet in the early returns only. *)
PlacingInit ==
  \E x \in Rules, y \in Rules, adj \in Adjustments :
    /\ y.anchor = 1 /\ y.gravity = 1
    /\ placing = [rules |-> [a \in Axes |-> IF a = "x" THEN x ELSE y], adj |-> adj, box |-> <<>>]

wlr_xdg_popup_unconstrain_from_box ==
  /\ placing.box = <<>>
  /\ placing' = [placing EXCEPT !.box =
       wlr_xdg_positioner_rules_unconstrain_box(placing.rules, placing.adj, Asked(placing))]

PlacingNext == wlr_xdg_popup_unconstrain_from_box

PlacingSpec == PlacingInit /\ [][PlacingNext]_placing

-----------------------------------------------------------------------------
Inside(b) == b.pos >= Area.pos /\ b.pos + b.len <= Area.pos + Area.len

(* Where the popup ends up, against the protocol's promise on each axis: a *)
(* popup that fits where it was asked for stays there, an axis without an  *)
(* adjustment is never touched, a length changes only by resizing, a popup *)
(* no longer than the area that may slide ends up inside, by the shortest  *)
(* way unless it was flipped, and the box is never empty (an assertion of  *)
(* send_xdg_popup_configure).                                              *)
PopupPlaced ==
  placing.box # <<>> =>
    \A a \in Axes :
      LET asked == Asked(placing)[a]
          got == placing.box[a]
          may(how) == <<how, a>> \in placing.adj
      IN /\ got.len > 0
         /\ (\A b \in Axes : Inside(Asked(placing)[b])) => got = asked
         /\ ~(may("flip") \/ may("slide") \/ may("resize")) => got = asked
         /\ got.len # asked.len => may("resize")
         /\ may("slide") /\ asked.len <= AreaLen =>
              /\ Inside(got)
              /\ ~may("flip") =>
                   \A p \in Area.pos .. Area.pos + AreaLen - asked.len :
                     Abs(got.pos - asked.pos) <= Abs(p - asked.pos)
=============================================================================
