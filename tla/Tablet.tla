------------------------------- MODULE Tablet -------------------------------
(***************************************************************************)
(* Drawing tablets (types/tablet_v2/*.c): a tool that comes near a surface, *)
(* touches it and presses buttons, with the implicit grab that keeps it on  *)
(* the surface it touched, and a pad with groups, rings and modes.  Each    *)
(* client that bound the tablet seat has an object for the tablet, the tool *)
(* and the pad; events to a tool are grouped in frames sent when the event  *)
(* loop is idle.                                                            *)
(***************************************************************************)
EXTENDS Naturals, Sequences, FiniteSets

CONSTANTS TabClient,      \* clients
          TabSurface,     \* surfaces, one or more of each client
          TabOwner,       \* the client of each surface
          TabButton,      \* buttons of the tool
          ButtonCap,      \* WLR_TABLET_V2_TOOL_BUTTONS_CAP
          PadRings,       \* for each group of the pad the indexes of its rings
          PadMode         \* modes of the pad, 0 first

(* slice: a bound, what moves, the tool or the pad; live: surfaces; tab,    *)
(* tcl: clients with a tablet and with a tool object; made, tool: the       *)
(* device appeared, is there; cur, focus, heard: current_client,            *)
(* focused_surface and the surface whose destruction is listened to; down,  *)
(* btn: tip and pressed_buttons, at most ButtonCap; grab: whose tool->grab  *)
(* is, with orig, foc of the implicit grab; frames: clients with a          *)
(* frame_source.  view: what the events told each client; pend: clients     *)
(* with events of no frame.  pads: clients with a pad object; pcur; rings:  *)
(* ring objects by client; stray: those that still name a freed pad; grps:  *)
(* clients with the object of a group, whose mode is mode as recorded, hw   *)
(* as it is, and known as the object was told, 0 at first; psurf: the       *)
(* surface the pad entered.                                                 *)
(* Ghosts: hover: the surface the tool is over; taken: an implicit grab was *)
(* replaced; over: a button beyond the cap; repeated: the pen came near     *)
(* while down; stale: the freed surface an implicit grab ended on, while it *)
(* has the focus; twice: a grab freed twice; missed: a mode changed unseen. *)
VARIABLE tab

Out == [near |-> FALSE, down |-> FALSE, btn |-> {}]

TabState(slice) ==
  [slice |-> slice, live |-> TabSurface, tab |-> {}, tcl |-> {}, made |-> FALSE, tool |-> FALSE,
   cur |-> "none", focus |-> "none", heard |-> "none", down |-> FALSE, btn |-> {}, grab |-> "default",
   orig |-> "none", foc |-> "none", frames |-> {}, view |-> [c \in TabClient |-> Out], pend |-> {},
   pads |-> {}, pcur |-> "none", psurf |-> "none", rings |-> [c \in TabClient |-> {}],
   stray |-> [c \in TabClient |-> {}], grps |-> {}, mode |-> 0, hw |-> 0, known |-> [c \in TabClient |-> 0],
   hover |-> "none", taken |-> FALSE, over |-> FALSE, repeated |-> FALSE,
   stale |-> "none", twice |-> FALSE, missed |-> FALSE]

TabInit == tab \in {TabState("tool"), TabState("pad")}

ToolOn == tab.slice = "tool" /\ tab.tool
PadOn == tab.slice = "pad" /\ tab.tool

-----------------------------------------------------------------------------
(* Objects of the clients.                                                  *)

AllRings == UNION {PadRings[g] : g \in DOMAIN PadRings}

(* add_tablet_pad_group: the count of rings is the last group's.            *)
RingCount == Cardinality(PadRings[Len(PadRings)])

add_tablet_tool_client(s, c) == [s EXCEPT !.tcl = @ \cup {c}]

add_tablet_pad_client(s, c) == [s EXCEPT !.pads = @ \cup {c}, !.rings[c] = AllRings, !.grps = @ \cup {c}]

(* get_tablet_seat: the devices of the seat are announced.                  *)
get_tablet_seat(c) ==
  /\ c \notin tab.tab \cup tab.tcl \cup tab.pads
  /\ LET s == [tab EXCEPT !.tab = @ \cup {c}]
     IN tab' = IF ~tab.tool THEN s
               ELSE IF tab.slice = "tool" THEN add_tablet_tool_client(s, c)
               ELSE add_tablet_pad_client(s, c)

(* wlr_tablet_tool_create, wlr_tablet_pad_create: a device that appears is  *)
(* announced to the clients of the seat.                                    *)
wlr_tablet_tool_create ==
  /\ tab.slice = "tool" /\ ~tab.made
  /\ tab' = [tab EXCEPT !.made = TRUE, !.tool = TRUE, !.tcl = tab.tab]

wlr_tablet_pad_create ==
  /\ tab.slice = "pad" /\ ~tab.made
  /\ tab' = [tab EXCEPT !.made = TRUE, !.tool = TRUE, !.pads = tab.tab, !.grps = tab.tab,
                        !.rings = [c \in TabClient |-> IF c \in tab.tab THEN AllRings ELSE {}]]

(* Leaves the frame of the object queued.                                   *)
destroy_keeps_frame(s, c) ==
  [s EXCEPT !.tcl = @ \ {c}, !.view[c] = Out, !.pend = @ \ {c},
            !.cur = IF @ = c THEN "none" ELSE @,
            !.focus = IF s.cur = c THEN "none" ELSE @, !.heard = IF s.cur = c THEN "none" ELSE @]

destroy_tablet_tool_v2(s, c) ==
  [s EXCEPT !.tcl = @ \ {c}, !.frames = @ \ {c}, !.view[c] = Out, !.pend = @ \ {c},
            !.cur = IF @ = c THEN "none" ELSE @,
            !.focus = IF s.cur = c THEN "none" ELSE @, !.heard = IF s.cur = c THEN "none" ELSE @]

(* destroy_tablet_pad_v2: groups and rings below their count are made inert.*)
destroy_tablet_pad_v2(s, c) ==
  [s EXCEPT !.pads = @ \ {c}, !.grps = @ \ {c}, !.known[c] = 0, !.pcur = IF @ = c THEN "none" ELSE @,
            !.psurf = IF s.pcur = c THEN "none" ELSE @,
            !.stray[c] = @ \cup {r \in s.rings[c] : r >= RingCount}, !.rings[c] = {}]

(* A client destroys its tablet object, its tool or pad, or its tablet      *)
(* seat with all of them (tablet_seat_client_v2_destroy).                   *)
destroy_tablet_v2(c) == c \in tab.tab /\ tab' = [tab EXCEPT !.tab = @ \ {c}]

DestroyTool(c) == c \in tab.tcl /\ tab' = destroy_tablet_tool_v2(tab, c)

DestroyPad(c) == c \in tab.pads /\ tab' = destroy_tablet_pad_v2(tab, c)

tablet_seat_client_v2_destroy(c) ==
  /\ c \in tab.tab
  /\ LET s == IF c \in tab.pads THEN destroy_tablet_pad_v2(tab, c) ELSE tab
         t == IF c \in s.tcl THEN destroy_tablet_tool_v2(s, c) ELSE s
     IN tab' = [t EXCEPT !.tab = @ \ {c}]

destroy_tablet_pad_ring_v2(c, r) ==
  r \in tab.rings[c] /\ tab' = [tab EXCEPT !.rings[c] = @ \ {r}]

destroy_tablet_pad_group_v2(c) ==
  c \in tab.grps /\ tab' = [tab EXCEPT !.grps = @ \ {c}, !.known[c] = 0]

(* handle_wlr_tablet_tool_destroy: the objects are removed and inert, the   *)
(* grab is forgotten.                                                       *)
handle_wlr_tablet_tool_destroy ==
  /\ ToolOn
  /\ tab' = [tab EXCEPT !.tool = FALSE, !.cur = "none", !.focus = "none", !.heard = "none",
                        !.down = FALSE, !.btn = {}, !.grab = "default", !.hover = "none",
                        !.orig = "none", !.foc = "none", !.view = [c \in TabClient |-> Out]]

(* handle_wlr_tablet_pad_destroy destroys the objects of all clients.       *)
handle_wlr_tablet_pad_destroy ==
  /\ PadOn
  /\ tab' = [tab EXCEPT !.tool = FALSE, !.pads = {}, !.grps = {}, !.known = [c \in TabClient |-> 0],
                        !.pcur = "none", !.psurf = "none",
                        !.stray = [c \in TabClient |->
                                     @[c] \cup {r \in tab.rings[c] : r >= RingCount}],
                        !.rings = [c \in TabClient |-> {}]]

-----------------------------------------------------------------------------
(* Events to the focused client.                                            *)

(* Loses the events of the frame that is under way.                         *)
queue_tool_frame_once(s) == [s EXCEPT !.pend = @ \cup {s.cur}]

(* Every event is followed by a frame, sent when the loop is idle.          *)
queue_tool_frame(s) ==
  [s EXCEPT !.pend = @ \cup {s.cur}, !.frames = @ \cup {s.cur}]

send_tool_frame(c) ==
  /\ c \in tab.frames
  /\ tab' = [tab EXCEPT !.frames = @ \ {c}, !.pend = @ \ {c}]

(* wlr_send_tablet_v2_tablet_tool_motion, pressure, tilt and the like.      *)
ToolMoved == ToolOn /\ tab.cur # "none" /\ tab' = queue_tool_frame(tab)

(* tablet_tool_button_update: at most ButtonCap buttons are remembered.     *)
tablet_tool_button_update(s, b, pressed) ==
  IF ~pressed THEN [s EXCEPT !.btn = @ \ {b}]
  ELSE IF b \in s.btn \/ Cardinality(s.btn) < ButtonCap THEN [s EXCEPT !.btn = @ \cup {b}]
  ELSE [s EXCEPT !.over = TRUE]

SendButton(s, b, pressed) ==
  LET t == tablet_tool_button_update(s, b, pressed)
  IN IF t.cur = "none" THEN t
     ELSE queue_tool_frame([t EXCEPT !.view[t.cur].btn = IF pressed THEN @ \cup {b} ELSE @ \ {b}])

SendDown(s) ==
  IF s.down THEN s
  ELSE IF s.cur = "none" THEN [s EXCEPT !.down = TRUE]
  ELSE queue_tool_frame([s EXCEPT !.down = TRUE, !.view[s.cur].down = TRUE])

SendUp(s) ==
  IF ~s.down THEN s
  ELSE IF s.cur = "none" THEN [s EXCEPT !.down = FALSE]
  ELSE queue_tool_frame([s EXCEPT !.down = FALSE, !.view[s.cur].down = FALSE])

(* Does not release the buttons.                                            *)
proximity_out_pressed(s) ==
  IF s.cur = "none" THEN s
  ELSE [s EXCEPT !.view[s.cur] = [near |-> FALSE, down |-> FALSE, btn |-> @.btn],
                 !.frames = @ \ {s.cur}, !.pend = @ \ {s.cur},
                 !.cur = "none", !.focus = "none", !.heard = "none"]

(* wlr_send_tablet_v2_tablet_tool_proximity_out: the buttons and the tip    *)
(* are released for the client, and the frame is not left to the loop.      *)
SendProximityOut(s) ==
  IF s.cur = "none" THEN s
  ELSE [s EXCEPT !.view[s.cur] = [near |-> FALSE, down |-> FALSE, btn |-> @.btn \ s.btn],
                 !.frames = @ \ {s.cur}, !.pend = @ \ {s.cur},
                 !.cur = "none", !.focus = "none", !.heard = "none", !.stale = "none"]

(* wlr_send_tablet_v2_tablet_tool_proximity_in: the pressed buttons are     *)
(* told; the tip is not, as it is down already.                             *)
SendProximityIn(s, f) ==
  LET c == TabOwner[f]
      t == SendProximityOut(s)
  IN IF s.focus = f THEN s
     ELSE IF c \notin t.tab \/ c \notin t.tcl THEN t
     ELSE queue_tool_frame(
            [t EXCEPT !.cur = c, !.focus = f, !.heard = f, !.stale = "none",
                      !.view[c] = [near |-> TRUE, down |-> FALSE, btn |-> @.btn \cup t.btn],
                      !.repeated = @ \/ t.down])

-----------------------------------------------------------------------------
(* Grabs (wlr_tablet_tool_v2_start_grab, end_grab).                         *)

Ungrabbed(s) == [s EXCEPT !.grab = "default", !.orig = "none", !.foc = "none"]

(* Keeps the surface the grab began on.                                     *)
release_refocused_never(s) == IF s.down \/ s.btn # {} THEN s ELSE Ungrabbed(s)

(* check_and_release_implicit_grab: when tip and buttons are up the tool    *)
(* goes to the surface it is over, which may have been freed meanwhile.     *)
check_and_release_implicit_grab(s) ==
  IF s.down \/ s.btn # {} THEN s
  ELSE IF s.orig = s.foc THEN Ungrabbed(s)
  ELSE LET t == SendProximityOut(s)
           stale == IF s.foc \in s.live THEN "none" ELSE s.foc
       IN Ungrabbed(IF s.foc = "none" THEN t
                    ELSE [SendProximityIn(t, s.foc) EXCEPT !.stale = stale])

(* implicit_tool_cancel, from a grab that replaces this one: a grab that    *)
(* releases itself here would be freed again by its caller.                 *)
CancelImplicit(s) ==
  LET t == check_and_release_implicit_grab(s)
  IN [t EXCEPT !.twice = @ \/ t.grab # "implicit"]

wlr_tablet_tool_v2_start_grab ==
  /\ ToolOn /\ tab.grab # "other"
  /\ tab' = [Ungrabbed(IF tab.grab = "implicit" THEN CancelImplicit(tab) ELSE tab)
               EXCEPT !.grab = "other", !.taken = @ \/ tab.grab = "implicit"]

wlr_tablet_tool_v2_end_grab ==
  /\ ToolOn /\ tab.grab = "other"
  /\ tab' = Ungrabbed(tab)

(* Starts while nothing is pressed.                                         *)
start_implicit_unpressed ==
  /\ ToolOn /\ tab.grab = "default" /\ tab.focus # "none"
  /\ tab' = [tab EXCEPT !.grab = "implicit", !.orig = tab.focus, !.foc = tab.focus]

wlr_tablet_tool_v2_start_implicit_grab ==
  /\ ToolOn /\ tab.grab # "implicit" /\ tab.focus # "none"
  /\ tab.down \/ tab.btn # {}
  /\ tab' = [tab EXCEPT !.grab = "implicit", !.orig = tab.focus, !.foc = tab.focus]

(* The notifications go to the grab; a grab of the compositor takes them.   *)
notify_proximity_in(f) ==
  /\ ToolOn /\ f \in tab.live /\ tab.grab # "other"
  /\ LET s == [tab EXCEPT !.hover = f]
     IN tab' = IF s.grab = "implicit" THEN [s EXCEPT !.foc = f] ELSE SendProximityIn(s, f)

notify_proximity_out ==
  /\ ToolOn /\ tab.grab # "other"
  /\ LET s == [tab EXCEPT !.hover = "none"]
     IN tab' = IF s.grab = "implicit" THEN [s EXCEPT !.foc = "none"] ELSE SendProximityOut(s)

notify_down == ToolOn /\ tab.grab # "other" /\ tab' = SendDown(tab)

notify_up ==
  /\ ToolOn /\ tab.grab # "other"
  /\ tab' = LET s == SendUp(tab)
            IN IF tab.grab = "implicit" THEN check_and_release_implicit_grab(s) ELSE s

notify_button(b, pressed) ==
  /\ ToolOn /\ tab.grab # "other"
  /\ tab' = LET s == SendButton(tab, b, pressed)
            IN IF tab.grab = "implicit" THEN check_and_release_implicit_grab(s) ELSE s

(* handle_tablet_tool_surface_destroy; the compositor moves the pad away.   *)
SurfaceDestroy(f) ==
  /\ f \in tab.live
  /\ LET s == [tab EXCEPT !.live = @ \ {f}, !.psurf = IF @ = f THEN "none" ELSE @]
     IN tab' = IF tab.heard = f THEN SendProximityOut(s) ELSE s

-----------------------------------------------------------------------------
(* The pad.                                                                 *)

(* wlr_send_tablet_v2_tablet_pad_enter, after the surface before was left:  *)
(* the mode of the group is told to the object of the group.                *)
wlr_send_tablet_v2_tablet_pad_enter(f) ==
  LET c == TabOwner[f]
  IN /\ PadOn /\ f \in tab.live /\ tab.psurf = "none"
     /\ c \in tab.tab /\ c \in tab.pads
     /\ tab' = [tab EXCEPT !.pcur = c, !.psurf = f,
                           !.known[c] = IF c \in tab.grps THEN tab.mode ELSE @]

(* wlr_send_tablet_v2_tablet_pad_leave keeps the current client.            *)
wlr_send_tablet_v2_tablet_pad_leave ==
  /\ PadOn /\ tab.psurf # "none"
  /\ tab' = [tab EXCEPT !.psurf = "none"]

(* Tells nobody.                                                            *)
mode_untold(m) ==
  PadOn /\ m # tab.hw /\ tab.pcur # "none" /\ tab' = [tab EXCEPT !.hw = m, !.mode = m]

(* wlr_send_tablet_v2_tablet_pad_mode: without a client, or when it has     *)
(* destroyed its group object, the mode is not recorded.                    *)
wlr_send_tablet_v2_tablet_pad_mode(m) ==
  /\ PadOn /\ m # tab.hw
  /\ tab' = IF tab.pcur \notin tab.grps THEN [tab EXCEPT !.hw = m, !.missed = TRUE]
            ELSE IF m = tab.mode THEN [tab EXCEPT !.hw = m]
            ELSE [tab EXCEPT !.hw = m, !.mode = m, !.known[tab.pcur] = m]

ToolNext ==
  \/ \E c \in TabClient : DestroyTool(c) \/ send_tool_frame(c)
  \/ wlr_tablet_tool_create \/ handle_wlr_tablet_tool_destroy \/ ToolMoved
  \/ wlr_tablet_tool_v2_start_grab \/ wlr_tablet_tool_v2_end_grab
  \/ wlr_tablet_tool_v2_start_implicit_grab
  \/ \E f \in tab.live : notify_proximity_in(f)
  \/ notify_proximity_out \/ notify_down \/ notify_up
  \/ \E b \in TabButton, p \in BOOLEAN : notify_button(b, p)

PadNext ==
  \/ \E c \in tab.pads : \/ DestroyPad(c) \/ destroy_tablet_pad_group_v2(c)
                         \/ \E r \in AllRings : destroy_tablet_pad_ring_v2(c, r)
  \/ wlr_tablet_pad_create \/ handle_wlr_tablet_pad_destroy
  \/ \E f \in tab.live : wlr_send_tablet_v2_tablet_pad_enter(f)
  \/ wlr_send_tablet_v2_tablet_pad_leave
  \/ \E m \in PadMode : wlr_send_tablet_v2_tablet_pad_mode(m)

TabNext ==
  \/ \E c \in TabClient :
       get_tablet_seat(c) \/ destroy_tablet_v2(c) \/ tablet_seat_client_v2_destroy(c)
  \/ \E f \in tab.live : SurfaceDestroy(f)
  \/ tab.slice = "tool" /\ ToolNext
  \/ tab.slice = "pad" /\ PadNext

-----------------------------------------------------------------------------
(* The tool is near one surface at most, of the client that was told so,    *)
(* whose destruction is listened to; the surface lives, unless an implicit  *)
(* grab ended on it after it was freed, as the grab keeps a bare pointer to *)
(* it.  A client the tool left knows the tip and the buttons released.      *)
ToolFocusAgrees ==
  /\ (tab.cur = "none") = (tab.focus = "none") /\ tab.heard = tab.focus
  /\ tab.cur # "none" => /\ tab.cur \in tab.tcl /\ TabOwner[tab.focus] = tab.cur
                         /\ tab.focus \in tab.live \cup {tab.stale}
  /\ \A c \in TabClient :
       /\ tab.view[c].near <=> tab.cur = c
       /\ tab.cur # c => ~tab.view[c].down /\ (tab.over \/ tab.view[c].btn = {})

(* The client under the tool knows the buttons that are pressed and, unless *)
(* the tool arrived with its tip down, the tip.                             *)
ToolTold ==
  tab.cur # "none" =>
    /\ tab.over \/ tab.view[tab.cur].btn = tab.btn
    /\ tab.repeated \/ tab.view[tab.cur].down = tab.down

(* Events are followed by a frame: a client with events of no frame has one *)
(* queued, and no frame is queued for an object that is gone.               *)
FramesFollow == tab.pend \subseteq tab.frames /\ tab.frames \subseteq tab.tcl

(* An implicit grab lasts while the tip or a button is down, so that the    *)
(* grab that replaces it never frees it twice; after it the tool is near    *)
(* the surface it is over or near none.                                     *)
ImplicitGrabHeld ==
  /\ tab.grab = "implicit" => tab.down \/ tab.btn # {}
  /\ ~tab.twice
  /\ tab.grab = "default" /\ tab.focus # "none" /\ ~tab.taken => tab.focus = tab.hover

(* A client that has the pad, and the object of the group, knows the mode   *)
(* recorded, which is the pad's unless it changed while no such client had  *)
(* the pad; a ring object outlives its pad only at an index past the last   *)
(* group's count.                                                           *)
PadAgrees ==
  /\ tab.pcur # "none" => /\ tab.pcur \in tab.pads
                          /\ tab.pcur \in tab.grps => tab.known[tab.pcur] = tab.mode
  /\ tab.missed \/ tab.mode = tab.hw
  /\ tab.grps \subseteq tab.pads
  /\ \A c \in TabClient : /\ tab.stray[c] \subseteq {r \in AllRings : r >= RingCount}
                          /\ c \notin tab.pads => tab.rings[c] = {}

TabletSound == ToolFocusAgrees /\ ToolTold /\ FramesFollow /\ ImplicitGrabHeld /\ PadAgrees

=============================================================================
