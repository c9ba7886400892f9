----------------------------- MODULE DataDevice -----------------------------
(***************************************************************************)
(* Drag and drop: a client starts a drag with or without a data source,    *)
(* the drag grabs the keyboard and the pointer or touch, offers follow the *)
(* focus, and the drop, the offers and the source end in any order.        *)
(***************************************************************************)
EXTENDS Naturals, FiniteSets
CONSTANTS DndClient, DndSurface, DndOwner, DndSource, NewClient, NewSource, NoDnd

ASSUME DndAssumption == /\ DndOwner \in [DndSurface -> DndClient]
                        /\ NewClient \subseteq DndClient      \* wl_data_offer version 3
                        /\ NewSource \subseteq DndSource      \* sources with dnd_finish
                        /\ NoDnd \notin DndClient \cup DndSurface \cup DndSource

(* bound: the clients with a seat and a data device.  accepted, action:    *)
(* the sources with accepted and with a current_dnd_action; by: who        *)
(* accepted last with an offer that is not old.  seatSource:               *)
(* seat->drag_source.  grabs: the seat's grabs that are the drag's.        *)
(* inside: the clients told of an enter and not yet of a leave.  An offer  *)
(* is old once its client unbound the seat.  wild: a drag was freed while  *)
(* it was started and is used after that, see wlr_seat_start_drag; what    *)
(* follows is undefined.                                                   *)
VARIABLE dnd

DndInit ==
  dnd = [surfs |-> DndSurface, bound |-> {}, src |-> [s \in DndSource |-> "none"],
         accepted |-> {}, action |-> {}, by |-> [s \in DndSource |-> NoDnd],
         drag |-> NoDnd, seatSource |-> NoDnd, grabs |-> {}, buttons |-> {},
         offers |-> {}, inside |-> {}, nullSource |-> FALSE, wild |-> FALSE]

data_offer_create(c, s) == [client |-> c, source |-> s, old |-> FALSE]

(* Leaving destroys the offers made to the old focus unless they were      *)
(* dropped on; without a source only the drag's own client is entered.     *)
drag_set_focus(st, f) ==
  LET d == st.drag
      mine == {o \in st.offers : ~d.dropped /\ o.client = d.fclient /\ o.source = d.source}
      left == [st EXCEPT !.offers = @ \ mine, !.inside = @ \ {d.fclient},
                         !.drag.fclient = NoDnd, !.drag.focus = NoDnd]
      c == DndOwner[f]
      entered == [left EXCEPT !.drag.fclient = c, !.drag.focus = f]
  IN CASE d.focus = f -> st
       [] d.focus # f /\ \/ f = NoDnd
                         \/ d.source = NoDnd /\ d.client \notin {NoDnd, c}
                         \/ c \notin st.bound -> left
       [] OTHER -> IF d.source = NoDnd THEN entered
                   ELSE [entered EXCEPT
                     !.accepted = @ \ {d.source}, !.inside = @ \cup {c},
                     !.action = IF c \in NewClient THEN @ \ {d.source} ELSE @ \cup {d.source},
                     !.offers = @ \cup {data_offer_create(c, d.source)}]

NoClearFocus(st) == [st EXCEPT !.drag = NoDnd, !.grabs = {}]

(* The grabs end first: their cancel handlers find the drag already being  *)
(* cancelled.  Then the focus is cleared and the seat forgets the drag.    *)
drag_destroy(st) ==
  [drag_set_focus([st EXCEPT !.grabs = {}], NoDnd) EXCEPT !.drag = NoDnd]

KeepsSource(st, s) == [st EXCEPT !.src[s] = "gone", !.offers = {o \in @ : o.source # s},
                                 !.seatSource = IF @ = s THEN NoDnd ELSE @]

(* The destroy signal reaches the drag, its offers and the seat. *)
wlr_data_source_destroy(st, s) ==
  LET ended == IF st.drag # NoDnd /\ st.drag.source = s THEN drag_destroy(st) ELSE st IN
  IF st.src[s] # "live" THEN st
  ELSE [ended EXCEPT !.src[s] = "gone", !.offers = {o \in @ : o.source # s},
                     !.accepted = @ \ {s}, !.action = @ \ {s}, !.by[s] = NoDnd,
                     !.seatSource = IF @ = s THEN NoDnd ELSE @]

(* An offer that goes away takes the source with it when both sides know   *)
(* of actions, as nobody will finish the drop.                             *)
data_offer_destroy(st, o) ==
  LET rest == [st EXCEPT !.offers = @ \ {o}] IN
  IF o.client \in NewClient /\ o.source \in NewSource
  THEN wlr_data_source_destroy(rest, o.source) ELSE rest

-----------------------------------------------------------------------------
(* Sources and drags. *)

client_data_source_create(s) == dnd.src[s] = "none" /\ dnd' = [dnd EXCEPT !.src[s] = "live"]

data_source_handle_resource_destroy(s) ==
  dnd.src[s] = "live" /\ dnd' = wlr_data_source_destroy(dnd, s)

(* Starting a drag destroys the source of the last one.  When that is the  *)
(* source of the new drag too, the new drag goes with it, and the seat     *)
(* takes the source from the drag that is gone.                            *)
wlr_seat_start_drag(st, d) ==
  LET old == st.seatSource
      clean == IF old = NoDnd THEN st ELSE wlr_data_source_destroy(st, old)
  IN [clean EXCEPT !.seatSource = d.source, !.wild = old # NoDnd /\ old = d.source]

NewDrag(c, s, k) == [source |-> s, client |-> c, kind |-> k, focus |-> NoDnd,
                     fclient |-> NoDnd, dropped |-> FALSE]

StartPre(c, s) == /\ dnd.drag = NoDnd /\ c \in dnd.bound
                  /\ s # NoDnd => dnd.src[s] = "live"

(* The pointer drag needs exactly one pressed button. *)
wlr_seat_start_pointer_drag(c, s) ==
  /\ StartPre(c, s) /\ dnd.buttons = {"first"}
  /\ dnd' = wlr_seat_start_drag([dnd EXCEPT !.drag = NewDrag(c, s, "pointer"),
                                            !.grabs = {"keyboard", "pointer"}],
                                NewDrag(c, s, "pointer"))

(* The touch drag enters the surface under the finger at once. *)
wlr_seat_start_touch_drag(c, s, f) ==
  /\ StartPre(c, s) /\ f \in dnd.surfs /\ DndOwner[f] = c
  /\ dnd' = wlr_seat_start_drag(
       drag_set_focus([dnd EXCEPT !.drag = NewDrag(c, s, "touch"),
                                  !.grabs = {"keyboard", "touch"}], f),
       NewDrag(c, s, "touch"))

-----------------------------------------------------------------------------
(* Input while the drag has the grab. *)

drag_handle_enter(f) ==
  dnd.drag # NoDnd /\ f \in dnd.surfs \cup {NoDnd} /\ dnd' = drag_set_focus(dnd, f)

Droppable(st) == /\ st.drag.fclient # NoDnd
                 /\ st.drag.source \in st.accepted \cap st.action
drag_drop(st) == [st EXCEPT !.drag.dropped = TRUE]

(* Releasing the button that started the drag drops or, when the source    *)
(* can be told, cancels; the drag ends with the last button.               *)
drag_handle_pointer_button(b) ==
  LET d == dnd.drag
      st == [dnd EXCEPT !.buttons = @ \ {b}]
      last(x) == IF x.buttons = {} THEN drag_destroy(x) ELSE x
  IN dnd' = CASE b # "first" \/ d.source = NoDnd -> last(st)
              [] b = "first" /\ d.source # NoDnd /\ Droppable(st) -> last(drag_drop(st))
              [] OTHER -> IF d.source \in NewSource
                          THEN wlr_data_source_destroy(st, d.source) ELSE last(st)

wlr_seat_pointer_notify_press(b) ==
  /\ b \notin dnd.buttons /\ (b = "second" => dnd.buttons # {})
  /\ dnd' = [dnd EXCEPT !.buttons = @ \cup {b}]

wlr_seat_pointer_notify_release(b) ==
  /\ b \in dnd.buttons
  /\ IF "pointer" \in dnd.grabs THEN drag_handle_pointer_button(b)
     ELSE dnd' = [dnd EXCEPT !.buttons = @ \ {b}]

(* Lifting the finger reads the source, which a drag may not have. *)
drag_handle_touch_up ==
  LET d == dnd.drag IN
  /\ "touch" \in dnd.grabs
  /\ dnd' = CASE d.source = NoDnd -> [drag_destroy(dnd) EXCEPT !.nullSource = TRUE]
              [] d.source # NoDnd /\ Droppable(dnd) -> drag_destroy(drag_drop(dnd))
              [] OTHER -> IF d.source \in NewSource
                          THEN wlr_data_source_destroy(dnd, d.source) ELSE drag_destroy(dnd)

(* The compositor ends a grab of the drag. *)
drag_handle_cancel == dnd.drag # NoDnd /\ dnd' = drag_destroy(dnd)

-----------------------------------------------------------------------------
(* Offers. *)

data_offer_handle_accept(o, yes) ==
  dnd' = [dnd EXCEPT !.accepted = IF yes THEN @ \cup {o.source} ELSE @ \ {o.source},
                     !.by[o.source] = IF yes /\ ~o.old THEN o.client ELSE NoDnd]

(* The sides agree on an action or they do not. *)
data_offer_handle_set_actions(o, agree) ==
  /\ o.client \in NewClient
  /\ dnd' = [dnd EXCEPT !.action = IF agree THEN @ \cup {o.source} ELSE @ \ {o.source}]

data_offer_handle_finish(o) ==
  /\ o.client \in NewClient /\ o.source \in dnd.accepted \cap dnd.action
  /\ dnd' = data_offer_destroy(dnd, o)

data_offer_handle_resource_destroy(o) == dnd' = data_offer_destroy(dnd, o)

-----------------------------------------------------------------------------
(* Clients and surfaces. *)

bind_seat(c) == c \notin dnd.bound /\ dnd' = [dnd EXCEPT !.bound = @ \cup {c}]

(* The drag forgets a focused client without destroying its offers. *)
drag_handle_seat_client_destroy(c) ==
  /\ c \in dnd.bound
  /\ dnd' = [dnd EXCEPT
       !.bound = @ \ {c}, !.inside = @ \ {c},
       !.offers = {[o EXCEPT !.old = @ \/ o.client = c] : o \in @},
       !.drag = IF @ = NoDnd THEN NoDnd
                ELSE [@ EXCEPT !.fclient = IF @ = c THEN NoDnd ELSE @,
                               !.client = IF @ = c THEN NoDnd ELSE @]]

drag_handle_focus_destroy(f) ==
  /\ f \in dnd.surfs
  /\ LET st == [dnd EXCEPT !.surfs = @ \ {f}] IN
     dnd' = IF st.drag # NoDnd /\ st.drag.focus = f THEN drag_set_focus(st, NoDnd) ELSE st

DndStep ==
  \/ \E s \in DndSource : client_data_source_create(s)
  \/ \E s \in DndSource : data_source_handle_resource_destroy(s)
  \/ \E c \in dnd.bound, s \in DndSource \cup {NoDnd} :
       \/ wlr_seat_start_pointer_drag(c, s)
       \/ \E f \in dnd.surfs : wlr_seat_start_touch_drag(c, s, f)
  \/ \E f \in dnd.surfs \cup {NoDnd} : drag_handle_enter(f)
  \/ \E b \in {"first", "second"} : wlr_seat_pointer_notify_press(b)
  \/ \E b \in {"first", "second"} : wlr_seat_pointer_notify_release(b)
  \/ drag_handle_touch_up
  \/ drag_handle_cancel
  \/ \E o \in dnd.offers, yes \in BOOLEAN : data_offer_handle_accept(o, yes)
  \/ \E o \in dnd.offers, agree \in BOOLEAN : data_offer_handle_set_actions(o, agree)
  \/ \E o \in dnd.offers : data_offer_handle_finish(o)
  \/ \E o \in dnd.offers : data_offer_handle_resource_destroy(o)
  \/ \E c \in DndClient : bind_seat(c)
  \/ \E c \in DndClient : drag_handle_seat_client_destroy(c)
  \/ \E f \in DndSurface : drag_handle_focus_destroy(f)

DndNext == ~dnd.wild /\ DndStep

-----------------------------------------------------------------------------
(* Whatever ends first, nothing that is left refers to it: the drag's      *)
(* source, focus and client, the seat's drag source and the source of      *)
(* every offer exist, and the source of a running drag is the seat's;      *)
(* but a client that uses the source of the last drag again, which the     *)
(* seat destroys, leaves the seat with a source that is gone.              *)
DragReferencesLive ==
  /\ \A o \in dnd.offers : dnd.src[o.source] = "live"
  /\ dnd.seatSource # NoDnd => dnd.wild \/ dnd.src[dnd.seatSource] = "live"
  /\ dnd.drag # NoDnd =>
       /\ dnd.drag.source = dnd.seatSource
       /\ dnd.drag.focus \in dnd.surfs \cup {NoDnd}
       /\ dnd.drag.fclient \in dnd.bound \cup {NoDnd}
       /\ dnd.drag.client \in dnd.bound \cup {NoDnd}

(* The drag's grabs are in place exactly while there is a drag, so input   *)
(* reaches clients again however it ended, and only the focused client is  *)
(* between an enter and a leave.                                           *)
DragGrabsBalanced ==
  /\ dnd.grabs = IF dnd.drag = NoDnd THEN {} ELSE {"keyboard", dnd.drag.kind}
  /\ dnd.inside \subseteq IF dnd.drag = NoDnd THEN {} ELSE {dnd.drag.fclient}

(* A drop is only delivered to a client that accepted it: while the source *)
(* of a drag that was not dropped is accepted, the last to accept is the   *)
(* focused client, unless it did so through an offer kept from before its  *)
(* client released the seat (by is NoDnd).                                 *)
DropConsented ==
  (dnd.drag # NoDnd /\ dnd.drag.fclient # NoDnd /\ ~dnd.drag.dropped
    /\ dnd.drag.source \in dnd.accepted) =>
    dnd.by[dnd.drag.source] \in {dnd.drag.fclient, NoDnd}


-----------------------------------------------------------------------------
(***************************************************************************)
(* The clipboard and the primary selection of a seat.  Clients see them    *)
(* through wl_data_device and primary-selection devices while they have    *)
(* the keyboard focus; clipboard managers see both at all times through    *)
(* the data-control protocols, wlr's and ext's.                            *)
(***************************************************************************)
CONSTANTS SelClient, SelSource, ControlSource, WlrControl, ExtControl, MaxSelSerial, NoSel

ASSUME SelAssumption == /\ ControlSource \subseteq SelSource /\ MaxSelSerial \in Nat
                        /\ NoSel \notin SelClient \cup SelSource
                        /\ WlrControl \cap ExtControl = {}

Selections == {"clipboard", "primary"}
Control == WlrControl \cup ExtControl

(* src: "new", "live" or "gone"; cur, serial: the seat's selection and the *)
(* serial it was set with; now: the display's serial; dev[k]: the clients  *)
(* with a device for k; seen[k][c], known[k][d]: the source of the last    *)
(* selection event of a device; offers[k]: <<client, source>> offers that  *)
(* are not inert; used: the sources that were set once.                    *)
VARIABLE sel

SelInit ==
  sel = [src |-> [s \in SelSource |-> "new"], cur |-> [k \in Selections |-> NoSel],
         serial |-> [k \in Selections |-> 0], now |-> 0, focus |-> NoSel,
         dev |-> [k \in Selections |-> {}], controls |-> {}, used |-> {},
         seen |-> [k \in Selections |-> [c \in SelClient |-> NoSel]],
         known |-> [k \in Selections |-> [d \in Control |-> NoSel]],
         offers |-> [k \in Selections |-> {}]]

-----------------------------------------------------------------------------
(* Telling clients. *)

Offer(st, k, c) == IF st.cur[k] = NoSel THEN {} ELSE {<<c, st.cur[k]>>}

(* One device is sent the current selection. *)
device_resource_send_selection(st, k, c) ==
  [st EXCEPT !.seen[k][c] = st.cur[k], !.offers[k] = @ \cup Offer(st, k, c)]

(* The clipboard's offers become inert with every selection event. *)
seat_client_send_selection(st) ==
  LET clean == [st EXCEPT !.offers["clipboard"] = {}] IN
  CASE st.focus = NoSel -> st
    [] st.focus # NoSel /\ st.focus \in st.dev["clipboard"] ->
         device_resource_send_selection(clean, "clipboard", st.focus)
    [] OTHER -> clean

(* The primary selection's offers become inert when it changes only. *)
device_send_selection(st) ==
  IF st.focus # NoSel /\ st.focus \in st.dev["primary"]
  THEN device_resource_send_selection(st, "primary", st.focus) ELSE st

device_handle_seat_set_primary_selection(st) ==
  device_send_selection([st EXCEPT !.offers["primary"] = {}])

control_send_selection(st, k) ==
  [st EXCEPT !.known[k] = [d \in Control |->
     IF d \in st.controls \cap WlrControl THEN st.cur[k] ELSE @[d]]]
ext_control_send_selection(st, k) ==
  [st EXCEPT !.known[k] = [d \in Control |->
     IF d \in st.controls \cap ExtControl THEN st.cur[k] ELSE @[d]]]

(* The set_selection and set_primary_selection signals. *)
Announce(st, k) ==
  LET told == IF k = "clipboard" THEN seat_client_send_selection(st)
              ELSE device_handle_seat_set_primary_selection(st)
  IN ext_control_send_selection(control_send_selection(told, k), k)

-----------------------------------------------------------------------------
(* Setting and losing the selection. *)

OfferSurvives(st, s) == [st EXCEPT !.src[s] = "gone"]

(* Destroying a source that is no selection only makes its offers inert. *)
Drop(st, s) == [st EXCEPT !.src[s] = "gone",
                          !.offers["clipboard"] = {o \in @ : o[2] # s}]

seat_handle_selection_source_destroy(st, s) ==
  LET k == CHOOSE x \in Selections : st.cur[x] = s IN
  IF \E x \in Selections : st.cur[x] = s
  THEN Announce(Drop([st EXCEPT !.cur[k] = NoSel], s), k)
  ELSE Drop(st, s)

(* The old source is destroyed with the seat's listener already removed. *)
SetSelection(st, k, s, n) ==
  LET old == st.cur[k]
      freed == IF old = NoSel THEN st ELSE Drop(st, old)
  IN IF old = s THEN [st EXCEPT !.serial[k] = n]
     ELSE Announce([freed EXCEPT !.cur[k] = s, !.serial[k] = n], k)

ForgetsManagers(st, s, n) ==
  IF st.cur["clipboard"] = s THEN st
  ELSE seat_client_send_selection(
         [(IF st.cur["clipboard"] = NoSel THEN st ELSE Drop(st, st.cur["clipboard"]))
            EXCEPT !.cur["clipboard"] = s, !.serial["clipboard"] = n])

wlr_seat_set_selection(st, s, n) == SetSelection(st, "clipboard", s, n)
wlr_seat_set_primary_selection(st, s, n) == SetSelection(st, "primary", s, n)

(* A request with an older serial than the selection's is superseded. *)
wlr_seat_request_set_selection(k, s, n) ==
  /\ sel.cur[k] # NoSel => n >= sel.serial[k]
  /\ LET st == [sel EXCEPT !.used = @ \cup ({s} \ {NoSel}), !.now = IF n > @ THEN n ELSE @] IN
     sel' = IF k = "clipboard" THEN wlr_seat_set_selection(st, s, n)
            ELSE wlr_seat_set_primary_selection(st, s, n)

(* A client of a device asks with any serial it was sent. *)
device_handle_set_selection(k, c, s, n) ==
  /\ c \in sel.dev[k] /\ n <= sel.now
  /\ s \in (SelSource \ ControlSource) \cup {NoSel}
  /\ s # NoSel => sel.src[s] = "live" /\ (s \in sel.used => sel.cur[k] = s)
  /\ wlr_seat_request_set_selection(k, s, n)

(* A clipboard manager gets a fresh serial and may use a source once. *)
ManagerSets(k, s) ==
  /\ s \in ControlSource \cup {NoSel} /\ sel.now < MaxSelSerial
  /\ s # NoSel => sel.src[s] = "live" /\ s \notin sel.used
  /\ wlr_seat_request_set_selection(k, s, sel.now + 1)

control_handle_set_selection(k, d, s) == d \in sel.controls \cap WlrControl /\ ManagerSets(k, s)
ext_control_handle_set_selection(k, d, s) == d \in sel.controls \cap ExtControl /\ ManagerSets(k, s)

create_source(s) ==
  sel.src[s] = "new" /\ s \notin ControlSource /\ sel' = [sel EXCEPT !.src[s] = "live"]
source_handle_resource_destroy(s) ==
  /\ sel.src[s] = "live" /\ s \notin ControlSource
  /\ sel' = seat_handle_selection_source_destroy(sel, s)

(* A clipboard manager's source is wrapped in a source of the seat once it *)
(* is set, and takes that one along.                                       *)
manager_handle_create_data_source(s) ==
  sel.src[s] = "new" /\ s \in ControlSource /\ sel' = [sel EXCEPT !.src[s] = "live"]
data_control_source_destroy(s) ==
  /\ sel.src[s] = "live" /\ s \in ControlSource
  /\ sel' = seat_handle_selection_source_destroy(sel, s)

-----------------------------------------------------------------------------
(* Focus, devices and offers. *)

(* Entering a client's surface sends the clipboard, the focus_change signal *)
(* the primary selection.                                                   *)
seat_keyboard_focus_change(c) ==
  /\ c # sel.focus
  /\ sel' = device_send_selection(seat_client_send_selection([sel EXCEPT !.focus = c]))

manager_get_data_device(k, c) ==
  /\ c \notin sel.dev[k]
  /\ LET st == [sel EXCEPT !.dev[k] = @ \cup {c}] IN
     sel' = IF st.focus = c THEN device_resource_send_selection(st, k, c) ELSE st

device_handle_resource_destroy(k, c) ==
  c \in sel.dev[k] /\ sel' = [sel EXCEPT !.dev[k] = @ \ {c}]

AddManager(d) ==
  /\ d \notin sel.controls
  /\ sel' = [sel EXCEPT !.controls = @ \cup {d},
                        !.known = [k \in Selections |-> [@[k] EXCEPT ![d] = sel.cur[k]]]]
RemoveManager(d) == d \in sel.controls /\ sel' = [sel EXCEPT !.controls = @ \ {d}]

manager_handle_get_data_device(d) == d \in WlrControl /\ AddManager(d)
ext_manager_handle_get_data_device(d) == d \in ExtControl /\ AddManager(d)
control_destroy(d) == d \in WlrControl /\ RemoveManager(d)
ext_control_destroy(d) == d \in ExtControl /\ RemoveManager(d)

offer_handle_resource_destroy(k, o) == sel' = [sel EXCEPT !.offers[k] = @ \ {o}]

wl_display_serial == sel.now < MaxSelSerial /\ sel' = [sel EXCEPT !.now = @ + 1]

SelNext ==
  \/ \E s \in SelSource : create_source(s) \/ manager_handle_create_data_source(s)
  \/ \E s \in SelSource : source_handle_resource_destroy(s) \/ data_control_source_destroy(s)
  \/ \E k \in Selections : \E c \in sel.dev[k], s \in SelSource \cup {NoSel}, n \in 0..sel.now :
       device_handle_set_selection(k, c, s, n)
  \/ \E k \in Selections, d \in sel.controls, s \in ControlSource \cup {NoSel} :
       \/ control_handle_set_selection(k, d, s)
       \/ ext_control_handle_set_selection(k, d, s)
  \/ \E c \in SelClient \cup {NoSel} : seat_keyboard_focus_change(c)
  \/ \E k \in Selections, c \in SelClient : manager_get_data_device(k, c)
  \/ \E k \in Selections, c \in SelClient : device_handle_resource_destroy(k, c)
  \/ \E d \in Control : manager_handle_get_data_device(d) \/ ext_manager_handle_get_data_device(d)
  \/ \E d \in Control : control_destroy(d) \/ ext_control_destroy(d)
  \/ \E k \in Selections : \E o \in sel.offers[k] : offer_handle_resource_destroy(k, o)
  \/ wl_display_serial

-----------------------------------------------------------------------------
(* Whoever may see a selection knows the current one, through every order  *)
(* of focus changes, new devices, replaced and destroyed sources: the      *)
(* focused client on each of its devices, clipboard managers always; no    *)
(* offer that can still be received from refers to another source.         *)
SelectionAgreed ==
  \A k \in Selections :
    /\ sel.cur[k] # NoSel => sel.src[sel.cur[k]] = "live"
    /\ \A c \in sel.dev[k] : sel.focus = c => sel.seen[k][c] = sel.cur[k]
    /\ \A d \in sel.controls : sel.known[k][d] = sel.cur[k]
    /\ \A o \in sel.offers[k] : o[2] = sel.cur[k]
=============================================================================
