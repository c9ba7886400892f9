-------------------------------- MODULE Seat --------------------------------
(***************************************************************************)
(* wl_seat: clients bind the seat and create pointer, keyboard and touch   *)
(* objects, the compositor moves the focus, and a popup may grab the seat. *)
(* The seat is one record.  dev[k][c][i] is the object i of kind k that    *)
(* client c created: "live", "listed" (created while the seat lacked the   *)
(* capability: in the client's list without user data) or "inert".         *)
(* ent[k][c][i] and held are what the clients were told: the surface of    *)
(* the last enter not followed by a leave, and the pressed buttons.        *)
(***************************************************************************)
EXTENDS Integers, FiniteSets, Sequences
CONSTANTS SeatClient, SeatSurface, SeatOwner, SeatId, Button, ButtonsCap,
          TouchId, SeatKindSets, MaxSeatRes, MaxPress, AxisSource, NoSeat

ASSUME SeatAssumption == /\ SeatOwner \in [SeatSurface -> SeatClient]
                         /\ NoSeat \notin SeatSurface \cup SeatClient
                         /\ {MaxSeatRes, MaxPress, ButtonsCap} \subseteq Nat \ {0}

VARIABLE seat

Kind == {"pointer", "keyboard", "touch"}
Focusable == {"pointer", "keyboard"}

Live(st, c) == st.res[c] > 0
ClientOf(st, s) == IF s # NoSeat /\ Live(st, SeatOwner[s]) THEN SeatOwner[s] ELSE NoSeat
Listed(st, k, c) == {i \in SeatId : st.dev[k][c][i] \in {"live", "listed"}}
Down(st) == {p \in TouchId : st.points[p] # NoSeat}
Pressed(st) == {b \in Button : st.buttons[b] > 0}

(* hw: the kinds of devices the machine has, and what its pointer has,      *)
(* buttons or a wheel; caps and acc: capabilities now and ever; clients:    *)
(* the list of bound clients, the newest first; dev: resources of each      *)
(* kind; ent: what they entered; odd: whether the last event of a kind did  *)
(* not alternate: an enter where it was, a leave without an enter, or       *)
(* "again", a leave repeated while the capability goes.  A touch point has  *)
(* its surface and client, focus, the surface it was moved to, with its     *)
(* focus_client, and dangles once that client is freed.  axis:              *)
(* sent_axis_source and cached_axis_source; src: the axis source of the     *)
(* device's current frame; asserts: the assertion of send_axis held, the    *)
(* end of a frame was missed (see wlr_seat_pointer_send_frame), or the      *)
(* assertion failed, because of that ("stale") or otherwise.                *)
SeatInit ==
  \E h \in SeatKindSets : seat =
    [alive |-> TRUE, hw |-> h, caps |-> {}, acc |-> {}, surfs |-> SeatSurface,
     clients |-> <<>>, odd |-> [k \in Focusable |-> "paired"], res |-> [c \in SeatClient |-> 0],
     dev |-> [k \in Kind |-> [c \in SeatClient |-> [i \in SeatId |-> "none"]]],
     ent |-> [k \in Kind |-> [c \in SeatClient |-> [i \in SeatId |-> NoSeat]]],
     focus |-> [k \in Focusable |-> NoSeat], fclient |-> [k \in Focusable |-> NoSeat],
     kbd |-> FALSE, buttons |-> [b \in Button |-> 0], held |-> {},
     axis |-> NoSeat, src |-> NoSeat, asserts |-> "held", grab |-> NoSeat, frame |-> {},
     points |-> [p \in TouchId |-> NoSeat]]

-----------------------------------------------------------------------------
(* Focus. *)

(* An enter or leave event reaches the live objects of a client. *)
Told(st, k, c, s) ==
  LET live == {i \in SeatId : st.dev[k][c][i] = "live"}
      twice == \E i \in live : (st.ent[k][c][i] = NoSeat) = (s = NoSeat)
  IN [st EXCEPT !.ent[k][c] = [i \in SeatId |-> IF i \in live THEN s ELSE @[i]],
                !.odd[k] = IF ~twice THEN "paired" ELSE IF s = NoSeat THEN "leave" ELSE "enter",
                !.held = IF k = "pointer" THEN {} ELSE @]

seat_client_send_pointer_leave_raw(st, c) == Told(st, "pointer", c, NoSeat)
seat_client_send_keyboard_leave_raw(st, c) == Told(st, "keyboard", c, NoSeat)

Leave(st, k) ==
  IF st.fclient[k] = NoSeat \/ st.focus[k] = NoSeat THEN st
  ELSE IF k = "pointer" THEN seat_client_send_pointer_leave_raw(st, st.fclient[k])
       ELSE seat_client_send_keyboard_leave_raw(st, st.fclient[k])

(* The leave of the old surface, the enter of the new one, then the focus. *)
MoveFocus(st, k, s) ==
  LET c == ClientOf(st, s)
      left == Leave(st, k)
      entered == IF c = NoSeat THEN left ELSE Told(left, k, c, s)
  IN [entered EXCEPT !.focus[k] = s, !.fclient[k] = c]

NoLeave(st, s) == IF st.focus["pointer"] = s THEN st
                  ELSE LET c == ClientOf(st, s) IN
                       [(IF c = NoSeat THEN st ELSE Told(st, "pointer", c, s))
                         EXCEPT !.focus["pointer"] = s, !.fclient["pointer"] = c]

wlr_seat_pointer_enter(st, s) ==
  IF st.focus["pointer"] = s THEN st ELSE MoveFocus(st, "pointer", s)
wlr_seat_keyboard_enter(st, s) ==
  IF st.focus["keyboard"] = s THEN st ELSE MoveFocus(st, "keyboard", s)

-----------------------------------------------------------------------------
(* Grabs: grab is the client of the popup grab, NoSeat for the default     *)
(* grab.  The popup grab starts and ends on all three kinds at once.       *)

(* Ending the pointer grab cancels it, which ends the popup grab again;    *)
(* the default grabs are in place by then and nothing more happens.        *)
xdg_popup_grab_end(st) == [st EXCEPT !.grab = NoSeat]

xdg_pointer_grab_enter(st, s) ==
  wlr_seat_pointer_enter(st, IF s # NoSeat /\ SeatOwner[s] = st.grab THEN s ELSE NoSeat)

PointerGrabEnter(st, s) ==
  IF st.grab = NoSeat THEN wlr_seat_pointer_enter(st, s) ELSE xdg_pointer_grab_enter(st, s)

ResetAlways(old, st) == [st EXCEPT !.buttons = [b \in Button |-> 0]]

(* The new surface does not know of the buttons that are pressed. *)
reset_buttons(old, st) ==
  IF old.focus["pointer"] = st.focus["pointer"] THEN st
  ELSE [st EXCEPT !.buttons = [b \in Button |-> 0]]

wlr_seat_pointer_notify_enter(s) ==
  /\ s \in seat.surfs
  /\ seat' = reset_buttons(seat, PointerGrabEnter(seat, s))

wlr_seat_pointer_notify_clear_focus ==
  seat' = reset_buttons(seat, PointerGrabEnter(seat, NoSeat))

(* The popup grab keeps the keyboard focus where it is. *)
wlr_seat_keyboard_notify_enter(s) ==
  /\ s \in seat.surfs
  /\ seat.grab = NoSeat
  /\ seat' = wlr_seat_keyboard_enter(seat, s)

wlr_seat_keyboard_notify_clear_focus ==
  /\ seat.grab = NoSeat
  /\ seat' = wlr_seat_keyboard_enter(seat, NoSeat)

start_popup_grab(c) == Live(seat, c) /\ seat' = [seat EXCEPT !.grab = c]
end_popup_grab == seat.grab # NoSeat /\ seat' = xdg_popup_grab_end(seat)

(* wlr_seat_pointer_send_button: the focused client, if any, hears of it. *)
wlr_seat_pointer_send_button(st, b, down) ==
  IF st.fclient["pointer"] = NoSeat THEN st
  ELSE [st EXCEPT !.held = IF down THEN @ \cup {b} ELSE @ \ {b}]

(* With the popup grab, a button nobody hears of ends the grab. *)
xdg_pointer_grab_button(st, b, down) ==
  LET sent == wlr_seat_pointer_send_button(st, b, down) IN
  IF st.grab # NoSeat /\ st.fclient["pointer"] = NoSeat THEN xdg_popup_grab_end(sent) ELSE sent

(* A second press of a pressed button is counted and not sent, a press     *)
(* past the table's capacity is dropped, and so is a release of a button   *)
(* that is not in the table.                                               *)
wlr_seat_pointer_notify_button(b, down) ==
  LET n == seat.buttons[b]
      stored(m) == [seat EXCEPT !.buttons[b] = m]
  IN IF down
     THEN \/ n > 0 /\ n < MaxPress /\ seat' = stored(n + 1)
          \/ /\ n = 0 /\ Cardinality(Pressed(seat)) < ButtonsCap
             /\ seat' = xdg_pointer_grab_button(stored(1), b, TRUE)
     ELSE \/ n > 1 /\ seat' = stored(n - 1)
          \/ n = 1 /\ seat' = xdg_pointer_grab_button(stored(0), b, FALSE)

(* The frame's source is sent once and asserted not to change within the    *)
(* frame; the program ends where the assertion fails.                       *)
wlr_seat_pointer_send_axis(a) ==
  /\ seat.src \in {a, NoSeat}
  /\ LET ok == seat.axis \in {a, NoSeat}
         fails == IF seat.asserts = "missed" THEN "stale" ELSE "failed"
     IN seat' = IF seat.fclient["pointer"] = NoSeat THEN [seat EXCEPT !.src = a]
                ELSE [seat EXCEPT !.src = a, !.axis = IF @ = NoSeat THEN a ELSE @,
                                  !.asserts = IF ok THEN @ ELSE fails]

(* A frame that ends while nobody has the focus leaves sent_axis_source set,*)
(* and the next frame is held to the source of this one.                    *)
frame_keeps_source ==
  seat.src # NoSeat /\ seat' = [seat EXCEPT !.src = NoSeat]

wlr_seat_pointer_send_frame ==
  /\ seat.src # NoSeat
  /\ seat' = IF seat.fclient["pointer"] = NoSeat
             THEN [seat EXCEPT !.src = NoSeat,
                               !.asserts = IF seat.axis = NoSeat THEN @ ELSE "missed"]
             ELSE [seat EXCEPT !.src = NoSeat, !.axis = NoSeat, !.asserts = "held"]

-----------------------------------------------------------------------------
(* Touch points. *)

DropPoints(st, ps) == [st EXCEPT !.points = [p \in TouchId |-> IF p \in ps THEN NoSeat ELSE @[p]]]

(* A point needs a bound client with a touch object; the popup grab ends   *)
(* on a touch of another client, and that point is destroyed.              *)
wlr_seat_touch_notify_down(s, p) ==
  LET c == ClientOf(seat, s) IN
  /\ s \in seat.surfs /\ seat.points[p] = NoSeat
  /\ c # NoSeat /\ Listed(seat, "touch", c) # {}
  /\ seat' = IF seat.grab \notin {NoSeat, c} THEN xdg_popup_grab_end(seat)
             ELSE [seat EXCEPT !.points[p] = [surface |-> s, client |-> c, focus |-> NoSeat,
                                                 focus_client |-> NoSeat, dangles |-> FALSE],
                               !.frame = @ \cup {c}]

wlr_seat_touch_notify_up(p) ==
  /\ p \in Down(seat)
  /\ seat' = DropPoints([seat EXCEPT !.frame = @ \cup {seat.points[p].client}], {p})

wlr_seat_touch_notify_motion(p) ==
  /\ p \in Down(seat)
  /\ seat.grab # NoSeat \/ seat.points[p].focus \in {NoSeat, seat.points[p].surface}
  /\ seat' = [seat EXCEPT !.frame = @ \cup {seat.points[p].client}]

wlr_seat_touch_notify_frame == seat' = [seat EXCEPT !.frame = {}]

wlr_seat_touch_notify_cancel(c) ==
  /\ Live(seat, c)
  /\ seat' = DropPoints(seat, {p \in Down(seat) : seat.points[p].client = c})

clear_keeps_client(x) == [x EXCEPT !.focus = NoSeat]

touch_point_clear_focus(x) ==
  [x EXCEPT !.focus = NoSeat, !.focus_client = NoSeat, !.dangles = FALSE]

touch_point_set_focus(s, p) ==
  /\ s \in seat.surfs /\ p \in Down(seat) /\ seat.points[p].focus # s
  /\ LET c == ClientOf(seat, s)
         ok == c # NoSeat /\ Listed(seat, "touch", c) # {}
         clear == touch_point_clear_focus(seat.points[p])
     IN seat' = [seat EXCEPT !.points[p] =
                   IF ok THEN [clear EXCEPT !.focus = s, !.focus_client = c] ELSE clear]

wlr_seat_touch_notify_clear_focus(p) ==
  /\ p \in Down(seat)
  /\ seat' = [seat EXCEPT !.points[p] = touch_point_clear_focus(@)]

-----------------------------------------------------------------------------
(* Objects and their lifetime. *)

(* Every listed object of these kinds and clients loses its user data. *)
MakeInert(st, ks, cs) ==
  [st EXCEPT !.dev = [k \in Kind |-> [c \in SeatClient |-> [i \in SeatId |->
     IF k \in ks /\ c \in cs /\ i \in Listed(st, k, c) THEN "inert" ELSE @[k][c][i]]]]]

(* The touch points of the client go with its destroy signal; those of     *)
(* other clients that were moved to it keep the pointer.                   *)
seat_client_destroy(st, c) ==
  LET quiet == DropPoints(st, {p \in Down(st) : st.points[p].client = c})
      gone == [quiet EXCEPT
        !.clients = SelectSeq(@, LAMBDA d : d # c),
        !.points = [p \in TouchId |-> IF @[p] # NoSeat /\ @[p].focus_client = c
                                      THEN [@[p] EXCEPT !.dangles = TRUE] ELSE @[p]],
        !.fclient = [k \in Focusable |-> IF @[k] = c THEN NoSeat ELSE @[k]],
        !.held = IF st.fclient["pointer"] = c THEN {} ELSE @,
        !.frame = @ \ {c}]
  IN MakeInert(gone, Kind, {c})

NoFocusBack(st, c) == st

(* A client whose surface has the focus already gets the focus back. *)
seat_client_create(st, c) ==
  [st EXCEPT !.clients = <<c>> \o @, !.fclient = [k \in Focusable |->
     IF st.focus[k] # NoSeat /\ SeatOwner[st.focus[k]] = c THEN c ELSE @[k]]]

seat_handle_bind(c) ==
  /\ seat.res[c] < MaxSeatRes
  /\ seat' = [(IF Live(seat, c) THEN seat ELSE seat_client_create(seat, c)) EXCEPT !.res[c] = @ + 1]

seat_client_handle_resource_destroy(c) ==
  /\ Live(seat, c)
  /\ LET st == [seat EXCEPT !.res[c] = @ - 1] IN
     seat' = IF Live(st, c) THEN st ELSE seat_client_destroy(st, c)

(* get_pointer, get_keyboard and get_touch need a capability the seat has  *)
(* had; while the seat does not have it the object is born without user    *)
(* data.  The focused client's new object gets its enter event: a keyboard *)
(* only when the seat has one.                                             *)
seat_client_create_pointer(st, c, i) ==
  [st EXCEPT !.ent["pointer"][c][i] = IF st.fclient["pointer"] = c THEN st.focus["pointer"] ELSE NoSeat]
seat_client_create_keyboard(st, c, i) ==
  [st EXCEPT !.ent["keyboard"][c][i] =
     IF st.kbd /\ st.fclient["keyboard"] = c THEN st.focus["keyboard"] ELSE NoSeat]
seat_client_create_touch(st, c, i) == [st EXCEPT !.ent["touch"][c][i] = NoSeat]

seat_handle_get(k, c, i) ==
  LET has == k \in seat.caps
      st == [seat EXCEPT !.dev[k][c][i] = IF has THEN "live" ELSE "listed",
                         !.ent[k][c][i] = NoSeat]
  IN /\ Live(seat, c) /\ k \in seat.acc /\ seat.dev[k][c][i] = "none"
     /\ seat' = CASE ~has -> st
                  [] has /\ k = "pointer" -> seat_client_create_pointer(st, c, i)
                  [] has /\ k = "keyboard" -> seat_client_create_keyboard(st, c, i)
                  [] OTHER -> seat_client_create_touch(st, c, i)

release_object(k, c, i) ==
  /\ seat.dev[k][c][i] # "none"
  /\ seat' = [seat EXCEPT !.dev[k][c][i] = "none"]

(* One of the capabilities is gone: leave events to the focused client.    *)
LeaveAll(st, gone) ==
  LET p == IF "pointer" \in gone THEN Leave(st, "pointer") ELSE st
  IN IF "keyboard" \in gone THEN Leave(p, "keyboard") ELSE p

(* The focus is kept so that an object created later gets its enter.  The  *)
(* leave is sent at each client of the list, until the focused one is      *)
(* passed, whose objects are inert then: again at the second client.       *)
wlr_seat_set_capabilities(new) ==
  LET gone == Kind \ new
      st == [seat EXCEPT !.caps = new, !.acc = @ \cup new]
      n == Len(st.clients)
      first == IF n = 0 THEN st ELSE MakeInert(LeaveAll(st, gone), gone, {Head(st.clients)})
      next == IF n < 2 THEN first ELSE LeaveAll(first, gone)
      again == {k \in gone \cap Focusable : n > 1 /\ next.odd[k] = "leave"
                                            /\ NoSeat \notin {st.fclient[k], st.focus[k]}}
  IN /\ new # seat.caps /\ new \subseteq seat.hw
     /\ seat' = [MakeInert(next, gone, {c \in SeatClient : Live(st, c)})
                   EXCEPT !.odd = [k \in Focusable |-> IF k \in again THEN "again" ELSE first.odd[k]]]

wlr_seat_set_keyboard(on) ==
  "keyboard" \in seat.hw /\ seat.kbd # on /\ seat' = [seat EXCEPT !.kbd = on]

(* Both focus listeners clear the focus without the grab's consent; touch  *)
(* points only forget the surface.                                         *)
surface_destroy(s) ==
  /\ s \in seat.surfs
  /\ LET p == IF seat.focus["pointer"] = s THEN wlr_seat_pointer_enter(seat, NoSeat) ELSE seat
         q == IF seat.focus["keyboard"] = s THEN wlr_seat_keyboard_enter(p, NoSeat) ELSE p
         forget(x) == IF x = s THEN NoSeat ELSE x
     IN seat' = [q EXCEPT !.surfs = @ \ {s},
                   !.points = [t \in TouchId |-> IF @[t] = NoSeat THEN NoSeat
                     ELSE [(IF @[t].focus = s THEN touch_point_clear_focus(@[t]) ELSE @[t])
                             EXCEPT !.surface = forget(@)]]]

wlr_seat_destroy ==
  LET p == wlr_seat_keyboard_enter(wlr_seat_pointer_enter(seat, NoSeat), NoSeat) IN
  seat' = [MakeInert(p, Kind, SeatClient) EXCEPT
             !.alive = FALSE, !.clients = <<>>, !.kbd = FALSE, !.grab = NoSeat, !.frame = {},
             !.res = [c \in SeatClient |-> 0],
             !.points = [t \in TouchId |-> NoSeat]]

-----------------------------------------------------------------------------
SeatObjects ==
  \/ \E c \in SeatClient : seat_handle_bind(c)
  \/ \E c \in SeatClient : seat_client_handle_resource_destroy(c)
  \/ \E k \in Kind, c \in SeatClient, i \in SeatId : seat_handle_get(k, c, i)
  \/ \E k \in Kind, c \in SeatClient, i \in SeatId : release_object(k, c, i)
  \/ \E new \in SUBSET Kind : wlr_seat_set_capabilities(new)
  \/ \E on \in BOOLEAN : wlr_seat_set_keyboard(on)
  \/ \E s \in SeatSurface : surface_destroy(s)
  \/ wlr_seat_destroy

SeatInput ==
  \/ /\ "pointer" \in seat.hw
     /\ \/ \E s \in SeatSurface : wlr_seat_pointer_notify_enter(s)
        \/ wlr_seat_pointer_notify_clear_focus
        \/ /\ "buttons" \in seat.hw
           /\ \E b \in Button, down \in BOOLEAN : wlr_seat_pointer_notify_button(b, down)
        \/ /\ "wheel" \in seat.hw
           /\ \/ \E a \in AxisSource : wlr_seat_pointer_send_axis(a)
              \/ wlr_seat_pointer_send_frame
  \/ /\ "keyboard" \in seat.hw
     /\ \/ \E s \in SeatSurface : wlr_seat_keyboard_notify_enter(s)
        \/ wlr_seat_keyboard_notify_clear_focus
  \/ /\ "touch" \in seat.hw
     /\ \/ \E s \in SeatSurface, p \in TouchId : wlr_seat_touch_notify_down(s, p)
        \/ \E p \in TouchId : wlr_seat_touch_notify_up(p)
        \/ \E p \in TouchId : wlr_seat_touch_notify_motion(p)
        \/ wlr_seat_touch_notify_frame
        \/ \E c \in SeatClient : wlr_seat_touch_notify_cancel(c)
        \/ \E s \in SeatSurface, p \in TouchId : touch_point_set_focus(s, p)
        \/ \E p \in TouchId : wlr_seat_touch_notify_clear_focus(p)
  \/ \E c \in SeatClient : start_popup_grab(c)
  \/ end_popup_grab

SeatNext == seat.alive /\ seat.asserts \in {"held", "missed"} /\ (SeatObjects \/ SeatInput)

-----------------------------------------------------------------------------
(* Nothing the seat points to is gone: the focused surfaces exist, the     *)
(* focused client is the bound client of the focused surface whenever it   *)
(* has one, also when it bound the seat after it got the focus or unbound  *)
(* it meanwhile, and a touch point's client is bound.  The focus_client of *)
(* a point is the bound client of its focus, unless that client was freed  *)
(* meanwhile, which the point does not hear of.                            *)
SeatReferencesLive ==
  /\ \A k \in Focusable :
       /\ seat.focus[k] \in seat.surfs \cup {NoSeat}
       /\ seat.fclient[k] = ClientOf(seat, seat.focus[k])
  /\ \A p \in Down(seat) :
       LET x == seat.points[p]
       IN /\ Live(seat, x.client)
          /\ {x.surface, x.focus} \subseteq seat.surfs \cup {NoSeat}
          /\ x.dangles \/ x.focus_client = ClientOf(seat, x.focus)
          /\ x.dangles => x.focus # NoSeat

(* What clients believe: a live pointer object is in exactly the surface   *)
(* that has the pointer, whichever of focus changes, capability changes,   *)
(* late binds and surface destruction led there; a keyboard object is in   *)
(* no other surface than the focused one (it may miss its enter when it    *)
(* was created while the seat had no keyboard).  Enter and leave alternate,*)
(* but for the leave of a keyboard that missed its enter and those that    *)
(* wlr_seat_set_capabilities repeats.                                      *)
EnterLeavePaired ==
  /\ seat.odd["pointer"] \in {"paired", "again"} /\ seat.odd["keyboard"] # "enter"
  /\ \A c \in SeatClient, i \in SeatId :
       LET at(k) == IF seat.fclient[k] = c THEN seat.focus[k] ELSE NoSeat IN
       /\ seat.dev["pointer"][c][i] = "live" => seat.ent["pointer"][c][i] = at("pointer")
       /\ seat.dev["keyboard"][c][i] = "live" => seat.ent["keyboard"][c][i] \in {at("keyboard"), NoSeat}

(* Each press a client saw is in the seat's table until the client saw its *)
(* release or lost the pointer: the release is never dropped as unknown.   *)
ReleaseDelivered == seat.held \subseteq Pressed(seat)


-----------------------------------------------------------------------------
(***************************************************************************)
(* The serials a seat client was sent, kept as a ring of ranges, and the   *)
(* check that a serial in a request is one of them.  Serials are Wide-bit  *)
(* counters shared by all clients of the display: SerialWidth stands for   *)
(* 2^32, RingSize for WLR_SERIAL_RINGSET_SIZE, MaxSerials bounds the       *)
(* serials drawn (fewer than one turn of the counter).                     *)
(***************************************************************************)
CONSTANTS SerialWidth, RingSize, MaxSerials

ASSUME SerialAssumption ==
  /\ {SerialWidth, RingSize, MaxSerials} \subseteq Nat \ {0}
  /\ MaxSerials < SerialWidth

(* cur: the display's counter; data[0..count-1], end: the ring; sent: every *)
(* serial this client was given.                                            *)
VARIABLE serials

Dist(a, b) == (a - b) % SerialWidth
Range1(v) == [min |-> v, max |-> v]

(* A new client's ring, empty. *)
NewRing(v) ==
  [cur |-> v, n |-> 0, count |-> 0, end |-> 0, sent |-> {},
   data |-> [i \in 0..(RingSize - 1) |-> Range1(0)]]

SerialInit == \E v \in 0..(SerialWidth - 1) : serials = NewRing(v)

Following(v) == (v + 1) % SerialWidth

(* Another client or object draws a serial. *)
wl_display_next_serial ==
  /\ serials.n < MaxSerials
  /\ serials' = [serials EXCEPT !.cur = Following(@), !.n = @ + 1]

NoSkip(ring, v) == [ring EXCEPT !.data[ring.end].max = v]

(* A serial that follows the newest range extends it; otherwise a new      *)
(* range replaces the oldest one once the ring is full.                    *)
record_serial(ring, v) ==
  LET next == IF ring.count = 0 THEN 0 ELSE (ring.end + 1) % RingSize IN
  IF ring.count > 0 /\ Following(ring.data[ring.end].max) = v
  THEN [ring EXCEPT !.data[ring.end].max = v]
  ELSE [ring EXCEPT !.count = IF @ < RingSize THEN @ + 1 ELSE @,
                    !.end = next, !.data[next] = Range1(v)]

(* Serial 0 is skipped. *)
wlr_seat_client_next_serial ==
  LET once == Following(serials.cur)
      v == IF once = 0 THEN 1 ELSE once
  IN /\ serials.n < MaxSerials
     /\ serials' = [record_serial(serials, v) EXCEPT
                      !.cur = v, !.n = @ + 1, !.sent = @ \cup {v}]

(* From the newest range to the oldest: a serial between two ranges was    *)
(* not sent; one older than a full ring may have been recycled.            *)
wlr_seat_client_validate_event_serial(v) ==
  LET rev == Dist(serials.cur, v)
      at(i) == serials.data[(serials.end - i + RingSize) % RingSize]
      newer(i) == rev < Dist(serials.cur, at(i).max)
      inside(i) == rev <= Dist(serials.cur, at(i).min)
      hits == {i \in 0..(serials.count - 1) : newer(i) \/ inside(i)}
      first == CHOOSE i \in hits : \A j \in hits : i <= j
  IN /\ rev < (SerialWidth - 1) \div 2
     /\ IF hits = {} THEN serials.count = RingSize ELSE ~newer(first)

SerialNext == wl_display_next_serial \/ wlr_seat_client_next_serial

SerialSpec == SerialInit /\ [][SerialNext]_serials

(* Over every recent serial, also across the counter's wrap-around: one    *)
(* the client was sent validates, however many others were drawn in        *)
(* between, and one it was not sent does not, unless it is older than      *)
(* everything a full ring remembers.                                       *)
SerialsRecognised ==
  \A v \in 0..(SerialWidth - 1) :
    LET age == Dist(serials.cur, v)
        forgotten == /\ serials.count = RingSize
                     /\ \A i \in 0..(RingSize - 1) : age > Dist(serials.cur, serials.data[i].min)
    IN age < (SerialWidth - 1) \div 2 =>
         /\ v \in serials.sent => wlr_seat_client_validate_event_serial(v)
         /\ wlr_seat_client_validate_event_serial(v) => v \in serials.sent \/ forgotten
=============================================================================
