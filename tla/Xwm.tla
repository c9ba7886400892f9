-------------------------------- MODULE Xwm ---------------------------------
(***************************************************************************)
(* The X11 window manager of Xwayland.  A window exists on two connections  *)
(* that are not ordered with each other: its events come from the X         *)
(* connection, its wl_surface from the Wayland one, and a serial (or, with  *)
(* old servers, the id of the wl_surface) pairs them.  xw.x is the X        *)
(* server, with xq the events it sent, rq the requests it has not read and  *)
(* wq the Wayland requests of Xwayland; the rest is struct wlr_xwm.  A      *)
(* wl_surface is named by its serial; 0 is none.                            *)
(***************************************************************************)
EXTENDS Integers, Sequences, FiniteSets, SequencesExt

CONSTANTS XWin,         \* windows
          MaxXSerial,   \* surfaces the X server creates
          XSeqMod,      \* values of a sequence number of the X protocol
          XBursts,      \* numbers of requests sent that say nothing of the focus
          MaxXOps       \* steps of X clients and of the compositor

ASSUME XwmAssumption == /\ MaxXSerial \in Nat /\ MaxXOps \in Nat
                        /\ XSeqMod \in Nat \ {0} /\ XBursts \subseteq Nat

VARIABLE xw

NoWin == "none"

(* The X server: windows and the input focus. *)
XServer == [exists |-> {}, mapped |-> {}, or |-> {}, focus |-> NoWin,
            surf |-> [w \in XWin |-> 0], done |-> 0]

(* alive, surface, serial, unpaired, or, stack (bottom to top), withdrawn,  *)
(* focus, offered, lastSeq, parent: of struct wlr_xwm and its surfaces;     *)
(* full, min, prop: the states of a window and its _NET_WM_STATE property;  *)
(* client: wl_surfaces, with those that have a serial, were announced, have *)
(* a buffer and are mapped; ids: the server pairs by id; noinput: windows   *)
(* whose hints say that they take the focus by themselves.  seq numbers our *)
(* requests; on the wire are its last bits.  granted and lapsed say where   *)
(* the focus was given away or a FocusIn event misjudged.                   *)
XWindows ==
  [alive |-> {}, surface |-> [w \in XWin |-> 0], serial |-> [w \in XWin |-> 0],
   unpaired |-> {}, or |-> {}, stack |-> <<>>, withdrawn |-> {}, full |-> {}, min |-> {},
   prop |-> [w \in XWin |-> {"unset"}], parent |-> [w \in XWin |-> NoWin], missed |-> {}]

XwmState(ids, pid, noinput) ==
  XWindows @@
  [x |-> XServer, xq |-> <<>>, rq |-> <<>>, wq |-> <<>>, next |-> 1, seq |-> 0, ops |-> 0,
   ids |-> ids, pid |-> pid, noinput |-> noinput, granted |-> FALSE, lapsed |-> FALSE, focus |-> NoWin, offered |-> NoWin, lastSeq |-> 0,
   client |-> [made |-> {}, serial |-> {}, added |-> {}, buffer |-> {}, mapped |-> {}]]

-----------------------------------------------------------------------------
(* _NET_WM_STATE, rewritten whole; a withdrawn window has none. *)
xsurface_set_net_wm_state(st, w) ==
  [st EXCEPT !.prop[w] =
     IF w \in st.withdrawn THEN {"unset"}
     ELSE (IF w \in st.full THEN {"fullscreen"} ELSE {})
          \cup (IF w \in st.min THEN {"hidden"} ELSE {})
          \cup (IF w = st.focus THEN {"focused"} ELSE {})]

wlr_xwayland_surface_set_withdrawn(st, w, b) ==
  xsurface_set_net_wm_state(
    [st EXCEPT !.withdrawn = IF b THEN @ \cup {w} ELSE @ \ {w}], w)

(* ICCCM: fullscreen is taken from the property as it is now, the other     *)
(* states only when they are there.                                         *)
read_surface_net_wm_state(st, w) ==
  [st EXCEPT !.full = IF "fullscreen" \in st.prop[w] THEN @ \cup {w} ELSE @ \ {w},
             !.min = IF "hidden" \in st.prop[w] THEN @ \cup {w} ELSE @]

(* Requests are numbered, whatever they ask for. *)
XcbRequest(st, kind, w) ==
  [st EXCEPT !.rq = Append(@, <<kind, w, st.seq + 1>>), !.seq = @ + 1]

(* Only the number of a request that names a window is kept; a window that  *)
(* takes the focus by itself is sent WM_TAKE_FOCUS alone.                   *)
xwm_focus_window(st, w) ==
  IF w = NoWin THEN XcbRequest(st, "focus", NoWin)
  ELSE IF w \in st.or THEN st
  ELSE IF w \in st.noinput THEN XcbRequest(st, "take", w)
  ELSE [XcbRequest(st, "focus", w) EXCEPT !.lastSeq = st.seq + 1]

xwm_set_focused_window(st, w) ==
  LET old == st.focus
      new == [st EXCEPT !.focus = w, !.offered = w]
      unfocused == IF old # NoWin THEN xsurface_set_net_wm_state(new, old) ELSE new
  IN IF w \in st.or THEN st
     ELSE IF w = old THEN new
     ELSE IF w # NoWin THEN xsurface_set_net_wm_state(unfocused, w) ELSE unfocused

xwm_surface_activate(st, w) ==
  IF w \in st.or THEN st
  ELSE xwm_set_focused_window(
         IF w # st.focus /\ w # st.offered THEN xwm_focus_window(st, w) ELSE st, w)

-----------------------------------------------------------------------------
(* Pairing a window with its wl_surface. *)
dissociate_keeps_serial(st, w) ==
  [st EXCEPT !.client.mapped = @ \ {st.surface[w]}, !.surface[w] = 0, !.unpaired = @ \ {w},
             !.stack = SelectSeq(@, LAMBDA v : v # w)]

xwayland_surface_dissociate(st, w) ==
  [st EXCEPT !.client.mapped = @ \ {st.surface[w]}, !.surface[w] = 0, !.unpaired = @ \ {w},
             !.serial[w] = 0, !.stack = SelectSeq(@, LAMBDA v : v # w)]

xwayland_surface_associate(st, w, s) ==
  [st EXCEPT !.surface[w] = s, !.unpaired = @ \ {w},
             !.client.mapped = IF s \in st.client.buffer THEN @ \cup {s} ELSE @]

(* Looked up by serial among the surfaces that have one, by id among all.   *)
wlr_xwayland_shell_v1_surface_from_serial(st, s) == s \in st.client.serial

xwm_handle_surface_serial_message(st, w, s) ==
  LET paired == [st EXCEPT !.serial[w] = s] IN
  IF w \notin st.alive \/ st.serial[w] # 0 THEN st
  ELSE IF wlr_xwayland_shell_v1_surface_from_serial(st, s)
    THEN xwayland_surface_associate(paired, w, s)
  ELSE [paired EXCEPT !.unpaired = @ \cup {w}]

xwm_handle_surface_id_message(st, w, s) ==
  IF w \notin st.alive \/ st.surface[w] # 0 THEN st
  ELSE IF s \in st.client.made
    THEN xwayland_surface_associate([st EXCEPT !.serial[w] = 0], w, s)
  ELSE [st EXCEPT !.serial[w] = s, !.unpaired = @ \cup {w}]

(* handle_shell_v1_new_surface and, for ids, handle_compositor_new_surface. *)
handle_new_surface(st, s) ==
  LET waiting == {w \in st.unpaired : st.serial[w] = s} IN
  IF waiting = {} THEN st
  ELSE xwayland_surface_associate(st, CHOOSE w \in waiting : TRUE, s)

-----------------------------------------------------------------------------
(* Stacking.  stack holds the managed windows. *)
wlr_xwayland_surface_restack(st, w, sibling, above) ==
  LET rest == SelectSeq(st.stack, LAMBDA v : v # w)
      at(v) == CHOOSE i \in DOMAIN rest : rest[i] = v
      below == IF sibling = NoWin THEN 1 ELSE at(sibling)
      top == IF sibling = NoWin THEN Len(rest) + 1 ELSE at(sibling) + 1
  IN [st EXCEPT !.stack = InsertAt(rest, IF above THEN top ELSE below, w)]

update_or_keeps_stack(st, w, b) ==
  [st EXCEPT !.or = IF b THEN @ \cup {w} ELSE @ \ {w}]

xwm_update_override_redirect(st, w, b) ==
  LET new == [st EXCEPT !.or = IF b THEN @ \cup {w} ELSE @ \ {w}] IN
  IF b = (w \in st.or) THEN st
  ELSE IF b THEN [new EXCEPT !.stack = SelectSeq(@, LAMBDA v : v # w), !.missed = @ \ {w}]
  ELSE IF st.surface[w] \in st.client.mapped
    THEN wlr_xwayland_surface_restack(new, w, NoWin, FALSE)
  ELSE [new EXCEPT !.missed = @ \cup {w}]

-----------------------------------------------------------------------------
(* Events of the X connection. *)
xwayland_surface_create(st, w, or) ==
  [st EXCEPT !.alive = @ \cup {w}, !.or = IF or THEN @ \cup {w} ELSE @ \ {w},
             !.surface[w] = 0, !.serial[w] = 0, !.prop[w] = {"unset"},
             !.withdrawn = @ \ {w}, !.full = @ \ {w}, !.min = @ \ {w}, !.parent[w] = NoWin]

destroy_keeps_offer(st, w) ==
  LET alone == xwayland_surface_dissociate(st, w)
      unfocused == IF w = alone.focus THEN xwm_surface_activate(alone, NoWin) ELSE alone
  IN [unfocused EXCEPT !.alive = @ \ {w}, !.or = @ \ {w},
        !.parent = [v \in XWin |-> IF @[v] = w \/ v = w THEN NoWin ELSE @[v]]]

xwayland_surface_destroy(st, w) ==
  LET alone == xwayland_surface_dissociate(st, w)
      unfocused == IF w = alone.focus THEN xwm_surface_activate(alone, NoWin) ELSE alone
  IN [unfocused EXCEPT !.offered = IF @ = w THEN NoWin ELSE @, !.alive = @ \ {w}, !.or = @ \ {w},
        !.parent = [v \in XWin |-> IF @[v] = w \/ v = w THEN NoWin ELSE @[v]]]

xwm_handle_map_notify(st, w, or) ==
  LET new == [xwm_update_override_redirect(st, w, or) EXCEPT !.missed = @ \ {w}] IN
  IF w \in new.or THEN new
  ELSE wlr_xwayland_surface_restack(
         wlr_xwayland_surface_set_withdrawn(new, w, FALSE), w, NoWin, FALSE)

xwm_handle_unmap_notify(st, w) ==
  LET new == xwayland_surface_dissociate(st, w) IN
  IF w \in new.or THEN new ELSE wlr_xwayland_surface_set_withdrawn(new, w, TRUE)

has_parent_direct(st, parent, child) == parent = child

(* Is child among parent and its ancestors? *)
has_parent(st, parent, child) ==
  LET up[n \in 0..Cardinality(XWin)] == IF n = 0 THEN parent
        ELSE IF up[n - 1] = NoWin THEN NoWin ELSE st.parent[up[n - 1]]
  IN \E n \in DOMAIN up : up[n] = child

read_surface_parent(st, w, p) ==
  LET found == IF p \in st.alive THEN p ELSE NoWin IN
  IF has_parent(st, found, w) THEN st ELSE [st EXCEPT !.parent[w] = found]

(* update_state for each property of the message; the property is written   *)
(* when something changed.                                                  *)
xwm_handle_net_wm_state_message(st, w, full) ==
  IF full = (w \in st.full) THEN st
  ELSE xsurface_set_net_wm_state(
         [st EXCEPT !.full = IF full THEN @ \cup {w} ELSE @ \ {w}], w)

HalfRange == (XSeqMod - 1) \div 2

validate_any(last, seq) == TRUE

(* An event older than our last request says nothing: the X server had not  *)
(* seen the request.  Both numbers are cut to the width of the wire; half   *)
(* of the range counts as older.                                            *)
validate_focus_serial(last, seq) == (seq - last) % XSeqMod < HalfRange

xwm_handle_focus_in(st, w, seq) ==
  LET same(v) == v # NoWin /\ st.pid[v] = st.pid[w]
      valid == validate_focus_serial(st.lastSeq, seq)
      seen == [st EXCEPT !.lapsed = @ \/ seq - st.lastSeq \notin (HalfRange - XSeqMod) .. (HalfRange - 1)]
  IN IF ~valid THEN seen
     ELSE IF w \in st.alive /\ (same(st.focus) \/ same(st.offered))
       THEN xwm_set_focused_window(seen, w)
     ELSE xwm_focus_window(seen, st.focus)

(* xcb_map_window: the X server maps the window when it reads the request.  *)
xwm_handle_map_request(st, w) == XcbRequest(st, "map", w)

xwm_handle_create_notify(st, w, or) ==
  IF w \in st.alive THEN st ELSE xwayland_surface_create(st, w, or)

(* ConfigureNotify tells of the position and of override-redirect. *)
xwm_handle_configure_notify(st, w, or) == xwm_update_override_redirect(st, w, or)

(* Which property changed decides what is read again. *)
xwm_handle_property_notify(st, w, e) ==
  IF e[1] = "parent" THEN read_surface_parent(st, w, e[3]) ELSE read_surface_net_wm_state(st, w)

xwm_handle_client_message(st, w, e) ==
  IF e[1] = "state" THEN xwm_handle_net_wm_state_message(st, w, e[3])
  ELSE IF st.ids THEN xwm_handle_surface_id_message(st, w, e[3])
  ELSE xwm_handle_surface_serial_message(st, w, e[3])

(* Events for windows that are not known are dropped. *)
read_x11_events(st, e) ==
  LET w == e[2] IN
  CASE e[1] = "create" -> xwm_handle_create_notify(st, w, e[3])
    [] e[1] = "focus"  -> xwm_handle_focus_in(st, w, e[3])
    [] w \notin st.alive -> st
    [] e[1] = "destroy" -> xwayland_surface_destroy(st, w)
    [] e[1] = "mapreq" -> xwm_handle_map_request(st, w)
    [] e[1] = "map"    -> xwm_handle_map_notify(st, w, e[3])
    [] e[1] = "config" -> xwm_handle_configure_notify(st, w, e[3])
    [] e[1] = "unmap"  -> xwm_handle_unmap_notify(st, w)
    [] e[1] \in {"parent", "prop"} -> xwm_handle_property_notify(st, w, e)
    [] e[1] \in {"state", "serial"} -> xwm_handle_client_message(st, w, e)

XEvent ==
  /\ xw.xq # <<>>
  /\ xw' = read_x11_events([xw EXCEPT !.xq = Tail(@)], Head(xw.xq))

(* Requests of the Wayland connection.  A destroyed surface takes its       *)
(* addon, and with it the pairing, along.                                   *)
xwl_surface_role_commit(st, s) ==
  LET new == IF s \in st.client.serial \ st.client.added /\ ~st.ids
               THEN handle_new_surface([st EXCEPT !.client.added = @ \cup {s}], s) ELSE st
      after == [new EXCEPT !.client.buffer = @ \cup {s}]
  IN IF \E w \in st.alive : after.surface[w] = s
       THEN [after EXCEPT !.client.mapped = @ \cup {s}] ELSE after

SurfaceDestroyed(st, s) ==
  LET owner == {w \in st.alive : st.surface[w] = s}
      alone == IF owner = {} THEN st
               ELSE xwayland_surface_dissociate(st, CHOOSE w \in owner : TRUE)
  IN [alone EXCEPT !.client = [f \in DOMAIN @ |-> @[f] \ {s}]]

WlRequest ==
  /\ xw.wq # <<>>
  /\ LET r == Head(xw.wq)
         st == [xw EXCEPT !.wq = Tail(@)]
         made == [st EXCEPT !.client.made = @ \cup {r[2]}]
     IN xw' = CASE r[1] = "create" -> IF st.ids THEN handle_new_surface(made, r[2]) ELSE made
                [] r[1] = "serial" -> [st EXCEPT !.client.serial = @ \cup {r[2]}]
                [] r[1] = "commit" -> xwl_surface_role_commit(st, r[2])
                [] r[1] = "destroy" -> SurfaceDestroyed(st, r[2])

-----------------------------------------------------------------------------
(* The X server and its clients. *)
Op(new) == xw.ops < MaxXOps /\ xw' = [new EXCEPT !.ops = @ + 1]
Event(st, e) == [st EXCEPT !.xq = Append(@, e)]

ClientCreate(w, or) ==
  /\ w \notin xw.x.exists
  /\ Op(Event([xw EXCEPT !.x.exists = @ \cup {w},
                         !.x.or = IF or THEN @ \cup {w} ELSE @ \ {w}], <<"create", w, or>>))

(* A window is realized: it gets a wl_surface and says so on both sides.    *)
Realized(st, w) ==
  LET s == st.next
      or == w \in st.x.or
  IN [st EXCEPT !.x.mapped = @ \cup {w}, !.x.surf[w] = s, !.next = s + 1,
        !.xq = @ \o <<<<"map", w, or>>, <<"serial", w, s>>>>,
        !.wq = @ \o (IF st.ids THEN <<<<"create", s>>, <<"commit", s>>>>
                     ELSE <<<<"create", s>>, <<"serial", s>>, <<"commit", s>>>>)]

(* Managed windows are redirected to the window manager. *)
ClientMap(w) ==
  /\ w \in xw.x.exists \ xw.x.mapped /\ xw.next <= MaxXSerial
  /\ Op(IF w \in xw.x.or THEN Realized(xw, w) ELSE Event(xw, <<"mapreq", w>>))

Unrealized(st, w) ==
  [Event(st, <<"unmap", w>>) EXCEPT
     !.x.mapped = @ \ {w}, !.wq = Append(@, <<"destroy", st.x.surf[w]>>), !.x.surf[w] = 0,
     !.x.focus = IF @ = w THEN NoWin ELSE @]

ClientUnmap(w) == w \in xw.x.mapped /\ Op(Unrealized(xw, w))

ClientDestroy(w) ==
  /\ w \in xw.x.exists
  /\ LET st == IF w \in xw.x.mapped THEN Unrealized(xw, w) ELSE xw IN
     Op(Event([st EXCEPT !.x.exists = @ \ {w}], <<"destroy", w>>))

(* The attribute may change at any time; a ConfigureNotify tells. *)
ClientOverride(w, b) ==
  /\ w \in xw.x.exists /\ b # (w \in xw.x.or)
  /\ Op(Event([xw EXCEPT !.x.or = IF b THEN @ \cup {w} ELSE @ \ {w}], <<"config", w, b>>))

(* A client takes the input focus; the event carries the number of the last *)
(* of our requests that the server has seen.                                *)
ClientFocus(w) ==
  /\ w \in xw.x.mapped /\ xw.x.focus # w
  /\ Op(Event([xw EXCEPT !.x.focus = w], <<"focus", w, xw.x.done>>))

ClientMessage(w, e, v) == w \in xw.x.exists /\ Op(Event(xw, <<e, w, v>>))

(* Our requests reach the server in order. *)
ServerRequest ==
  /\ xw.rq # <<>>
  /\ LET r == Head(xw.rq)
         w == r[2]
         st == [xw EXCEPT !.rq = Tail(@), !.x.done = r[3]]
     IN xw' = CASE r[1] \in {"other", "take"} -> st
                [] r[1] = "map" -> IF w \in st.x.exists \ st.x.mapped /\ st.next <= MaxXSerial
                                     THEN Realized(st, w) ELSE st
                [] r[1] = "focus" ->
                     IF w \in st.x.mapped /\ st.x.focus # w
                       THEN Event([st EXCEPT !.x.focus = w], <<"focus", w, r[3]>>)
                     ELSE IF w = NoWin THEN [st EXCEPT !.x.focus = NoWin]
                     ELSE [st EXCEPT !.granted = @ \/ w \notin st.x.mapped]

(* The other requests of the window manager, of which any number may be     *)
(* sent between two that are told apart: properties, configures, replies.   *)
OtherRequests(n) ==
  Op([xw EXCEPT !.rq = Append(@, <<"other", NoWin, xw.seq + n>>), !.seq = @ + n])

-----------------------------------------------------------------------------
(* The compositor. *)
wlr_xwayland_surface_activate(w, b) ==
  /\ w \in xw.alive
  /\ b \/ xw.focus = w
  /\ Op([xwm_surface_activate(xw, IF b THEN w ELSE NoWin) EXCEPT
           !.granted = @ \/ (b /\ w = xw.offered /\ w # xw.focus)])

wlr_xwayland_surface_offer_focus(w) ==
  /\ w \in xw.alive \ xw.or
  /\ Op([xw EXCEPT !.offered = w, !.granted = TRUE])

(* Of windows the compositor shows. *)
Restack(w, v, above) ==
  /\ w \in Range(xw.stack) /\ w # v
  /\ v = NoWin \/ v \in Range(xw.stack)
  /\ Op(wlr_xwayland_surface_restack(xw, w, v, above))

wlr_xwayland_surface_set_minimized(w, b) ==
  /\ w \in xw.alive
  /\ Op(Event(xsurface_set_net_wm_state(
          [xw EXCEPT !.min = IF b THEN @ \cup {w} ELSE @ \ {w}], w), <<"prop", w>>))

(* x11_event_handler on a hangup: every window goes, in any state. *)
xwm_destroy ==
  /\ xw.alive # {}
  /\ Op([FoldSet(LAMBDA w, st : xwayland_surface_destroy(st, w), xw, xw.alive) EXCEPT
           !.x = XServer, !.xq = <<>>, !.rq = <<>>, !.wq = <<>>, !.seq = 0, !.lastSeq = 0,
           !.granted = FALSE, !.lapsed = FALSE, !.client = [f \in DOMAIN @ |-> {}]])

XwmNext ==
  \/ XEvent \/ WlRequest \/ ServerRequest \/ xwm_destroy
  \/ \E n \in XBursts : OtherRequests(n)
  \/ \E w \in XWin :
       \/ ClientMap(w) \/ ClientUnmap(w) \/ ClientDestroy(w) \/ ClientFocus(w)
       \/ \E b \in BOOLEAN : \/ ClientCreate(w, b) \/ ClientOverride(w, b)
                             \/ ClientMessage(w, "state", b)
                             \/ wlr_xwayland_surface_activate(w, b)
                             \/ wlr_xwayland_surface_set_minimized(w, b)
       \/ \E v \in XWin \ {w} : ClientMessage(w, "parent", v)
       \/ \E v \in XWin \cup {NoWin}, b \in BOOLEAN : Restack(w, v, b)
       \/ wlr_xwayland_surface_offer_focus(w)

-----------------------------------------------------------------------------
(* Windows that exist, of one client (and a server that pairs by id) or of  *)
(* one each; or windows that are shown already.                             *)
Created(st) ==
  [FoldSet(LAMBDA w, acc : xwayland_surface_create(acc, w, FALSE), st, XWin)
     EXCEPT !.x.exists = XWin]

Shown(st, w) ==
  LET real == Realized(st, w)
      paired == xwm_handle_surface_serial_message(xwm_handle_map_notify(real, w, FALSE), w, st.next)
      known == [paired EXCEPT !.client.made = @ \cup {st.next}, !.client.serial = @ \cup {st.next}]
  IN [xwl_surface_role_commit(known, st.next) EXCEPT !.xq = <<>>, !.wq = <<>>]

XwmInit ==
  LET wins == SetToSeq(XWin)
      own == [w \in XWin |-> CHOOSE i \in DOMAIN wins : wins[i] = w]
      one == [w \in XWin |-> 1]
  IN \/ xw = Created(XwmState(TRUE, one, {}))
     \/ xw = Created(XwmState(FALSE, own, {}))
     \/ \E pid \in {own, one}, noinput \in {{}, {wins[1]}} :
          xw = FoldSet(LAMBDA w, st : Shown(st, w), Created(XwmState(FALSE, pid, noinput)), XWin)

Quiet == xw.xq = <<>> /\ xw.rq = <<>> /\ xw.wq = <<>>

(* Whatever order the two connections are read in, once both are read every *)
(* mapped window is paired with its own wl_surface, shown, and stacked if   *)
(* it is managed; nothing else is.  missed are windows that gave up         *)
(* override-redirect after MapNotify but before their first buffer: nothing *)
(* puts them into the stack.                                                *)
WindowsPaired ==
  Quiet =>
    \A w \in XWin :
      /\ xw.surface[w] = xw.x.surf[w] /\ w \notin xw.unpaired
      /\ w \in xw.x.mapped => xw.surface[w] \in xw.client.mapped
      /\ w \notin xw.missed => ((w \in Range(xw.stack)) <=> (w \in xw.x.mapped \ xw.x.or))

(* No pointer to a window or surface that is gone; no surface serves two    *)
(* windows; override-redirect windows are not stacked; parents are no       *)
(* cycle.                                                                   *)
WindowsSound ==
  /\ {xw.focus, xw.offered} \subseteq xw.alive \cup {NoWin}
  /\ \A w \in XWin : xw.parent[w] # NoWin => {w, xw.parent[w]} \subseteq xw.alive
  /\ \A S \in SUBSET XWin \ {{}} : \E w \in S : xw.parent[w] \notin S
  /\ \A w \in xw.alive : xw.surface[w] # 0 => xw.surface[w] \in xw.client.made
  /\ \A v, w \in xw.alive : v # w /\ xw.surface[v] # 0 => xw.surface[v] # xw.surface[w]
  /\ Range(xw.stack) \subseteq xw.alive \ xw.or
  /\ \A i, j \in DOMAIN xw.stack : i # j => xw.stack[i] # xw.stack[j]

(* What the compositor asked for last and the X server has not read yet,    *)
(* if it was by a request whose number is kept.                             *)
FocusAsked ==
  LET focus == SelectSeq(xw.rq, LAMBDA r : r[1] \in {"focus", "take"}) IN
  IF focus = <<>> \/ Last(focus)[1] = "take" THEN NoWin ELSE Last(focus)[2]

(* A client that the compositor did not choose does not keep the keyboard:  *)
(* once everything is read, the X focus is with the client of the focused   *)
(* managed window, unless that one takes the focus by itself, or the        *)
(* compositor offered the focus or gave it to a window that was being       *)
(* unmapped.  What happened before the server saw the last request does not *)
(* change the choice.  Both as long as no event came half the range of      *)
(* sequence numbers (32767 requests) or more after the last focus request,  *)
(* or that much before it (lapsed): validate_focus_serial misjudges those.  *)
(* And _NET_WM_STATE of a window names the focus only while it has it.      *)
FocusHeld ==
  /\ ~xw.granted /\ ~xw.lapsed =>
       /\ Quiet /\ xw.x.focus # NoWin /\ xw.focus \notin xw.or \cup xw.noinput \cup {NoWin}
            => xw.pid[xw.x.focus] = xw.pid[xw.focus]
       /\ FocusAsked \in xw.alive => xw.focus = FocusAsked
  /\ \A w \in xw.alive : "focused" \in xw.prop[w] => xw.focus = w

-----------------------------------------------------------------------------
(***************************************************************************)
(* Copy and paste between Wayland and X11 clients.  xout is one transfer    *)
(* from a Wayland client to an X11 requestor, xin one the other way: data   *)
(* that exceeds a chunk goes piece by piece through a property that each    *)
(* side deletes when it has read it (INCR).  xown is who owns the selection *)
(* on either side.  Data are counted, not kept: the channels are FIFO.      *)
(***************************************************************************)
CONSTANTS Chunk,       \* INCR_CHUNK_SIZE
          MaxData,     \* bytes of a transfer
          MaxClaims    \* changes of the selection

ASSUME XSelectionAssumption == Chunk \in Nat \ {0} /\ MaxData \in Nat /\ MaxClaims \in Nat

VARIABLES xout, xin, xown

-----------------------------------------------------------------------------
(* left, pipe, closed: the Wayland client and its pipe.  live, incr, set,   *)
(* flush, fd, src, data: struct wlr_xwm_selection_transfer.  prop, evs: the *)
(* property on the requestor's window (Absent, IncrType or a size) and its  *)
(* deletions the window manager has not read.  phase, got: the requestor.   *)
Absent == -1
IncrType == -2

OutTransfer(n) ==
  [left |-> n, total |-> n, pipe |-> 0, closed |-> FALSE,
   live |-> TRUE, incr |-> FALSE, set |-> FALSE, flush |-> FALSE, fd |-> TRUE, src |-> TRUE, data |-> 0,
   prop |-> Absent, evs |-> 0, phase |-> "asked", got |-> 0]

destroy_outgoing(st) == [st EXCEPT !.live = FALSE, !.src = FALSE, !.fd = FALSE]

xwm_selection_send_notify(st, success) == [st EXCEPT !.phase = IF success THEN "told" ELSE "failed"]

xwm_selection_flush_source_data(st) == [st EXCEPT !.prop = st.data, !.set = TRUE, !.data = 0]

(* The property still holds a chunk that was not read: wait for its         *)
(* deletion.                                                                *)
read_overwrites(st, len) ==
  LET new == [st EXCEPT !.pipe = @ - len, !.data = @ + len] IN
  IF new.data >= Chunk
    THEN IF ~st.incr
           THEN xwm_selection_send_notify(
                  [new EXCEPT !.prop = IncrType, !.incr = TRUE, !.set = TRUE, !.flush = TRUE,
                              !.src = FALSE], TRUE)
         ELSE xwm_selection_flush_source_data(new)
  ELSE IF len > 0 THEN new
  ELSE IF ~st.incr
    THEN destroy_outgoing(xwm_selection_send_notify(xwm_selection_flush_source_data(new), TRUE))
  ELSE [(IF st.set THEN new ELSE xwm_selection_flush_source_data(new)) EXCEPT
          !.flush = TRUE, !.src = FALSE, !.fd = FALSE]

xwm_data_source_read(st, len) ==
  LET new == [st EXCEPT !.pipe = @ - len, !.data = @ + len] IN
  IF new.data >= Chunk
    THEN IF ~st.incr
           THEN xwm_selection_send_notify(
                  [new EXCEPT !.prop = IncrType, !.incr = TRUE, !.set = TRUE, !.flush = TRUE,
                              !.src = FALSE], TRUE)
         ELSE IF st.set THEN [new EXCEPT !.flush = TRUE, !.src = FALSE]
         ELSE xwm_selection_flush_source_data(new)
  ELSE IF len > 0 THEN new
  ELSE IF ~st.incr
    THEN destroy_outgoing(xwm_selection_send_notify(xwm_selection_flush_source_data(new), TRUE))
  ELSE [(IF st.set THEN new ELSE xwm_selection_flush_source_data(new)) EXCEPT
          !.flush = TRUE, !.src = FALSE, !.fd = FALSE]

(* The requestor deleted the property: the next chunk, or the empty one     *)
(* that ends the transfer.                                                  *)
xwm_send_incr_chunk(st) ==
  LET sent == xwm_selection_flush_source_data([st EXCEPT !.flush = FALSE]) IN
  IF ~st.flush THEN [st EXCEPT !.set = FALSE]
  ELSE IF st.fd THEN [sent EXCEPT !.src = TRUE]
  ELSE IF st.data > 0 THEN [sent EXCEPT !.flush = TRUE]
  ELSE destroy_outgoing(sent)

WlWrite == xout.left > 0 /\ ~xout.closed /\ xout' = [xout EXCEPT !.left = @ - 1, !.pipe = @ + 1]
WlClose == xout.left = 0 /\ ~xout.closed /\ xout' = [xout EXCEPT !.closed = TRUE]

SourceReadable ==
  /\ xout.live /\ xout.src
  /\ \/ \E len \in 1..(2 * Chunk) : len <= xout.pipe /\ xout' = xwm_data_source_read(xout, len)
     \/ xout.pipe = 0 /\ xout.closed /\ xout' = xwm_data_source_read(xout, 0)

SourceError ==
  /\ xout.live /\ xout.src
  /\ xout' = destroy_outgoing(xwm_selection_send_notify(xout, FALSE))

xwm_handle_selection_property_notify ==
  /\ xout.evs > 0
  /\ LET st == [xout EXCEPT !.evs = @ - 1] IN
     xout' = IF st.live /\ st.incr THEN xwm_send_incr_chunk(st) ELSE st

(* The requestor reads and deletes; INCR announces chunks, an empty one     *)
(* ends them.                                                               *)
RequestorRead ==
  /\ xout.prop # Absent
  /\ xout.phase \in {"told", "incr", "done"}
  /\ xout' = [xout EXCEPT
       !.prop = Absent, !.evs = @ + 1,
       !.got = IF xout.prop = IncrType THEN @ ELSE @ + xout.prop,
       !.phase = IF @ = "done" THEN "done"
                 ELSE IF xout.prop = IncrType \/ (@ = "incr" /\ xout.prop > 0) THEN "incr" ELSE "done"]

(* The requestor's window goes: xwm_handle_selection_destroy_notify. *)
RequestorDestroyed ==
  /\ xout.live
  /\ xout' = [destroy_outgoing(xout) EXCEPT !.prop = Absent, !.evs = 0, !.phase = "failed"]

OutNext ==
  \/ WlWrite \/ WlClose \/ SourceReadable \/ SourceError
  \/ xwm_handle_selection_property_notify \/ RequestorRead \/ RequestorDestroyed

OutInit == \E n \in 0..MaxData : xout = OutTransfer(n)

Held(p) == IF p \in {Absent, IncrType} THEN 0 ELSE p

(* The requestor gets every byte once, however the client writes, the loop  *)
(* reads and the requestor deletes: nothing is overwritten in the property, *)
(* the empty chunk does not come early, and a transfer at rest has ended.   *)
OutComplete ==
  /\ xout.phase # "failed" =>
       xout.got + Held(xout.prop) + xout.data + xout.pipe + xout.left = xout.total
  /\ xout.phase = "done" => xout.got = xout.total
  /\ (/\ xout.closed /\ xout.evs = 0 /\ xout.prop = Absent /\ ~xout.src)
       => xout.phase \in {"done", "failed"} /\ ~xout.live

-----------------------------------------------------------------------------
(* left: what the X11 owner still has; prop: the property on the transfer's *)
(* own window; evs: events for the window manager; seen: the owner saw the  *)
(* last chunk deleted.  live, incr, reply (bytes of property_reply not      *)
(* written yet), src: the transfer.  got: what the  *)
(* Wayland client read.                                                     *)
InTransfer(n) ==
  [left |-> n, total |-> n, mode |-> "asked", prop |-> Absent, evs |-> <<>>, live |-> TRUE,
   incr |-> FALSE, reply |-> Absent, src |-> FALSE, got |-> 0, ended |-> FALSE, lost |-> FALSE]

xwm_selection_transfer_destroy(st) ==
  [st EXCEPT !.live = FALSE, !.src = FALSE, !.reply = Absent, !.prop = Absent]

ready_keeps_reply(st) == [st EXCEPT !.prop = Absent, !.src = FALSE]

xwm_notify_ready_for_next_incr_chunk(st) ==
  [st EXCEPT !.prop = Absent, !.src = FALSE, !.reply = Absent]

(* What write() may return for n bytes: at least one fits, or it fails, with *)
(* EPIPE when the Wayland client has closed its end and with EAGAIN, the    *)
(* pipe being O_NONBLOCK, when the client has not emptied it.               *)
Failed == -1
Written(n) == IF n = 0 THEN {0} ELSE {Failed} \cup 1..n

(* Every failure of write(), EAGAIN too, gives the transfer up. *)
write_selection_property_to_wl_client(st, len) ==
  LET new == [st EXCEPT !.got = @ + len, !.reply = @ - len] IN
  IF len = Failed THEN [xwm_selection_transfer_destroy(st) EXCEPT !.lost = TRUE]
  ELSE IF len < st.reply THEN [new EXCEPT !.src = TRUE]
  ELSE IF st.incr THEN xwm_notify_ready_for_next_incr_chunk(new)
  ELSE [xwm_selection_transfer_destroy(new) EXCEPT !.ended = TRUE]

(* A chunk that is still being written is not read again. *)
xwm_get_incr_chunk(st, len) ==
  IF st.reply # Absent \/ st.prop = Absent THEN st
  ELSE IF st.prop > 0 THEN write_selection_property_to_wl_client([st EXCEPT !.reply = st.prop], len)
  ELSE [xwm_selection_transfer_destroy(st) EXCEPT !.ended = TRUE]

(* Reading deletes the property, which starts INCR. *)
xwm_selection_transfer_get_data(st, len) ==
  IF st.prop = IncrType THEN [st EXCEPT !.prop = Absent, !.incr = TRUE]
  ELSE write_selection_property_to_wl_client([st EXCEPT !.reply = st.prop, !.prop = Absent], len)

xwm_handle_selection_notify(st, e, len) ==
  IF e = "none" THEN xwm_selection_transfer_destroy(st)
  ELSE IF e = "notify" THEN xwm_selection_transfer_get_data(st, len)
  ELSE IF st.incr THEN xwm_get_incr_chunk(st, len) ELSE st

(* The owner answers source_send's request: at once, in chunks, or not.     *)
OwnerAnswers ==
  /\ xin.mode = "asked"
  /\ \/ /\ xin.left <= Chunk
        /\ xin' = [xin EXCEPT !.mode = "whole", !.prop = xin.left, !.left = 0,
                              !.evs = @ \o <<"new", "notify">>]
     \/ xin' = [xin EXCEPT !.mode = "incr", !.prop = IncrType, !.evs = @ \o <<"new", "notify">>]
     \/ xin' = [xin EXCEPT !.mode = "refused", !.evs = Append(@, "none")]

OwnerChunk ==
  /\ xin.mode = "incr" /\ xin.live /\ xin.incr /\ xin.prop = Absent
  /\ "new" \notin {xin.evs[i] : i \in DOMAIN xin.evs}
  /\ \E n \in 0..Chunk :
       /\ n <= xin.left /\ (n = 0 <=> xin.left = 0)
       /\ xin' = [xin EXCEPT !.prop = n, !.left = @ - n, !.evs = Append(@, "new"),
                             !.mode = IF n = 0 THEN "sent" ELSE @]

Bytes(st) == IF st.prop \in {Absent, IncrType} THEN {0} ELSE Written(st.prop)

InEvent ==
  /\ xin.evs # <<>>
  /\ LET st == [xin EXCEPT !.evs = Tail(@)] IN
     IF st.live THEN \E len \in Bytes(st) : xin' = xwm_handle_selection_notify(st, Head(xin.evs), len)
     ELSE xin' = st

(* The event source's callback, which does not look at its mask. *)
FdWritable ==
  /\ xin.live /\ xin.src
  /\ \E len \in Written(xin.reply) : xin' = write_selection_property_to_wl_client(xin, len)

InNext == OwnerAnswers \/ OwnerChunk \/ InEvent \/ FdWritable
InInit == \E n \in 0..MaxData : xin = InTransfer(n)

(* The Wayland client gets what the owner sent, each byte once: all of it   *)
(* when the transfer ends by itself, a part when a write failed (a client   *)
(* that is merely slow gets a part too, with nothing to tell it so) or the  *)
(* owner refused.  A reply is kept exactly while it is being written; at    *)
(* rest, and from the first failed write on, the transfer has ended.        *)
InComplete ==
  /\ xin.got <= xin.total
  /\ xin.lost => ~xin.live /\ ~xin.ended
  /\ xin.live => (xin.src <=> xin.reply # Absent)
  /\ ~xin.lost /\ xin.mode # "refused" =>
       xin.got + (IF xin.reply # Absent THEN xin.reply ELSE Held(xin.prop)) + xin.left = xin.total
  /\ xin.ended => xin.got = xin.total
  /\ (xin.mode \in {"whole", "sent", "refused"} /\ xin.evs = <<>> /\ ~xin.src) => ~xin.live

-----------------------------------------------------------------------------
(* seat: the seat's selection is of no one, a Wayland or an X11 client;     *)
(* owner: struct wlr_xwm_selection.owner; x: the owner the X server knows;  *)
(* rq, xq: requests to and events of the X server; focus: an X11 window has *)
(* the keyboard.  denied, raced: a claim of an X11 client was refused, or   *)
(* its targets arrived after a Wayland client had claimed again.            *)
OwnState ==
  [seat |-> "none", owner |-> "none", x |-> "none", rq |-> <<>>, xq |-> <<>>, focus |-> TRUE,
   denied |-> FALSE, raced |-> FALSE, dropped |-> FALSE, claims |-> 0]

xwm_selection_set_owner(st, set) ==
  IF set THEN [st EXCEPT !.rq = Append(@, "claim")]
  ELSE IF st.owner = "us" THEN [st EXCEPT !.rq = Append(@, "drop")]
  ELSE [st EXCEPT !.dropped = @ \/ st.x = "us" \/ "claim" \in {st.rq[i] : i \in DOMAIN st.rq}]

set_selection_claims_all(st, source) ==
  xwm_selection_set_owner([st EXCEPT !.seat = source], source # "none")

(* An X11 source is already owned on the other side. *)
handle_seat_set_selection(st, source) ==
  LET new == [st EXCEPT !.seat = source] IN
  IF source = "x11" THEN new ELSE xwm_selection_set_owner(new, source # "none")

(* The owner is gone, is us, or is a client that is asked for its targets.  *)
xwm_handle_xfixes_selection_notify(st, who) ==
  LET new == [st EXCEPT !.owner = who] IN
  IF who = "none"
    THEN IF st.owner # "us" THEN handle_seat_set_selection(new, "none") ELSE new
  ELSE IF who = "us" THEN new
  ELSE [new EXCEPT !.rq = Append(@, "targets")]

xwm_selection_get_targets(st) ==
  [handle_seat_set_selection(st, "x11") EXCEPT
     !.raced = @ \/ "claim" \in {st.rq[i] : i \in DOMAIN st.rq} \/ st.x # "client"]

xwm_handle_targets(st, ok) ==
  IF ~ok THEN st
  ELSE IF ~st.focus THEN [st EXCEPT !.denied = TRUE]
  ELSE xwm_selection_get_targets(st)

SelectionEvent ==
  /\ xown.xq # <<>>
  /\ LET st == [xown EXCEPT !.xq = Tail(@)]
         e == Head(xown.xq)
     IN xown' = IF e[1] = "owner" THEN xwm_handle_xfixes_selection_notify(st, e[2])
                ELSE xwm_handle_targets(st, e[2])

(* The X server reads our requests.  Our own window refuses its own         *)
(* request for targets (xwm_handle_selection_request).                      *)
SelectionRequest ==
  /\ xown.rq # <<>>
  /\ LET r == Head(xown.rq)
         st == [xown EXCEPT !.rq = Tail(@)]
         own(w) == [st EXCEPT !.x = w, !.xq = Append(@, <<"owner", w>>)]
     IN xown' = CASE r = "claim" -> own("us")
                  [] r = "drop" /\ st.x = "us" -> own("none")
                  [] r = "targets" -> [st EXCEPT !.xq = Append(@, <<"targets", st.x = "client">>)]
                  [] OTHER -> st

XClaim(w) ==
  /\ xown.claims < MaxClaims /\ w # xown.x /\ (w = "none" => xown.x = "client")
  /\ xown' = [xown EXCEPT !.claims = @ + 1, !.x = w, !.xq = Append(@, <<"owner", w>>),
                          !.denied = FALSE]

WlClaim(source) ==
  /\ xown.claims < MaxClaims /\ source # xown.seat
  /\ xown' = [handle_seat_set_selection(xown, source) EXCEPT !.claims = @ + 1]

FocusChange == xown.claims < MaxClaims
               /\ xown' = [xown EXCEPT !.focus = ~@, !.claims = @ + 1]

(* xwm_set_seat announces what the seat has. *)
xwm_set_seat ==
  /\ xown.claims < MaxClaims
  /\ xown' = [handle_seat_set_selection(xown, xown.seat) EXCEPT !.claims = @ + 1]

OwnNext ==
  \/ SelectionEvent \/ SelectionRequest \/ FocusChange \/ xwm_set_seat
  \/ \E w \in {"none", "client"} : XClaim(w)
  \/ \E s \in {"none", "wl"} : WlClaim(s)

OwnInit == xown = OwnState

(* Once all is read, both sides name the same owner: X11 clients paste from *)
(* us exactly when a Wayland client has the selection, and the seat shows   *)
(* an X11 source only while an X11 client owns it.  Excepted are claims     *)
(* that were denied or crossed the other side's, and a selection cleared    *)
(* before the X server confirmed it.                                        *)
OwnersAgree ==
  xown.rq = <<>> /\ xown.xq = <<>> /\ ~xown.raced /\ ~xown.dropped =>
    /\ xown.owner = xown.x
    /\ xown.seat = "x11" => xown.x = "client"
    /\ xown.seat = "wl" => xown.x = "us" \/ xown.denied
    /\ xown.x = "us" => xown.seat = "wl"
=============================================================================
