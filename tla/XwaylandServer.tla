-------------------------- MODULE XwaylandServer ---------------------------
(***************************************************************************)
(* The life of the Xwayland process: started at once, lazily or again after *)
(* a crash, known by a Wayland client, a window-manager socket and a pipe   *)
(* that tells when it is ready, each of which may break first; and drags    *)
(* over its windows (XDND).                                                 *)
(***************************************************************************)
EXTENDS Naturals, FiniteSets

CONSTANTS MaxStarts,   \* attempts to start the process
          DragWin      \* X11 windows

ASSUME XwaylandServerAssumption == MaxStarts \in Nat

VARIABLES xsrv, xdrag

-----------------------------------------------------------------------------
(* display: sockets are open; listening: x_fd_read_event; idle, pipe: event *)
(* sources; client: "none", "live", or "gone" for a pointer to a client     *)
(* that was destroyed; fds: of wl_fd and wm_fd those that are ours; proc:   *)
(* the process runs; ready; xwm; seat, cursor: what was set; alive: struct  *)
(* wlr_xwayland; young: the server started less than 5 s ago; shell: the    *)
(* client that may bind xwayland_shell_v1; double: a client was destroyed   *)
(* twice.                                                                   *)
Server(lazy) ==
  [lazy |-> lazy, display |-> TRUE, listening |-> lazy, idle |-> ~lazy, pipe |-> FALSE,
   client |-> "none", fds |-> {}, proc |-> FALSE, ready |-> FALSE, xwm |-> FALSE,
   xwmSeat |-> FALSE, seat |-> FALSE, alive |-> TRUE, young |-> TRUE, shell |-> FALSE,
   starts |-> 0, double |-> FALSE]

(* memset clears client, the event sources and ready. *)
finish_keeps_pipe(st) ==
  IF ~st.display THEN st
  ELSE [st EXCEPT !.listening = FALSE, !.client = "none", !.fds = {}, !.ready = FALSE,
                  !.double = @ \/ st.client = "gone", !.shell = FALSE,
                  !.proc = FALSE]

server_finish_process(st) ==
  IF ~st.display THEN st
  ELSE [st EXCEPT !.listening = FALSE, !.client = "none", !.pipe = FALSE, !.fds = {},
                  !.ready = FALSE, !.double = @ \/ st.client = "gone",
                  !.shell = FALSE, !.proc = FALSE]

server_finish_display(st) == [st EXCEPT !.display = FALSE]

(* failed: how far it got.  handle_server_start tells the shell the client. *)
server_start(st, failed) ==
  LET begun == [st EXCEPT !.starts = @ + 1, !.young = TRUE]
      client == [begun EXCEPT !.client = "live"]
      piped == [client EXCEPT !.pipe = TRUE, !.shell = TRUE]
  IN CASE failed = "socket" -> server_finish_process(begun)
       [] failed = "pipe" -> server_finish_process(client)
       [] failed = "fork" -> server_finish_process(piped)
       [] OTHER -> [piped EXCEPT !.proc = TRUE, !.fds = {"wm"}]

server_start_lazy(st) == [st EXCEPT !.listening = TRUE]

Failures == {"socket", "pipe", "fork", "no"}

handle_idle ==
  /\ xsrv.idle /\ xsrv.starts < MaxStarts
  /\ \E f \in Failures : xsrv' = server_start([xsrv EXCEPT !.idle = FALSE], f)

xwayland_socket_connected ==
  /\ xsrv.listening /\ xsrv.starts < MaxStarts
  /\ \E f \in Failures : xsrv' = server_start([xsrv EXCEPT !.listening = FALSE], f)

(* xwm_create takes the socket over, also when it fails. *)
xwayland_mark_ready(st, ok) ==
  [st EXCEPT !.fds = {}, !.xwm = ok, !.xwmSeat = ok /\ st.seat]

xserver_handle_ready ==
  /\ xsrv.pipe
  /\ \/ /\ xsrv.proc /\ xsrv.client = "live"
        /\ \E ok \in BOOLEAN :
             xsrv' = xwayland_mark_ready([xsrv EXCEPT !.pipe = FALSE, !.ready = TRUE], ok)
     \/ xsrv' = server_finish_display(server_finish_process(xsrv))

(* The Wayland connection of the process ends.  A server that did not get   *)
(* ready is left to the pipe's handler; the pointer to the client stays.    *)
handle_client_destroy(st, again) ==
  IF st.pipe THEN [st EXCEPT !.client = "gone", !.proc = FALSE]
  ELSE LET done == server_finish_process([st EXCEPT !.client = "none"]) IN
       IF st.young THEN done
       ELSE IF st.lazy THEN server_start_lazy(done)
       ELSE server_start(done, again)

ClientDies ==
  /\ xsrv.client = "live" /\ xsrv.starts < MaxStarts
  /\ \E f \in Failures : xsrv' = handle_client_destroy([xsrv EXCEPT !.proc = FALSE], f)

(* The window manager's socket hangs up: xwm_destroy. *)
XwmHangup == xsrv.xwm /\ xsrv' = [xsrv EXCEPT !.xwm = FALSE, !.xwmSeat = FALSE]

TimePasses == xsrv.young /\ xsrv.ready /\ xsrv' = [xsrv EXCEPT !.young = FALSE]

wlr_xwayland_set_seat(b) ==
  /\ xsrv.alive
  /\ xsrv' = [xsrv EXCEPT !.seat = b, !.xwmSeat = xsrv.xwm /\ b]

(* Listeners first, then the server it owns, then the window manager.       *)
wlr_xwayland_destroy ==
  /\ xsrv.alive
  /\ xsrv' = [server_finish_display(server_finish_process(xsrv)) EXCEPT
                !.alive = FALSE, !.idle = FALSE, !.listening = FALSE, !.seat = FALSE,
                !.xwm = FALSE, !.xwmSeat = FALSE]

ServerNext ==
  \/ handle_idle \/ xwayland_socket_connected \/ xserver_handle_ready \/ ClientDies
  \/ XwmHangup \/ TimePasses \/ (\E b \in BOOLEAN : wlr_xwayland_set_seat(b)) \/ wlr_xwayland_destroy

ServerInit == \E lazy \in BOOLEAN : xsrv = Server(lazy)

(* One process at most, and every handle of it goes with it: the pipe only  *)
(* while it starts, the sockets for X clients are not watched while it      *)
(* runs, nothing is left when the display is closed; a window manager's     *)
(* seat is the compositor's.  The client that died before the process was   *)
(* ready is destroyed twice (double).                                       *)
ServerSound ==
  /\ xsrv.pipe => xsrv.client # "none" /\ xsrv.display /\ ~xsrv.listening /\ ~xsrv.ready
  /\ xsrv.client = "gone" => xsrv.pipe
  /\ xsrv.client = "live" => xsrv.display /\ ~xsrv.listening
  /\ xsrv.ready => xsrv.client = "live" /\ xsrv.fds = {}
  /\ xsrv.listening => xsrv.display /\ ~xsrv.idle
  /\ ~xsrv.alive => ~xsrv.display /\ xsrv.client = "none" /\ ~xsrv.pipe
  /\ xsrv.xwm => (xsrv.xwmSeat <=> xsrv.seat)

-----------------------------------------------------------------------------
(* drag: xwm->drag; over: the window below the drag, as wlr_drag sees it;   *)
(* source, acc, act: the data source, accepted and with an action; df, pf:  *)
(* drag_focus and drop_focus; told: the window that was sent XdndEnter and  *)
(* no XdndLeave; dropped: the window that was sent XdndDrop; finished.      *)
Nobody == "nobody"

DragState ==
  [drag |-> FALSE, over |-> Nobody, source |-> FALSE, acc |-> FALSE, act |-> FALSE,
   df |-> Nobody, pf |-> Nobody, win |-> DragWin, told |-> Nobody, dropped |-> Nobody,
   null |-> FALSE, foreign |-> FALSE]

(* XdndLeave to the window that was entered, XdndEnter to the next. *)
xwm_dnd_send_event(st, w) == [st EXCEPT !.told = w]

xwm_set_drag_focus(st, w) ==
  IF w = st.df THEN st
  ELSE [xwm_dnd_send_event(st, w) EXCEPT !.df = w,
                  !.act = IF st.df # Nobody THEN FALSE ELSE @,
                  !.null = @ \/ (st.df # Nobody /\ ~st.drag)]

(* drag_set_focus and its listener seat_handle_drag_focus. *)
seat_handle_drag_focus(st, w) ==
  IF w = st.over THEN st
  ELSE xwm_set_drag_focus([st EXCEPT !.over = w, !.acc = IF w # Nobody THEN FALSE ELSE @], w)

drag_destroy_unfocused(st) == [st EXCEPT !.over = Nobody, !.drag = FALSE]

(* What drag_destroy does first; the accepted drop keeps drop_focus.        *)
seat_handle_drag_destroy(st) == [seat_handle_drag_focus(st, Nobody) EXCEPT !.drag = FALSE]

seat_handle_drag_source_destroy(st) ==
  [(IF st.drag THEN seat_handle_drag_destroy(st) ELSE st) EXCEPT
     !.source = FALSE, !.df = Nobody, !.pf = Nobody, !.acc = FALSE, !.act = FALSE]

(* wlr_seat_start_drag destroys the former source first. *)
xwm_seat_handle_start_drag ==
  /\ ~xdrag.drag
  /\ LET st == IF xdrag.source THEN seat_handle_drag_source_destroy(xdrag) ELSE xdrag IN
     xdrag' = [st EXCEPT !.drag = TRUE, !.source = TRUE, !.df = Nobody, !.pf = Nobody,
                         !.dropped = Nobody]

DragEnter(w) == xdrag.drag /\ w # xdrag.over /\ xdrag' = seat_handle_drag_focus(xdrag, w)

(* XdndStatus and XdndFinished, of any window at any time. *)
XdndStatus(w, b) ==
  /\ xdrag.drag /\ w = xdrag.df /\ w # Nobody
  /\ xdrag' = [xdrag EXCEPT !.acc = b, !.act = b]

XdndFinished(w) ==
  /\ xdrag.source /\ ~xdrag.drag /\ w = xdrag.pf /\ w # Nobody
  /\ xdrag' = [seat_handle_drag_source_destroy(xdrag) EXCEPT
                 !.foreign = @ \/ w # xdrag.dropped]

(* The button is released: a drop on a window that accepts, or the end.     *)
ButtonReleased ==
  /\ xdrag.drag
  /\ xdrag' = IF xdrag.over # Nobody /\ xdrag.acc /\ xdrag.act
                THEN seat_handle_drag_destroy([xdrag EXCEPT !.pf = xdrag.df, !.dropped = xdrag.df])
              ELSE seat_handle_drag_source_destroy(xdrag)

SourceGone == xdrag.source /\ xdrag' = seat_handle_drag_source_destroy(xdrag)

(* drag_focus_handle_destroy, drop_focus_handle_destroy; the surface of the *)
(* window goes before or after.                                             *)
DragWindowDestroyed(w) ==
  /\ w \in xdrag.win
  /\ \E first \in BOOLEAN :
       LET st == IF first /\ xdrag.over = w THEN seat_handle_drag_focus(xdrag, Nobody) ELSE xdrag
           left == IF st.df = w THEN xwm_set_drag_focus(st, Nobody) ELSE st
           new == IF left.over = w THEN seat_handle_drag_focus(left, Nobody) ELSE left
       IN xdrag' = [new EXCEPT !.win = @ \ {w}, !.pf = IF @ = w THEN Nobody ELSE @]

DragNext ==
  \/ xwm_seat_handle_start_drag \/ ButtonReleased \/ SourceGone
  \/ \E w \in xdrag.win : DragEnter(w) \/ XdndFinished(w) \/ (\E b \in BOOLEAN : XdndStatus(w, b))
                          \/ DragWindowDestroyed(w)
  \/ DragEnter(Nobody)

DragInit == xdrag = DragState

(* The window that was sent XdndEnter is the drag's focus, and nobody is    *)
(* left in that state when the drag is over; the foci are windows that      *)
(* exist; the focus is never reset without a drag whose source could be     *)
(* told; and only the window that was dropped on finishes the drag.         *)
XdndSound ==
  /\ xdrag.told = xdrag.df /\ (~xdrag.drag => xdrag.df = Nobody)
  /\ {xdrag.df, xdrag.pf} \subseteq xdrag.win \cup {Nobody}
  /\ ~xdrag.null /\ ~xdrag.foreign
=============================================================================
