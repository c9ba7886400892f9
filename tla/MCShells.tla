------------------------------ MODULE MCShells ------------------------------
(***************************************************************************)
(* The shells and the protocols about windows.  The components share no     *)
(* state that their properties need, so one run explores them side by side: *)
(* part says which of them moves.                                           *)
(***************************************************************************)
EXTENDS XdgSurface, Popups, LayerShell, SessionLock, SurfaceExtensions,
        Xwm, XwaylandServer, Windows

VARIABLES part, xpart

(* The parts of Xwayland support: xpart says which of them moves, the       *)
(* others rest in an initial state ("rest": all of them).                   *)
XwaylandVars == <<xpart, xw, xout, xin, xown, xsrv, xdrag>>

XwaylandInit(on) ==
  /\ xpart \in IF on THEN {"windows", "out", "in", "owner", "server", "drag"} ELSE {"rest"}
  /\ IF xpart = "windows" THEN XwmInit ELSE xw = XwmState(FALSE, [w \in XWin |-> 1], {})
  /\ IF xpart = "out" THEN OutInit ELSE xout = OutTransfer(0)
  /\ IF xpart = "in" THEN InInit ELSE xin = InTransfer(0)
  /\ IF xpart = "server" THEN ServerInit ELSE xsrv = Server(TRUE)
  /\ OwnInit /\ DragInit

XwaylandNext ==
  \/ xpart = "windows" /\ XwmNext /\ UNCHANGED <<xpart, xout, xin, xown, xsrv, xdrag>>
  \/ xpart = "out" /\ OutNext /\ UNCHANGED <<xpart, xw, xin, xown, xsrv, xdrag>>
  \/ xpart = "in" /\ InNext /\ UNCHANGED <<xpart, xw, xout, xown, xsrv, xdrag>>
  \/ xpart = "owner" /\ OwnNext /\ UNCHANGED <<xpart, xw, xout, xin, xsrv, xdrag>>
  \/ xpart = "server" /\ ServerNext /\ UNCHANGED <<xpart, xw, xout, xin, xown, xdrag>>
  \/ xpart = "drag" /\ DragNext /\ UNCHANGED <<xpart, xw, xout, xin, xown, xsrv>>

ShellVars == <<part, vars, pop, placing, layer, lock, ext, XwaylandVars, wls, lnk>>

MCAnchorPos == {-3, 1, 4}
MCAdjustments == SUBSET ({"flip", "slide", "resize"} \X Axes)

ShellsInit ==
  /\ part \in {"xdg", "popup", "place", "layer", "lock", "ext", "xwayland", "lists", "links"}
  /\ Init
  /\ IF part = "popup" THEN PopInit ELSE pop = <<>>
  /\ IF part = "place" THEN PlacingInit ELSE placing = <<>>
  /\ LayerInit
  /\ IF part = "lock" THEN LockInit ELSE lock = <<>>
  /\ IF part = "ext" THEN ExtInit ELSE ext = <<>>
  /\ XwaylandInit(part = "xwayland")
  /\ IF part = "lists" THEN WlInit ELSE wls = <<>>
  /\ IF part = "links" THEN LkInit ELSE lnk = <<>>

ShellsNext ==
  \/ part = "xdg" /\ Next
     /\ UNCHANGED <<part, pop, placing, layer, lock, ext, XwaylandVars, wls, lnk>>
  \/ part = "popup" /\ PopNext
     /\ UNCHANGED <<part, vars, placing, layer, lock, ext, XwaylandVars, wls, lnk>>
  \/ part = "place" /\ PlacingNext
     /\ UNCHANGED <<part, vars, pop, layer, lock, ext, XwaylandVars, wls, lnk>>
  \/ part = "layer" /\ LayerNext
     /\ UNCHANGED <<part, vars, pop, placing, lock, ext, XwaylandVars, wls, lnk>>
  \/ part = "lock" /\ LockNext
     /\ UNCHANGED <<part, vars, pop, placing, layer, ext, XwaylandVars, wls, lnk>>
  \/ part = "ext" /\ ExtNext
     /\ UNCHANGED <<part, vars, pop, placing, layer, lock, XwaylandVars, wls, lnk>>
  \/ part = "xwayland" /\ XwaylandNext
     /\ UNCHANGED <<part, vars, pop, placing, layer, lock, ext, wls, lnk>>
  \/ part = "lists" /\ WlNext
     /\ UNCHANGED <<part, vars, pop, placing, layer, lock, ext, XwaylandVars, lnk>>
  \/ part = "links" /\ LkNext
     /\ UNCHANGED <<part, vars, pop, placing, layer, lock, ext, XwaylandVars, wls>>

ShellsSpec == ShellsInit /\ [][ShellsNext]_ShellVars

(* Popups, layer surfaces and lock surfaces belong to what they were made   *)
(* for, and go or become inert with it, whatever is destroyed first; the    *)
(* states that protocols attach to a surface stay with their objects.       *)
RolesOwned ==
  /\ part = "popup" => PopupsOwned
  /\ part = "lock" => LockSurfacesMatch
  /\ part = "ext" => SlotsAligned

(* What a client is told and acknowledges is what the compositor acts on:   *)
(* repositions are answered, popups are where the positioner allows, and a  *)
(* layer surface's state is that of the configure it acknowledged;           *)
(* presentation feedback is answered once.                                  *)
RequestsAnswered ==
  /\ part = "popup" => RepositionAnswered
  /\ part = "place" => PopupPlaced
  /\ part = "layer" => LayerStateAgreed
  /\ part = "ext" => FeedbackOnce /\ HintKnown

(* Xwayland's windows: what the X connection and the Wayland connection say *)
(* of a window comes together, nothing outlives it, and the keyboard stays  *)
(* with the client the compositor chose.                                    *)
WindowsManaged == WindowsPaired /\ WindowsSound /\ FocusHeld

(* Data pasted between X11 and Wayland clients arrive whole, both sides     *)
(* name the same owner, drags tell X11 windows when they come and go, and   *)
(* the handles of the process go with it.                                   *)
ExchangeSound == OutComplete /\ InComplete /\ OwnersAgree /\ XdndSound /\ ServerSound

(* What one client is told and may do about the windows of others: lists of *)
(* toplevels and workspaces agree with the compositor after each event, a   *)
(* parent taken from another client is given up with it, and an activation  *)
(* token is good once, for what it was asked for.                           *)
WindowsShared ==
  /\ part = "lists" => WindowListsSound
  /\ part = "links" => WindowLinksSound
=============================================================================
