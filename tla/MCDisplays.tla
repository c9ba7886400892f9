----------------------------- MODULE MCDisplays -----------------------------
(***************************************************************************)
(* Where outputs come from and who uses them: the connectors of a DRM       *)
(* device, windows and seats of another Wayland or X11 display server, the  *)
(* cursor, the layout, the protocols that configure outputs, lease them and *)
(* capture them.  They share no state that their properties need: part says *)
(* which of them moves.                                                     *)
(***************************************************************************)
EXTENDS DrmOutput, NestedWayland, X11Backend, Cursor, OutputLayout,
        OutputManager, Capture, DrmLease

VARIABLE part

MCCurCell == [o \in CurOutput |-> IF o = "o1" THEN 1 ELSE 2]
MCCurPos == 0..3

DisplaysVars == <<part, DrmVars, nst, nse, xbk, cur, lay, omg, cap, dl>>

(* A component that does not move holds no state. *)
DisplaysInit ==
  /\ part \in {"device", "nested", "nestedseat", "x11", "cursor", "layout", "manager", "capture",
              "leases"}
  /\ DrmInit
  /\ IF part = "nested" THEN NstInit ELSE nst = <<>>
  /\ IF part = "nestedseat" THEN NseInit ELSE nse = <<>>
  /\ IF part = "x11" THEN XbInit ELSE xbk = <<>>
  /\ IF part = "cursor" THEN CurInit ELSE cur = <<>>
  /\ IF part = "layout" THEN LayInit ELSE lay = <<>>
  /\ IF part = "manager" THEN OmInit ELSE omg = <<>>
  /\ IF part = "capture" THEN CapInit ELSE cap = <<>>
  /\ IF part = "leases" THEN LsInit ELSE dl = <<>>

DisplaysNext ==
  \/ part = "device" /\ DrmNext /\ UNCHANGED <<part, nst, nse, xbk, cur, lay, omg, cap, dl>>
  \/ part = "nested" /\ NstNext /\ UNCHANGED <<part, DrmVars, nse, xbk, cur, lay, omg, cap, dl>>
  \/ part = "nestedseat" /\ NseNext /\ UNCHANGED <<part, DrmVars, nst, xbk, cur, lay, omg, cap, dl>>
  \/ part = "x11" /\ XbNext /\ UNCHANGED <<part, DrmVars, nst, nse, cur, lay, omg, cap, dl>>
  \/ part = "cursor" /\ CurNext /\ UNCHANGED <<part, DrmVars, nst, nse, xbk, lay, omg, cap, dl>>
  \/ part = "layout" /\ LayNext /\ UNCHANGED <<part, DrmVars, nst, nse, xbk, cur, omg, cap, dl>>
  \/ part = "manager" /\ OmNext /\ UNCHANGED <<part, DrmVars, nst, nse, xbk, cur, lay, cap, dl>>
  \/ part = "capture" /\ CapNext /\ UNCHANGED <<part, DrmVars, nst, nse, xbk, cur, lay, omg, dl>>
  \/ part = "leases" /\ LsNext /\ UNCHANGED <<part, DrmVars, nst, nse, xbk, cur, lay, omg, cap>>

DisplaysSpec == DisplaysInit /\ [][DisplaysNext]_DisplaysVars

(* Backends nested in another display server: buffers go back once the      *)
(* server released them, windows and input devices of the server that       *)
(* vanish take what was made for them along, and events for frames, touches *)
(* and tools are delivered to the right ones.                               *)
NestedSound ==
  /\ part = "nested" => NestedOutputSound
  /\ part = "nestedseat" => NestedSeatSound
  /\ part = "x11" => X11BackendSound

(* What is shown, placed, configured and captured agrees with the outputs   *)
(* there are: the cursor is drawn once per output, outputs of the layout do *)
(* not overlap, clients are told each change of heads, gamma and power,      *)
(* captured frames are whole and give back what they locked, and a leased   *)
(* connector is the client's alone until its output comes back.             *)
OutputsServed ==
  /\ part = "cursor" => CursorSound
  /\ part = "layout" => OutputLayoutSound
  /\ part = "manager" => OutputManagerSound
  /\ part = "capture" => CaptureSound
  /\ part = "leases" => LeasesSound
=============================================================================
