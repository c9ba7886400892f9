------------------------------ MODULE MCInput -------------------------------
(***************************************************************************)
(* The seat and what depends on it.  The components share no state that     *)
(* their properties need, so one run explores them side by side: part says  *)
(* which of them moves; one that rests holds no state.                      *)
(***************************************************************************)
EXTENDS Seat, DataDevice, Tablet, TextInput, Keyboards, PointerConstraints, IdleNotify

VARIABLE part

InputVars == <<part, seat, serials, dnd, sel, tab, txt, kbd, pc, idle>>

(* The first surface belongs to the first client, the second to the other. *)
MCSeatOwner == [s \in SeatSurface |-> IF s = "s1" THEN "c1" ELSE "c2"]
MCDndOwner == [s \in DndSurface |-> IF s = "s1" THEN "c1" ELSE "c2"]
MCTabOwner == [s \in TabSurface |-> IF s = "f1" THEN "c1" ELSE "c2"]
MCPadRings == <<{0}, {1}>>
MCPcRegion == {{}, {1}, {1, 2}}
OneKind == {{"pointer", "buttons"}, {"pointer", "wheel"}, {"keyboard"}, {"touch"}}

Init ==
  /\ part \in {"seat", "serials", "dnd", "sel", "tablet", "text", "keyboards",
              "constraints", "idle"}
  /\ IF part = "seat" THEN SeatInit ELSE seat = <<>>
  /\ IF part = "serials" THEN SerialInit ELSE serials = NewRing(0)
  /\ IF part = "dnd" THEN DndInit ELSE dnd = <<>>
  /\ IF part = "sel" THEN SelInit ELSE sel = <<>>
  /\ IF part = "tablet" THEN TabInit ELSE tab = <<>>
  /\ IF part = "text" THEN TxInit ELSE txt = <<>>
  /\ IF part = "keyboards" THEN KbInit ELSE kbd = <<>>
  /\ IF part = "constraints" THEN PcInit ELSE pc = <<>>
  /\ IF part = "idle" THEN IdInit ELSE idle = <<>>

Next ==
  \/ part = "seat" /\ SeatNext /\ UNCHANGED <<part, serials, dnd, sel, tab, txt, kbd, pc, idle>>
  \/ part = "serials" /\ SerialNext /\ UNCHANGED <<part, seat, dnd, sel, tab, txt, kbd, pc, idle>>
  \/ part = "dnd" /\ DndNext /\ UNCHANGED <<part, seat, serials, sel, tab, txt, kbd, pc, idle>>
  \/ part = "sel" /\ SelNext /\ UNCHANGED <<part, seat, serials, dnd, tab, txt, kbd, pc, idle>>
  \/ part = "tablet" /\ TabNext /\ UNCHANGED <<part, seat, serials, dnd, sel, txt, kbd, pc, idle>>
  \/ part = "text" /\ TxNext /\ UNCHANGED <<part, seat, serials, dnd, sel, tab, kbd, pc, idle>>
  \/ part = "keyboards" /\ KbNext /\ UNCHANGED <<part, seat, serials, dnd, sel, tab, txt, pc, idle>>
  \/ part = "constraints" /\ PcNext /\ UNCHANGED <<part, seat, serials, dnd, sel, tab, txt, kbd, idle>>
  \/ part = "idle" /\ IdNext /\ UNCHANGED <<part, seat, serials, dnd, sel, tab, txt, kbd, pc>>

Spec == Init /\ [][Next]_InputVars

(* Nothing keeps a pointer to a client, surface, grab, source or drag that  *)
(* is gone, in whatever order they are destroyed, and grabs are given back. *)
ReferencesLive ==
  /\ part = "seat" => SeatReferencesLive
  /\ part = "dnd" => DragReferencesLive /\ DragGrabsBalanced

(* What clients were told agrees with the compositor's state: enter and     *)
(* leave alternate, who saw a button pressed sees it released, the assertion*)
(* that the axis source does not change within a frame fails only when the  *)
(* end of a frame before was missed, offers show the selection, and a drop  *)
(* happens only with the consent of both sides.                             *)
ClientsInformed ==
  /\ part = "seat" => EnterLeavePaired /\ ReleaseDelivered /\ seat.asserts # "failed"
  /\ part = "sel" => SelectionAgreed
  /\ part = "dnd" => DropConsented

(* Devices that come and go while they are used: a tablet tool's events end *)
(* where they began and its grab follows the focus, a group of keyboards    *)
(* holds a key down exactly while one of them does, and follows their       *)
(* keymap, layout and repeat rate; the pointer stays where the last commit  *)
(* confined it, and clients are told of idle seats when nobody inhibits it. *)
DevicesFollowed ==
  /\ part = "tablet" => TabletSound
  /\ part = "keyboards" => KeyboardsSound
  /\ part = "constraints" => PointerConstrained
  /\ part = "idle" => IdleTold

(* A text field and an input method talk past each other only until the     *)
(* next serial: what the method sends is applied for the state it was made  *)
(* for, and nobody is asked to edit a field that lost the focus.            *)
TextAgreed == part = "text" => TextInputSound
=============================================================================
