----------------------------- MODULE TextInput -----------------------------
(***************************************************************************)
(* Text entry: the text input of an application (types/wlr_text_input_v3.c) *)
(* and an input method (types/wlr_input_method_v2.c) with its popups and    *)
(* its grab of the keyboard. Requests and events are in flight between a    *)
(* client and the compositor, and each side numbers what it did so that     *)
(* the other's answers to an older state are told from current ones.        *)
(***************************************************************************)
EXTENDS Integers, Sequences

CONSTANTS TxSurface,      \* surfaces of the client
          TxKeyboard,     \* keyboards of the seat
          MaxTxSerial,    \* bound: commits and done events
          MaxTxQueue      \* bound: requests or events in flight

(* "none" names the absence of one.                                         *)
ASSUME TextAssumption == "none" \notin TxKeyboard \cup TxSurface

(* slice: a bound, what moves. reqs, evs: in flight.                        *)
(* ti: the text input: st ("none", "live", "inert"), pending, current (en:  *)
(* enabled, v: its other state), focus, serial; believed: ghost, enabled as *)
(* the compositor was told. cl: the client: what it set, what it committed  *)
(* last, commits sent; wrong: it took as current an answer to another       *)
(* state.                                                                   *)
(* im: the input method: st, active, client_active, serial, pending and     *)
(* current text, as the field it was composed for, -1 without; mc: the client's: done events seen and the field they are  *)
(* about; field: number of activations, shown: the one of the last done     *)
(* event, 0 when inactive. stale: ghost, text of another was accepted.      *)
(* pop: the popup of a surface: on, mapped, and whether the surface has a   *)
(* buffer. grab: on, kb the keyboard, told the keymap the client has. kb:   *)
(* keymaps of the keyboards, "gone" without one. orphan: a request named an *)
(* object that was never made.                                              *)
VARIABLE txt

NoText == [en |-> FALSE, v |-> "dflt"]
NoPopup == [on |-> FALSE, mapped |-> FALSE, buffer |-> FALSE]
NoGrab == [on |-> FALSE, kb |-> "none", told |-> "none"]
NoMethod == [st |-> "none", active |-> FALSE, client_active |-> FALSE, serial |-> 0,
             pending |-> -1, current |-> -1]

TxInit ==
  txt \in {[slice |-> sl, reqs |-> <<>>, evs |-> <<>>,
            ti |-> [st |-> "none", pending |-> NoText, current |-> NoText, focus |-> "none", serial |-> 0],
            believed |-> FALSE, live |-> TxSurface,
            cl |-> [set |-> NoText, last |-> NoText, sent |-> 0], wrong |-> FALSE,
            im |-> NoMethod, mc |-> [seen |-> 0, field |-> 0], field |-> 0, shown |-> 0, stale |-> FALSE,
            pop |-> [f \in TxSurface |-> NoPopup], grab |-> NoGrab,
            kb |-> [k \in TxKeyboard |-> "m1"], orphan |-> FALSE] :
           sl \in {"text", "method", "grab"}}

Request(s, q) == [s EXCEPT !.reqs = Append(@, q)]
Event(s, e) == [s EXCEPT !.evs = Append(@, e)]
Room == Len(txt.reqs) < MaxTxQueue /\ Len(txt.evs) < MaxTxQueue

-----------------------------------------------------------------------------
(* The text input.                                                          *)

(* text_input_manager_get_text_input                                        *)
text_input_manager_get_text_input ==
  txt.slice = "text" /\ txt.ti.st = "none" /\ txt' = [txt EXCEPT !.ti.st = "live"]

(* The client enables, disables, sets state (any of the set requests) or    *)
(* commits.                                                                 *)
ClientEnable == Request([txt EXCEPT !.cl.set = [en |-> TRUE, v |-> "dflt"]], [op |-> "enable", v |-> "dflt"])
ClientDisable == Request([txt EXCEPT !.cl.set.en = FALSE], [op |-> "disable", v |-> "dflt"])
ClientSet(v) == Request([txt EXCEPT !.cl.set.v = v], [op |-> "set", v |-> v])
ClientCommit == Request([txt EXCEPT !.cl.last = txt.cl.set, !.cl.sent = @ + 1], [op |-> "commit", v |-> "dflt"])

ClientText ==
  /\ txt.ti.st # "none" /\ Room /\ txt.slice = "text"
  /\ \/ txt' = ClientEnable
     \/ txt' = ClientDisable
     \/ \E v \in {"x"} : txt' = ClientSet(v)
     \/ txt.cl.sent < MaxTxSerial /\ txt' = ClientCommit

(* An enable counts as a commit.                                            *)
text_input_enable_counted(s) ==
  [s EXCEPT !.ti.pending = [en |-> TRUE, v |-> "dflt"], !.ti.serial = @ + 1]

text_input_enable(s) == [s EXCEPT !.ti.pending = [en |-> TRUE, v |-> "dflt"]]
text_input_disable(s) == [s EXCEPT !.ti.pending.en = FALSE]

(* text_input_set_surrounding_text, text_input_set_text_change_cause,       *)
(* text_input_set_content_type, text_input_set_cursor_rectangle             *)
text_input_set(s, v) == [s EXCEPT !.ti.pending.v = v]

(* The serial counts only commits that enable or disable.                   *)
text_input_commit_counted(s) ==
  [s EXCEPT !.ti.current = s.ti.pending, !.believed = s.ti.pending.en,
            !.ti.serial = IF s.ti.current.en # s.ti.pending.en THEN @ + 1 ELSE @]

(* text_input_commit: the enable or disable signal when it changes, the     *)
(* commit signal otherwise.                                                 *)
text_input_commit(s) ==
  [s EXCEPT !.ti.current = s.ti.pending, !.ti.serial = @ + 1,
            !.believed = IF ~s.ti.current.en /\ s.ti.pending.en THEN TRUE
                         ELSE IF s.ti.current.en /\ ~s.ti.pending.en THEN FALSE ELSE @]

HandleText(s, q) ==
  CASE q.op = "enable" -> text_input_enable(s)
    [] q.op = "disable" -> text_input_disable(s)
    [] q.op = "set" -> text_input_set(s, q.v)
    [] q.op = "commit" -> text_input_commit(s)

(* A request of an inert object is ignored.                                 *)
ServerText ==
  /\ txt.slice = "text" /\ txt.reqs # <<>>
  /\ LET s == [txt EXCEPT !.reqs = Tail(@)]
     IN txt' = IF txt.ti.st = "live" THEN HandleText(s, Head(txt.reqs)) ELSE s

(* wlr_text_input_v3_send_done, after the preedit, commit and delete events: *)
(* about, a ghost, is the state they answer.                                *)
wlr_text_input_v3_send_done ==
  /\ txt.ti.st = "live" /\ Room
  /\ txt' = Event(txt, [ev |-> "done", serial |-> txt.ti.serial, about |-> txt.ti.current])

(* A client takes an answer with the number of its commits as current.      *)
ClientDone ==
  /\ txt.slice = "text" /\ txt.evs # <<>>
  /\ LET e == Head(txt.evs)
     IN txt' = [txt EXCEPT !.evs = Tail(@),
                           !.wrong = @ \/ (e.serial = txt.cl.sent /\ e.about # txt.cl.last)]

wlr_text_input_v3_send_enter(f) ==
  txt.ti.st = "live" /\ txt.ti.focus = "none" /\ f \in txt.live /\ txt' = [txt EXCEPT !.ti.focus = f]

wlr_text_input_v3_send_leave ==
  txt.ti.st = "live" /\ txt.ti.focus # "none" /\ txt' = [txt EXCEPT !.ti.focus = "none"]

(* The focus of a destroyed surface stays.                                  *)
focused_surface_kept(s, f) == s

text_input_handle_focused_surface_destroy(s, f) ==
  IF s.ti.focus = f THEN [s EXCEPT !.ti.focus = "none"] ELSE s

(* wlr_text_input_destroy, with its resource or its seat client.            *)
wlr_text_input_destroy ==
  /\ txt.ti.st = "live"
  /\ txt' = [txt EXCEPT !.ti = [st |-> "inert", pending |-> NoText, current |-> NoText, focus |-> "none", serial |-> 0],
                        !.believed = FALSE, !.evs = <<>>, !.reqs = <<>>]

-----------------------------------------------------------------------------
(* The input method.                                                        *)

(* manager_get_input_method                                                 *)
manager_get_input_method ==
  txt.slice \in {"method", "grab"} /\ txt.im.st = "none" /\ txt' = [txt EXCEPT !.im.st = "live"]

(* wlr_input_method_v2_send_activate, _send_deactivate: a field gets or     *)
(* loses the focus; then done.                                              *)
wlr_input_method_v2_send_activate ==
  /\ txt.im.st = "live" /\ Room /\ txt.field < MaxTxSerial
  /\ txt' = Event([txt EXCEPT !.im.active = TRUE, !.field = @ + 1], [ev |-> "activate", field |-> txt.field + 1])

wlr_input_method_v2_send_deactivate ==
  /\ txt.im.st = "live" /\ txt.im.active /\ Room
  /\ txt' = Event([txt EXCEPT !.im.active = FALSE], [ev |-> "deactivate", field |-> 0])

(* popup_surface_update_mapped                                              *)
popup_surface_update_mapped(s, f) ==
  [s EXCEPT !.pop[f].mapped = IF s.im.client_active THEN @ \/ s.pop[f].buffer ELSE FALSE]

(* Popups are not told.                                                     *)
PopupsUntold(s) == s

(* Each popup of the list.                                                  *)
EachPopup(s) ==
  [s EXCEPT !.pop = [f \in TxSurface |-> IF s.pop[f].on THEN popup_surface_update_mapped(s, f).pop[f] ELSE @[f]]]

wlr_input_method_v2_send_done ==
  /\ txt.im.st = "live" /\ Room /\ txt.im.serial < MaxTxSerial
  /\ txt' = EachPopup(Event([txt EXCEPT !.im.client_active = txt.im.active, !.im.serial = @ + 1,
                                        !.shown = IF txt.im.active THEN txt.field ELSE 0],
                            [ev |-> "imdone", field |-> IF txt.im.active THEN txt.field ELSE 0]))

(* The client of the method reads its events; a field counts from the done  *)
(* event that follows its activation, which names it here.                  *)
MethodEvent ==
  /\ txt.slice = "method" /\ txt.evs # <<>>
  /\ LET e == Head(txt.evs)
     IN txt' = [txt EXCEPT !.evs = Tail(@),
                           !.mc.seen = IF e.ev = "imdone" THEN @ + 1 ELSE @,
                           !.mc.field = IF e.ev = "imdone" THEN e.field ELSE @]

(* The client sets text for the field it knows (im_commit_string,           *)
(* im_set_preedit_string, im_delete_surrounding_text) or none, and commits  *)
(* it with the number of done events it has seen.                           *)
MethodCommit ==
  /\ txt.slice = "method" /\ txt.im.st # "none" /\ Room
  /\ \E t \in {-1, txt.mc.field} :
       txt' = Request(txt, [op |-> "imcommit", serial |-> txt.mc.seen, text |-> t])

im_commit_string(s, t) == IF t = -1 THEN s ELSE [s EXCEPT !.im.pending = t]

Accept(s) ==
  [s EXCEPT !.im.current = s.im.pending, !.im.pending = -1,
            !.stale = @ \/ s.im.pending \notin {-1, s.shown}]

(* A late commit leaves its text pending.                                   *)
im_commit_left(s, serial) == IF serial # s.im.serial THEN s ELSE Accept(s)

(* im_commit: a late one is dropped with its text.                          *)
im_commit(s, serial) ==
  IF serial # s.im.serial THEN [s EXCEPT !.im.pending = -1] ELSE Accept(s)

ServerMethod ==
  /\ txt.slice = "method" /\ txt.reqs # <<>>
  /\ LET s == [txt EXCEPT !.reqs = Tail(@)]
     IN txt' = IF txt.im.st = "live" THEN im_commit(im_commit_string(s, Head(txt.reqs).text), Head(txt.reqs).serial) ELSE s

(* popup_surface_destroy                                                    *)
popup_surface_destroy(s, f) == [s EXCEPT !.pop[f].on = FALSE, !.pop[f].mapped = FALSE]

(* im_get_input_popup_surface: of an inert object no popup is made, and the *)
(* client does not know.                                                    *)
im_get_input_popup_surface(f) ==
  /\ txt.im.st # "none" /\ ~txt.pop[f].on /\ txt.slice = "grab"
  /\ txt' = IF txt.im.st = "inert" THEN [txt EXCEPT !.orphan = TRUE]
            ELSE popup_surface_update_mapped([txt EXCEPT !.pop[f].on = TRUE], f)

popup_surface_surface_role_destroy(f) ==
  txt.pop[f].on /\ txt' = popup_surface_destroy(txt, f)

(* A commit of the surface with or without a buffer: without, the surface   *)
(* unmaps; then popup_surface_surface_role_commit.                          *)
PopupSurfaceCommit(f) ==
  /\ txt.slice = "grab" /\ f \in txt.live
  /\ \E b \in BOOLEAN :
       LET s == [txt EXCEPT !.pop[f].buffer = b, !.pop[f].mapped = @ /\ b]
       IN txt' = IF txt.pop[f].on THEN popup_surface_update_mapped(s, f) ELSE s

(* A surface goes: with its popup, and the focus of the text input.         *)
SurfaceGone(f) ==
  /\ f \in txt.live
  /\ LET s == [popup_surface_destroy(txt, f) EXCEPT !.live = @ \ {f}, !.pop[f] = NoPopup]
     IN txt' = text_input_handle_focused_surface_destroy(s, f)

-----------------------------------------------------------------------------
(* The keyboard of the input method.                                        *)

keyboard_grab_send_keymap(s, k) == [s EXCEPT !.grab.told = s.kb[k]]

wlr_input_method_keyboard_grab_v2_destroy(s) == [s EXCEPT !.grab = NoGrab]

(* im_grab_keyboard: while there is a grab no object is made for another.   *)
im_grab_keyboard ==
  /\ txt.im.st # "none" /\ txt.slice = "grab"
  /\ txt' = IF txt.im.st = "inert" \/ txt.grab.on THEN [txt EXCEPT !.orphan = TRUE]
            ELSE [txt EXCEPT !.grab.on = TRUE]

keyboard_grab_resource_destroy == txt.grab.on /\ txt' = wlr_input_method_keyboard_grab_v2_destroy(txt)

(* The keymap goes only to a grab that had no keyboard.                     *)
set_keyboard_first(s, k) ==
  [(IF k # "none" /\ s.grab.kb = "none" THEN keyboard_grab_send_keymap(s, k) ELSE s) EXCEPT !.grab.kb = k]

(* wlr_input_method_keyboard_grab_v2_set_keyboard                           *)
wlr_input_method_keyboard_grab_v2_set_keyboard(s, k) ==
  IF s.grab.kb = k THEN s
  ELSE LET send == k # "none" /\ (s.grab.kb = "none" \/ s.kb[s.grab.kb] # s.kb[k])
       IN [(IF send THEN keyboard_grab_send_keymap(s, k) ELSE s) EXCEPT !.grab.kb = k]

GrabSetKeyboard(k) ==
  txt.grab.on /\ txt.kb[k] # "gone" /\ txt' = wlr_input_method_keyboard_grab_v2_set_keyboard(txt, k)

(* handle_keyboard_keymap of the grab                                       *)
GrabKeymap(k, m) ==
  /\ txt.slice = "grab" /\ txt.kb[k] \notin {"gone", m}
  /\ LET s == [txt EXCEPT !.kb[k] = m]
     IN txt' = IF s.grab.on /\ s.grab.kb = k THEN keyboard_grab_send_keymap(s, k) ELSE s

(* handle_keyboard_destroy of the grab                                      *)
handle_keyboard_destroy(k) ==
  /\ txt.slice = "grab" /\ txt.kb[k] # "gone"
  /\ LET s == IF txt.grab.kb = k THEN wlr_input_method_keyboard_grab_v2_set_keyboard(txt, "none") ELSE txt
     IN txt' = [s EXCEPT !.kb[k] = "gone"]

NewKeyboard(k) == txt.slice = "grab" /\ txt.kb[k] = "gone" /\ txt' = [txt EXCEPT !.kb[k] = "m1"]

(* Forgets the popups.                                                      *)
input_method_destroy_popups(s) ==
  [wlr_input_method_keyboard_grab_v2_destroy(s)
     EXCEPT !.im = [NoMethod EXCEPT !.st = "inert"], !.evs = <<>>, !.reqs = <<>>]

(* input_method_destroy: popups and grab go first.                          *)
input_method_destroy(s) ==
  [wlr_input_method_keyboard_grab_v2_destroy(s)
     EXCEPT !.pop = [f \in TxSurface |-> popup_surface_destroy(s, f).pop[f]],
            !.im = [NoMethod EXCEPT !.st = "inert"], !.evs = <<>>, !.reqs = <<>>]

(* input_method_resource_destroy, wlr_input_method_v2_send_unavailable,     *)
(* input_method_handle_seat_client_destroy                                  *)
wlr_input_method_v2_send_unavailable == txt.im.st = "live" /\ txt' = input_method_destroy(txt)

TxNext ==
  \/ text_input_manager_get_text_input \/ ClientText \/ ServerText \/ wlr_text_input_v3_send_done \/ ClientDone
  \/ wlr_text_input_v3_send_leave \/ wlr_text_input_destroy
  \/ \E f \in TxSurface : \/ wlr_text_input_v3_send_enter(f) \/ SurfaceGone(f) \/ im_get_input_popup_surface(f)
                          \/ popup_surface_surface_role_destroy(f) \/ PopupSurfaceCommit(f)
  \/ manager_get_input_method \/ wlr_input_method_v2_send_activate \/ wlr_input_method_v2_send_deactivate
  \/ wlr_input_method_v2_send_done \/ MethodEvent \/ MethodCommit \/ ServerMethod
  \/ im_grab_keyboard \/ keyboard_grab_resource_destroy \/ wlr_input_method_v2_send_unavailable
  \/ \E k \in TxKeyboard : \/ GrabSetKeyboard(k) \/ handle_keyboard_destroy(k) \/ NewKeyboard(k)
                           \/ \E m \in {"m1", "m2"} : GrabKeymap(k, m)

-----------------------------------------------------------------------------
(* With commits and answers crossing, an answer that carries the number of  *)
(* commits the application made answers its last one, and when nothing is   *)
(* in flight an answer would; the compositor knows whether the text input   *)
(* is enabled, and its focus is a surface that exists.                      *)
AnswersCurrent ==
  /\ ~txt.wrong
  /\ txt.ti.st = "live" /\ txt.reqs = <<>> => txt.ti.serial = txt.cl.sent /\ txt.ti.current = txt.cl.last
  /\ txt.ti.st = "live" => txt.believed = txt.ti.current.en
  /\ txt.ti.focus \in txt.live \cup {"none"}

(* An input method's text reaches the field it was composed for; its popups *)
(* show exactly while it is active, as its client knows, and they have      *)
(* contents; the keyboard it grabbed exists and the client has its keymap.  *)
MethodCurrent ==
  /\ ~txt.stale
  /\ \A f \in TxSurface :
       txt.pop[f].mapped <=> txt.pop[f].on /\ txt.pop[f].buffer /\ txt.im.st = "live" /\ txt.im.client_active
  /\ txt.grab.kb # "none" => txt.kb[txt.grab.kb] # "gone" /\ txt.grab.told = txt.kb[txt.grab.kb]
  /\ txt.grab.on => txt.im.st = "live"

TextInputSound == AnswersCurrent /\ MethodCurrent

=============================================================================
