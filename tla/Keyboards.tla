----------------------------- MODULE Keyboards -----------------------------
(***************************************************************************)
(* Keyboards (types/wlr_keyboard.c, util/set.c), the keyboards of clients   *)
(* (types/wlr_virtual_keyboard_v1.c) and groups of keyboards that act as    *)
(* one (types/wlr_keyboard_group.c).                                        *)
(***************************************************************************)
EXTENDS Integers, FiniteSetsExt

CONSTANTS KbDevice,       \* keyboards of the backend
          KbVirtual,      \* keyboards of clients
          MaxKbMods,      \* bound: modifier changes not made by a key
          MaxKbCount      \* bound: presses of a key a group counts

Keyboard == KbDevice \cup KbVirtual
KbKey == {"shift", "a"}

(* slice, on: bounds, what moves and the keyboards there may be.            *)
(* kb: keyboards, "group" the one of the group: live, keys held, xkb: keys  *)
(* down in the xkb state, mods (depressed Shift, locked, layout), map, rate *)
(* of repetition; told: ghost, keys the listeners of the keyboard take as   *)
(* held. in: members of the group; count of each key in the group; cap of   *)
(* the keys a keyboard holds. has_keymap: keyboards of clients that may     *)
(* send keys.                                                               *)
(* Ghosts. odd: keys that were pressed twice on a keyboard, released on one *)
(* that did not hold them, or beyond its capacity; apart: modifiers differ  *)
(* since a keyboard joined or changed its keymap; failed: a keymap could    *)
(* not be set.                                                              *)
VARIABLE kbd

NoMods == [d |-> FALSE, l |-> FALSE, g |-> 0]
NoKeyboard == [live |-> FALSE, keys |-> {}, xkb |-> {}, mods |-> NoMods, map |-> "none", rate |-> 25, told |-> {}]

KbState(slice, on, cap, map) ==
  [slice |-> slice, on |-> on, cap |-> cap,
   kb |-> [d \in Keyboard \cup {"group"} |-> [NoKeyboard EXCEPT !.map = map, !.live = d = "group"]],
   in |-> {}, count |-> [k \in KbKey |-> 0], has_keymap |-> {},
   odd |-> {}, apart |-> FALSE, failed |-> FALSE, env |-> 0]

KbInit ==
  kbd \in {KbState("keys", KbDevice, 2, "m1"), KbState("maps", KbDevice, 2, "none"),
           KbState("clients", KbVirtual \cup {CHOOSE d \in KbDevice : TRUE}, 1, "m1")}

-----------------------------------------------------------------------------
(* One keyboard.                                                            *)

(* keyboard_key_update, set_add, set_remove                                 *)
keyboard_key_update(s, d, k, down) ==
  [s EXCEPT !.kb[d].keys = IF ~down THEN @ \ {k}
                           ELSE IF Cardinality(@) < s.cap THEN @ \cup {k} ELSE @,
            !.odd = IF down /\ k \notin s.kb[d].keys /\ Cardinality(s.kb[d].keys) = s.cap
                    THEN @ \cup {k} ELSE @]

(* xkb_state_update_key: Shift is the key with a modifier.                  *)
xkb_state_update_key(b, k, down) ==
  IF down THEN [b EXCEPT !.xkb = @ \cup {k}, !.mods.d = @ \/ (k = "shift" /\ k \notin b.xkb)]
  ELSE [b EXCEPT !.xkb = @ \ {k}, !.mods.d = @ /\ ~(k = "shift" /\ k \in b.xkb)]

(* wlr_keyboard_notify_modifiers without its signal, keyboard_modifier_update. *)
UpdateModifiers(s, d, m) == [s EXCEPT !.kb[d].mods = m]

(* Only the layout goes to the other keyboards.                             *)
handle_keyboard_modifiers_layout(s, d) ==
  IF d \notin s.in THEN s
  ELSE [s EXCEPT !.kb = [e \in DOMAIN @ |-> IF e \in s.in \cup {"group"}
                                            THEN [@[e] EXCEPT !.mods.g = s.kb[d].mods.g] ELSE @[e]],
                 !.apart = FALSE]

(* handle_keyboard_modifiers of the group: the first member that differs    *)
(* is told, its signal comes back here, and the group follows last.         *)
handle_keyboard_modifiers(s, d) ==
  IF d \notin s.in THEN s
  ELSE [s EXCEPT !.kb = [e \in DOMAIN @ |-> IF e \in s.in \cup {"group"}
                                            THEN UpdateModifiers(s, e, s.kb[d].mods).kb[e] ELSE @[e]],
                 !.apart = FALSE]

(* The modifiers signal, when they changed since u.                         *)
ModifiersSignal(u, s, d) ==
  IF u.kb[d].mods # s.kb[d].mods THEN handle_keyboard_modifiers(s, d) ELSE s

wlr_keyboard_notify_modifiers(s, d, m) == ModifiersSignal(s, UpdateModifiers(s, d, m), d)

(* The key as the xkb state of a keyboard with a keymap takes it.           *)
UpdateState(s, d, k, down, update) ==
  IF s.kb[d].map # "none" /\ update
  THEN [s EXCEPT !.kb[d] = xkb_state_update_key(@, k, down)] ELSE s

-----------------------------------------------------------------------------
(* The group.                                                               *)

(* A key goes with the first release.                                       *)
process_key_released(s, k, down) ==
  [pass |-> IF down THEN s.count[k] = 0 ELSE TRUE,
   s |-> [s EXCEPT !.count[k] = IF down THEN @ + 1 ELSE 0]]

(* process_key: whether the key changes the group. Releases of a key nobody *)
(* pressed go through.                                                      *)
process_key(s, k, down) ==
  [pass |-> IF down THEN s.count[k] = 0 ELSE s.count[k] <= 1,
   s |-> [s EXCEPT !.count[k] = IF down THEN @ + 1 ELSE IF @ > 0 THEN @ - 1 ELSE 0]]

KbTold(s, d, k, down) == [s EXCEPT !.kb[d].told = IF down THEN @ \cup {k} ELSE @ \ {k}]

(* wlr_keyboard_notify_key of the keyboard of the group                     *)
GroupKey(s, k, down, update) ==
  UpdateState(KbTold(keyboard_key_update(s, "group", k, down), "group", k, down), "group", k, down, update)

(* handle_keyboard_key                                                      *)
handle_keyboard_key(s, d, k, down, update) ==
  IF d \notin s.in THEN s
  ELSE LET p == process_key(s, k, down) IN IF p.pass THEN GroupKey(p.s, k, down, update) ELSE p.s

Odd(s, d, k, down) == IF down = (k \in s.kb[d].keys) THEN [s EXCEPT !.odd = @ \cup {k}] ELSE s

(* wlr_keyboard_notify_key: the listeners of the key before the state.      *)
wlr_keyboard_notify_key(s, d, k, down, update) ==
  LET held == KbTold(keyboard_key_update(Odd(s, d, k, down), d, k, down), d, k, down)
      u == handle_keyboard_key(held, d, k, down, update)
  IN ModifiersSignal(u, UpdateState(u, d, k, down, update), d)

EachKey(s, K, f(_, _)) == FoldSet(LAMBDA k, q : f(q, k), s, K)

(* The keyboard goes without the releases of its keys.                      *)
refresh_state_pressed(s, d, down) ==
  IF down THEN EachKey(s, s.kb[d].keys,
                 LAMBDA q, k : LET p == process_key(q, k, TRUE)
                               IN IF p.pass THEN KbTold(keyboard_key_update(p.s, "group", k, TRUE), "group", k, TRUE)
                                  ELSE p.s)
  ELSE s

(* refresh_state: the keys a keyboard holds enter and leave the group, not  *)
(* its xkb state.                                                           *)
refresh_state(s, d, down) ==
  EachKey(s, s.kb[d].keys,
    LAMBDA q, k : LET p == process_key(q, k, down)
                  IN IF p.pass THEN KbTold(keyboard_key_update(p.s, "group", k, down), "group", k, down) ELSE p.s)

remove_keyboard_group_device(s, d) ==
  IF d \in s.in THEN [refresh_state(s, d, FALSE) EXCEPT !.in = @ \ {d}] ELSE s

(* wlr_keyboard_set_keymap: held keys are down in the new state; F: the     *)
(* keyboards for which the memory is missing.                               *)
SetKeymap(b, m) ==
  IF m = "none" THEN [b EXCEPT !.map = m, !.xkb = {}]
  ELSE [b EXCEPT !.map = m, !.xkb = b.keys, !.mods = [NoMods EXCEPT !.d = "shift" \in b.keys]]

(* The keymap stays with the keyboard it was set on.                        *)
handle_keyboard_keymap_kept(s, d, m, F) == s

(* handle_keyboard_keymap: as with modifiers, until a keymap cannot be set. *)
(* The members before the failing one have theirs, and the group not.       *)
handle_keyboard_keymap(s, d, m, F) ==
  IF d \notin s.in THEN s
  ELSE LET differ == IF s.kb["group"].map = m THEN {} ELSE {e \in s.in : s.kb[e].map # m}
           stop == F \cap (IF m = "none" THEN {} ELSE differ \cup {"group"}) # {}
           done == IF stop THEN differ \ F ELSE differ \cup {"group"}
       IN [s EXCEPT !.kb = [e \in DOMAIN @ |-> IF e \in done THEN SetKeymap(@[e], m) ELSE @[e]],
                    !.failed = @ \/ stop]

Disagree(s) == \E d \in s.in : s.kb[d].mods # s.kb["group"].mods

wlr_keyboard_set_keymap(s, d, m, F) ==
  IF d \in F /\ m # "none" THEN s
  ELSE LET u == handle_keyboard_keymap([s EXCEPT !.kb[d] = SetKeymap(@, m)], d, m, F)
       IN [u EXCEPT !.apart = @ \/ Disagree(u)]

(* Members repeat at the new rate, the keyboard of the group does not.      *)
handle_keyboard_repeat_members(s, d) ==
  [s EXCEPT !.kb = [e \in DOMAIN @ |-> IF e \in s.in THEN [@[e] EXCEPT !.rate = s.kb[d].rate] ELSE @[e]]]

handle_keyboard_repeat_info(s, d) ==
  IF d \notin s.in THEN s
  ELSE [s EXCEPT !.kb = [e \in DOMAIN @ |-> IF e \in s.in \cup {"group"}
                                            THEN [@[e] EXCEPT !.rate = s.kb[d].rate] ELSE @[e]]]

wlr_keyboard_set_repeat_info(s, d, r) ==
  IF s.kb[d].rate = r THEN s ELSE handle_keyboard_repeat_info([s EXCEPT !.kb[d].rate = r], d)

(* wlr_keyboard_group_add_keyboard: the layout of the group for all; the    *)
(* other modifiers of the newcomer then go to the group.                    *)
wlr_keyboard_group_add_keyboard(d) ==
  /\ kbd.kb[d].live /\ kbd.kb["group"].live /\ d \notin kbd.in /\ kbd.kb[d].map = kbd.kb["group"].map
  /\ \A k \in KbKey : kbd.count[k] < MaxKbCount
  /\ LET s == [kbd EXCEPT !.in = @ \cup {d}]
         g == s.kb["group"]
         mods == IF s.kb[d].mods.g # g.mods.g
                 THEN wlr_keyboard_notify_modifiers(s, d, [s.kb[d].mods EXCEPT !.g = g.mods.g]) ELSE s
         u == refresh_state(wlr_keyboard_set_repeat_info(mods, d, g.rate), d, TRUE)
     IN kbd' = [u EXCEPT !.apart = @ \/ Disagree(u)]

wlr_keyboard_group_remove_keyboard(d) == d \in kbd.in /\ kbd' = remove_keyboard_group_device(kbd, d)

(* wlr_keyboard_finish: releases the keys without the xkb state; then the   *)
(* destroy signal (handle_keyboard_destroy of the group).                   *)
wlr_keyboard_finish(s, d) ==
  LET u == EachKey(s, s.kb[d].keys, LAMBDA q, k : wlr_keyboard_notify_key(q, d, k, FALSE, FALSE))
      gone == [NoKeyboard EXCEPT !.told = u.kb[d].told, !.map = s.kb["group"].map]
  IN [remove_keyboard_group_device(u, d) EXCEPT !.kb[d] = gone]

(* wlr_keyboard_group_destroy: the keyboards leave, then the group releases *)
(* what it still holds.                                                     *)
wlr_keyboard_group_destroy ==
  /\ kbd.kb["group"].live /\ kbd.slice # "maps"
  /\ LET u == FoldSet(LAMBDA d, q : remove_keyboard_group_device(q, d), kbd, kbd.in)
         g == u.kb["group"]
     IN kbd' = [u EXCEPT !.count = [k \in KbKey |-> 0], !.apart = FALSE,
                         !.kb["group"] = [NoKeyboard EXCEPT !.map = g.map, !.told = g.told \ g.keys]]

wlr_keyboard_group_create ==
  ~kbd.kb["group"].live /\ kbd' = [kbd EXCEPT !.kb["group"].live = TRUE, !.kb["group"].told = {}]

-----------------------------------------------------------------------------
(* wlr_keyboard_init, at the keymap the compositor gives the keyboards.     *)
wlr_keyboard_init(d) ==
  /\ ~kbd.kb[d].live /\ d \in kbd.on
  /\ kbd' = [kbd EXCEPT !.kb[d] = [NoKeyboard EXCEPT !.live = TRUE, !.map = kbd.kb["group"].map]]

(* A device of the backend: presses and releases alternate.                 *)
DeviceKey(d, k) ==
  /\ kbd.kb[d].live /\ kbd.slice # "maps" /\ (kbd.slice = "clients" => k = "a")
  /\ kbd' = wlr_keyboard_notify_key(kbd, d, k, k \notin kbd.kb[d].told, TRUE)

DeviceGone(d) == kbd.kb[d].live /\ kbd' = wlr_keyboard_finish(kbd, d)

KbMods(s, d) == {[s.kb[d].mods EXCEPT !.l = ~@], [s.kb[d].mods EXCEPT !.g = 1 - @]}

(* A nested backend is told the modifiers.                                  *)
DeviceModifiers(d) ==
  /\ kbd.kb[d].live /\ kbd.env < MaxKbMods /\ kbd.slice # "clients"
  /\ \E m \in KbMods(kbd, d) : kbd' = [wlr_keyboard_notify_modifiers(kbd, d, m) EXCEPT !.env = @ + 1]

DeviceKeymap(d, m, F) ==
  /\ kbd.kb[d].live /\ kbd.slice = "maps"
  /\ kbd' = wlr_keyboard_set_keymap(kbd, d, m, F)

DeviceRepeat(d, r) ==
  kbd.kb[d].live /\ kbd.slice = "maps" /\ kbd' = wlr_keyboard_set_repeat_info(kbd, d, r)

-----------------------------------------------------------------------------
(* Keyboards of clients.                                                    *)

(* virtual_keyboard_manager_create_virtual_keyboard                         *)
virtual_keyboard_manager_create_virtual_keyboard(v) == wlr_keyboard_init(v)

(* virtual_keyboard_keymap: without a keymap, or with one that is set.      *)
virtual_keyboard_keymap(v, m) ==
  /\ kbd.kb[v].live /\ v \notin kbd.has_keymap
  /\ kbd' = [(IF m = "none" THEN kbd ELSE wlr_keyboard_set_keymap(kbd, v, m, {})) EXCEPT !.has_keymap = @ \cup {v}]

(* virtual_keyboard_key: as the client likes; the xkb state is not updated. *)
virtual_keyboard_key(v, k, down) ==
  /\ kbd.kb[v].live /\ v \in kbd.has_keymap /\ (down => kbd.count[k] < MaxKbCount)
  /\ kbd' = wlr_keyboard_notify_key(kbd, v, k, down, FALSE)

virtual_keyboard_modifiers(v) ==
  /\ kbd.kb[v].live /\ v \in kbd.has_keymap /\ kbd.env < MaxKbMods
  /\ \E m \in KbMods(kbd, v) : kbd' = [wlr_keyboard_notify_modifiers(kbd, v, m) EXCEPT !.env = @ + 1]

(* virtual_keyboard_destroy: by the client or with the seat.                *)
virtual_keyboard_destroy(v) ==
  kbd.kb[v].live /\ kbd' = [wlr_keyboard_finish(kbd, v) EXCEPT !.has_keymap = @ \ {v}]

KbNext ==
  \/ \E d \in Keyboard : \/ wlr_keyboard_group_add_keyboard(d) \/ wlr_keyboard_group_remove_keyboard(d)
  \/ wlr_keyboard_group_create \/ wlr_keyboard_group_destroy
  \/ \E d \in KbDevice : \/ wlr_keyboard_init(d) \/ DeviceGone(d) \/ DeviceModifiers(d)
                         \/ \E k \in KbKey : DeviceKey(d, k)
                         \/ \E m \in {"none", "m1"}, F \in SUBSET (KbDevice \cup {"group"}) : DeviceKeymap(d, m, F)
                         \/ \E r \in {0, 25} : DeviceRepeat(d, r)
  \/ \E v \in KbVirtual : \/ virtual_keyboard_manager_create_virtual_keyboard(v) \/ virtual_keyboard_destroy(v)
                          \/ virtual_keyboard_modifiers(v)
                          \/ \E m \in {"none", "m1"} : virtual_keyboard_keymap(v, m)
                          \/ \E k \in KbKey, down \in BOOLEAN : virtual_keyboard_key(v, k, down)

KbSpec == KbInit /\ [][KbNext]_kbd

-----------------------------------------------------------------------------
(* A group holds a key as long as one of its keyboards does, and its        *)
(* listeners know: whichever keyboards press and release it, join, leave or *)
(* are unplugged. A keyboard that went leaves no key held. Keys pressed     *)
(* twice, or more of them than a keyboard holds, are excused.               *)
KeysFollowDevices ==
  \A k \in KbKey \ kbd.odd :
    /\ kbd.count[k] = Cardinality({d \in kbd.in : k \in kbd.kb[d].keys})
    /\ (k \in kbd.kb["group"].keys) = (kbd.count[k] > 0)
    /\ \A d \in DOMAIN kbd.kb : (k \in kbd.kb[d].told) = (k \in kbd.kb[d].keys)

(* The keyboards of a group repeat alike, have one keymap unless one could  *)
(* not be set, and after every change of the modifiers of one of them have  *)
(* these.                                                                   *)
GroupAgrees ==
  \A d \in kbd.in :
    LET b == kbd.kb[d] g == kbd.kb["group"]
    IN /\ b.rate = g.rate
       /\ kbd.failed \/ b.map = g.map
       /\ kbd.apart \/ b.mods = g.mods

KeyboardsSound == KeysFollowDevices /\ GroupAgrees

(* What handle_keyboard_modifiers says of the modifiers other than the      *)
(* layout: they are derived from the key state of the group.                *)
ModifiersFromKeys ==
  kbd.kb["group"].map # "none" => (kbd.kb["group"].mods.d <=> "shift" \in kbd.kb["group"].keys)

=============================================================================
