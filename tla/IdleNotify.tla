----------------------------- MODULE IdleNotify -----------------------------
(***************************************************************************)
(* Telling clients that a seat is idle (types/wlr_idle_notify_v1.c) while   *)
(* surfaces inhibit it (types/wlr_idle_inhibit_v1.c).  The compositor keeps *)
(* the notifier's flag in step with the inhibitors of surfaces it shows,    *)
(* sooner or later; timers race activity and inhibition.                    *)
(***************************************************************************)
EXTENDS Naturals, FiniteSets

CONSTANTS IdNote,       \* notifications
          IdSeat,
          IdSurface,    \* surfaces, with at most one inhibitor each
          MaxIdEvents   \* bound: activity and changes of surfaces

VARIABLE idle

NewNote ==
  [st |-> "none", seat |-> CHOOSE x \in IdSeat : TRUE, obey_inhibitors |-> FALSE,
   timed |-> FALSE,      \* it has a timer, its timeout is not zero
   armed |-> FALSE, idle |-> FALSE,
   told |-> "resumed",   \* the last event, resumed before the first
   rested |-> TRUE]      \* ghost: no activity since the timer was armed

IdState ==
  [note |-> [n \in IdNote |-> NewNote], seats |-> IdSeat, surfaces |-> IdSurface,
   inhibitors |-> {},    \* surfaces with an inhibitor
   inhibited |-> FALSE, events |-> 0]

IdEvent(s) == [s EXCEPT !.events = @ + 1]
MayHappen == idle.events < MaxIdEvents

notification_set_idle(n, to) ==
  IF n.idle = to THEN n
  ELSE [n EXCEPT !.idle = to, !.told = IF to THEN "idled" ELSE "resumed"]

reset_timer_ignores(n, inhibited) ==
  IF n.timed THEN [n EXCEPT !.armed = TRUE, !.rested = TRUE] ELSE notification_set_idle(n, TRUE)

notification_reset_timer(n, inhibited) ==
  CASE inhibited /\ n.obey_inhibitors -> [notification_set_idle(n, FALSE) EXCEPT !.armed = FALSE]
    [] ~(inhibited /\ n.obey_inhibitors) /\ n.timed -> [n EXCEPT !.armed = TRUE, !.rested = TRUE]
    [] OTHER -> notification_set_idle(n, TRUE)

notification_handle_activity(n, inhibited) ==
  notification_reset_timer(notification_set_idle(n, FALSE), inhibited)

construct_idle_notification ==
  \E k \in IdNote, x \in IdSeat, obey \in BOOLEAN, timed \in BOOLEAN :
    /\ idle.note[k].st = "none"
    /\ idle' = [idle EXCEPT !.note[k] =
                  IF x \notin idle.seats THEN [NewNote EXCEPT !.st = "inert"]
                  ELSE notification_reset_timer(
                         [NewNote EXCEPT !.st = "live", !.seat = x, !.obey_inhibitors = obey,
                                         !.timed = timed], idle.inhibited)]

notification_handle_timer ==
  \E k \in IdNote :
    /\ idle.note[k].st = "live" /\ idle.note[k].armed
    /\ idle' = [idle EXCEPT !.note[k] = [notification_set_idle(@, TRUE) EXCEPT !.armed = FALSE]]

notification_handle_resource_destroy ==
  \E k \in IdNote :
    /\ idle.note[k].st \in {"live", "inert"}
    /\ idle' = [idle EXCEPT !.note[k] = [NewNote EXCEPT !.st = "gone"]]

notification_handle_seat_destroy(x, s) ==
  [s EXCEPT !.note = [k \in IdNote |-> IF @[k].st = "live" /\ @[k].seat = x
                                       THEN [NewNote EXCEPT !.st = "inert"] ELSE @[k]]]

SeatDestroyed ==
  \E x \in idle.seats :
    /\ MayHappen
    /\ idle' = IdEvent([notification_handle_seat_destroy(x, idle) EXCEPT !.seats = @ \ {x}])

set_inhibited_starts(s, inhibited) ==
  [s EXCEPT !.inhibited = inhibited,
            !.note = [k \in IdNote |-> IF @[k].st = "live" /\ @[k].obey_inhibitors /\ inhibited
                                       THEN notification_reset_timer(@[k], inhibited) ELSE @[k]]]

wlr_idle_notifier_v1_set_inhibited(s, inhibited) ==
  IF s.inhibited = inhibited THEN s
  ELSE [s EXCEPT !.inhibited = inhibited,
                 !.note = [k \in IdNote |-> IF @[k].st = "live" /\ @[k].obey_inhibitors
                                            THEN notification_reset_timer(@[k], inhibited) ELSE @[k]]]

(* The compositor catches up with the inhibitors. *)
SetInhibited ==
  /\ idle.inhibited # (idle.inhibitors # {})
  /\ idle' = wlr_idle_notifier_v1_set_inhibited(idle, idle.inhibitors # {})

wlr_idle_notifier_v1_notify_activity ==
  \E x \in idle.seats :
    /\ MayHappen
    /\ LET hit(n) == n.st = "live" /\ n.seat = x
           heard(n) == hit(n) /\ ~(idle.inhibited /\ n.obey_inhibitors)
       IN idle' = IdEvent([idle EXCEPT !.note = [k \in IdNote |->
                    IF heard(@[k]) THEN notification_handle_activity([@[k] EXCEPT !.rested = FALSE], idle.inhibited)
                    ELSE IF hit(@[k]) THEN [@[k] EXCEPT !.rested = FALSE] ELSE @[k]]])

manager_handle_create_inhibitor ==
  \E s \in idle.surfaces \ idle.inhibitors :
    /\ MayHappen
    /\ idle' = IdEvent([idle EXCEPT !.inhibitors = @ \cup {s}])

idle_inhibitor_v1_handle_resource_destroy ==
  \E s \in idle.inhibitors : idle' = [idle EXCEPT !.inhibitors = @ \ {s}]

idle_inhibitor_handle_surface_destroy(s, x) == [s EXCEPT !.inhibitors = @ \ {x}]

InhibitorSurfaceDestroyed ==
  \E x \in idle.surfaces :
    idle' = [idle_inhibitor_handle_surface_destroy(idle, x) EXCEPT !.surfaces = @ \ {x}]

IdInit == idle = IdState

IdNext ==
  \/ construct_idle_notification \/ notification_handle_timer \/ notification_handle_resource_destroy
  \/ SeatDestroyed \/ SetInhibited \/ wlr_idle_notifier_v1_notify_activity
  \/ manager_handle_create_inhibitor \/ idle_inhibitor_v1_handle_resource_destroy
  \/ InhibitorSurfaceDestroyed

IdSpec == IdInit /\ [][IdNext]_idle

---------------------------------------------------------------------------
(* A client that obeys inhibitors is never told idle while inhibited, nor   *)
(* is its timer running then; any other is either told idle, after a rest   *)
(* as long as its timeout, or has a timer that will tell it.  What was said *)
(* last is how things are, and nobody is told about a seat that is gone.    *)
IdleTold ==
  \A k \in IdNote :
    LET n == idle.note[k]
        held == idle.inhibited /\ n.obey_inhibitors
    IN n.st = "live" =>
         /\ n.seat \in idle.seats
         /\ n.idle <=> n.told = "idled"
         /\ IF held THEN ~n.idle /\ ~n.armed
            ELSE IF n.timed THEN n.idle # n.armed /\ n.rested ELSE n.idle
=============================================================================
