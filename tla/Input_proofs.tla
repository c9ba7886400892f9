---------------------------- MODULE Input_proofs ----------------------------
(***************************************************************************)
(* Proofs about the input side: idle notifications (IdleNotify), for any   *)
(* notifications, seats, surfaces and numbers of events; the ring of       *)
(* serials (Seat), for any width of the counter and any size of the ring;  *)
(* text entry (TextInput), for any surfaces and keyboards and any number   *)
(* of requests and events in flight.                                       *)
(***************************************************************************)
EXTENDS MCInput, SequenceTheorems, WellFoundedInduction, TLAPS

(* What IdleTold says of one notification. *)
NoteTold(n, inhibited, seats) ==
    n.st = "live" =>
        /\ n.seat \in seats
        /\ n.idle <=> n.told = "idled"
        /\ IF inhibited /\ n.obey_inhibitors THEN ~n.idle /\ ~n.armed
           ELSE IF n.timed THEN n.idle # n.armed /\ n.rested ELSE n.idle

Notes == [st : {"none", "live", "inert", "gone"}, seat : IdSeat \cup {CHOOSE x \in IdSeat : TRUE},
          obey_inhibitors : BOOLEAN, timed : BOOLEAN, armed : BOOLEAN, idle : BOOLEAN,
          told : {"resumed", "idled"}, rested : BOOLEAN]

IdStates == [note : [IdNote -> Notes], seats : SUBSET IdSeat, surfaces : SUBSET IdSurface,
             inhibitors : SUBSET IdSurface, inhibited : BOOLEAN, events : Nat]

IdTypeOK == idle \in IdStates

(* The timer of a notification that was told idle does not run, so that it  *)
(* cannot be told twice: what reset_timer needs of a live notification.     *)
IdleIInv == IdTypeOK /\ IdleTold

LEMMA NewNoteTyped == NewNote \in Notes /\ NewNote.st = "none"
BY DEF NewNote, Notes

LEMMA EventTyped ==
    ASSUME NEW s \in IdStates
    PROVE  /\ IdEvent(s) \in IdStates
           /\ IdEvent(s).note = s.note /\ IdEvent(s).seats = s.seats
           /\ IdEvent(s).inhibited = s.inhibited
<1>1. s.events + 1 \in Nat
  BY DEF IdStates
<1> QED
  BY <1>1 DEF IdEvent, IdStates

LEMMA SetIdle ==
    ASSUME NEW n \in Notes, NEW to \in BOOLEAN
    PROVE  LET m == notification_set_idle(n, to) IN
           /\ m \in Notes /\ m.idle = to
           /\ (n.idle <=> n.told = "idled") => (m.idle <=> m.told = "idled")
           /\ m.st = n.st /\ m.seat = n.seat /\ m.obey_inhibitors = n.obey_inhibitors
           /\ m.timed = n.timed /\ m.armed = n.armed /\ m.rested = n.rested
BY DEF notification_set_idle, Notes

(* notification_reset_timer leaves a notification as IdleTold wants it.     *)
LEMMA ResetTold ==
    ASSUME NEW n \in Notes, NEW inhibited \in BOOLEAN, NEW seats,
           n.seat \in seats, n.idle <=> n.told = "idled",
           ~(inhibited /\ n.obey_inhibitors) /\ n.timed => ~n.idle
    PROVE  LET m == notification_reset_timer(n, inhibited) IN
           m \in Notes /\ NoteTold(m, inhibited, seats)
<1> DEFINE off == notification_set_idle(n, FALSE)
           on == notification_set_idle(n, TRUE)
<1>1. /\ off \in Notes /\ off.idle = FALSE /\ (off.idle <=> off.told = "idled")
      /\ off.seat = n.seat /\ off.obey_inhibitors = n.obey_inhibitors
  BY SetIdle
<1>2. /\ on \in Notes /\ on.idle = TRUE /\ (on.idle <=> on.told = "idled")
      /\ on.seat = n.seat /\ on.obey_inhibitors = n.obey_inhibitors /\ on.timed = n.timed
  BY SetIdle
<1> HIDE DEF off, on
<1>3. CASE inhibited /\ n.obey_inhibitors
  <2>1. notification_reset_timer(n, inhibited) = [off EXCEPT !.armed = FALSE]
    BY <1>3 DEF notification_reset_timer, off
  <2>2. [off EXCEPT !.armed = FALSE] \in Notes /\ NoteTold([off EXCEPT !.armed = FALSE], inhibited, seats)
    BY <1>1, <1>3 DEF Notes, NoteTold
  <2> QED
    BY <2>1, <2>2
<1>4. CASE ~(inhibited /\ n.obey_inhibitors) /\ n.timed
  <2> DEFINE m == [n EXCEPT !.armed = TRUE, !.rested = TRUE]
  <2>1. notification_reset_timer(n, inhibited) = m
    BY <1>4 DEF notification_reset_timer
  <2>2. m \in Notes /\ NoteTold(m, inhibited, seats)
    BY <1>4 DEF Notes, NoteTold
  <2> QED
    BY <2>1, <2>2
<1>5. CASE ~(inhibited /\ n.obey_inhibitors) /\ ~n.timed
  <2>1. notification_reset_timer(n, inhibited) = on
    BY <1>5 DEF notification_reset_timer, on
  <2>2. NoteTold(on, inhibited, seats)
    BY <1>2, <1>5 DEF NoteTold
  <2> QED
    BY <1>2, <2>1, <2>2
<1> QED
  BY <1>3, <1>4, <1>5 DEF Notes

LEMMA IdleUnfolded ==
    /\ IdleTold <=> \A k \in IdNote : NoteTold(idle.note[k], idle.inhibited, idle.seats)
    /\ IdleTold' <=> \A k \in IdNote : NoteTold(idle'.note[k], idle'.inhibited, idle'.seats)
BY DEF IdleTold, NoteTold

LEMMA IdleStep ==
    ASSUME IdleIInv, [IdNext]_idle
    PROVE  IdleIInv'
<1>t. /\ idle.note \in [IdNote -> Notes] /\ idle.seats \in SUBSET IdSeat
      /\ idle.surfaces \in SUBSET IdSurface /\ idle.inhibitors \in SUBSET IdSurface
      /\ idle.inhibited \in BOOLEAN /\ idle.events \in Nat /\ IdTypeOK
  BY DEF IdleIInv, IdTypeOK, IdStates
<1>i. \A k \in IdNote : NoteTold(idle.note[k], idle.inhibited, idle.seats)
  BY IdleUnfolded DEF IdleIInv
<1>0. ASSUME UNCHANGED <<idle.note, idle.inhibited, idle.seats>>
      PROVE  IdleTold'
  BY <1>0, <1>i, IdleUnfolded
<1>1. CASE construct_idle_notification
  <2>1. PICK k \in IdNote, x \in IdSeat, obey \in BOOLEAN, timed \in BOOLEAN :
          /\ idle.note[k].st = "none"
          /\ idle' = [idle EXCEPT !.note[k] =
                  IF x \notin idle.seats THEN [NewNote EXCEPT !.st = "inert"]
                  ELSE notification_reset_timer(
                         [NewNote EXCEPT !.st = "live", !.seat = x, !.obey_inhibitors = obey,
                                         !.timed = timed], idle.inhibited)]
    BY <1>1 DEF construct_idle_notification
  <2> DEFINE new == [NewNote EXCEPT !.st = "live", !.seat = x, !.obey_inhibitors = obey,
                                    !.timed = timed]
             m == IF x \notin idle.seats THEN [NewNote EXCEPT !.st = "inert"]
                  ELSE notification_reset_timer(new, idle.inhibited)
  <2>2. new \in Notes /\ new.seat = x /\ ~new.idle /\ new.told = "resumed"
    BY DEF NewNote, Notes
  <2>3. [NewNote EXCEPT !.st = "inert"] \in Notes /\ [NewNote EXCEPT !.st = "inert"].st = "inert"
    BY DEF NewNote, Notes
  <2> HIDE DEF new
  <2>4. m \in Notes /\ NoteTold(m, idle.inhibited, idle.seats)
    <3>1. CASE x \notin idle.seats
      BY <2>3, <3>1 DEF NoteTold
    <3>2. CASE x \in idle.seats
      BY <1>t, <2>2, <3>2, ResetTold
    <3> QED
      BY <3>1, <3>2
  <2>5. idle' = [idle EXCEPT !.note[k] = m]
    BY <2>1 DEF new
  <2> HIDE DEF m
  <2>6. /\ idle'.note = [idle.note EXCEPT ![k] = m]
        /\ UNCHANGED <<idle.seats, idle.inhibited>> /\ IdTypeOK'
    BY <1>t, <2>4, <2>5 DEF IdTypeOK, IdStates
  <2>7. IdleTold'
    BY <1>t, <1>i, <2>4, <2>6, IdleUnfolded
  <2> QED
    BY <2>6, <2>7 DEF IdleIInv
<1>2. CASE notification_handle_timer
  <2>1. PICK k \in IdNote :
          /\ idle.note[k].st = "live" /\ idle.note[k].armed
          /\ idle' = [idle EXCEPT !.note[k] = [notification_set_idle(@, TRUE) EXCEPT !.armed = FALSE]]
    BY <1>2 DEF notification_handle_timer
  <2> DEFINE on == notification_set_idle(idle.note[k], TRUE)
             m == [on EXCEPT !.armed = FALSE]
  <2>2. idle.note[k] \in Notes /\ NoteTold(idle.note[k], idle.inhibited, idle.seats)
    BY <1>t, <1>i
  <2>3. /\ on \in Notes /\ on.idle = TRUE /\ (on.idle <=> on.told = "idled")
        /\ on.seat = idle.note[k].seat /\ on.obey_inhibitors = idle.note[k].obey_inhibitors
        /\ on.timed = idle.note[k].timed /\ on.rested = idle.note[k].rested
    BY <2>1, <2>2, SetIdle DEF NoteTold
  <2>4. idle' = [idle EXCEPT !.note[k] = m]
    BY <2>1
  <2> HIDE DEF on
  <2>5. m \in Notes /\ NoteTold(m, idle.inhibited, idle.seats)
    BY <1>t, <2>1, <2>2, <2>3 DEF Notes, NoteTold
  <2> HIDE DEF m
  <2>6. /\ idle'.note = [idle.note EXCEPT ![k] = m]
        /\ UNCHANGED <<idle.seats, idle.inhibited>> /\ IdTypeOK'
    BY <1>t, <2>4, <2>5 DEF IdTypeOK, IdStates
  <2>7. IdleTold'
    BY <1>t, <1>i, <2>5, <2>6, IdleUnfolded
  <2> QED
    BY <2>6, <2>7 DEF IdleIInv
<1>3. CASE notification_handle_resource_destroy
  <2>1. PICK k \in IdNote : idle' = [idle EXCEPT !.note[k] = [NewNote EXCEPT !.st = "gone"]]
    BY <1>3 DEF notification_handle_resource_destroy
  <2> DEFINE m == [NewNote EXCEPT !.st = "gone"]
  <2>2. m \in Notes /\ m.st = "gone"
    BY DEF NewNote, Notes
  <2>3. idle' = [idle EXCEPT !.note[k] = m]
    BY <2>1
  <2> HIDE DEF m
  <2>4. /\ idle'.note = [idle.note EXCEPT ![k] = m]
        /\ UNCHANGED <<idle.seats, idle.inhibited>> /\ IdTypeOK'
    BY <1>t, <2>2, <2>3 DEF IdTypeOK, IdStates
  <2>5. IdleTold'
    BY <1>t, <1>i, <2>2, <2>4, IdleUnfolded DEF NoteTold
  <2> QED
    BY <2>4, <2>5 DEF IdleIInv

<1>4. CASE SeatDestroyed
  <2>1. PICK x \in idle.seats :
          idle' = IdEvent([notification_handle_seat_destroy(x, idle) EXCEPT !.seats = @ \ {x}])
    BY <1>4 DEF SeatDestroyed
  <2> DEFINE inert == [NewNote EXCEPT !.st = "inert"]
             f == [k \in IdNote |-> IF idle.note[k].st = "live" /\ idle.note[k].seat = x
                                    THEN inert ELSE idle.note[k]]
  <2>2. inert \in Notes /\ inert.st = "inert"
    BY DEF NewNote, Notes
  <2>3. notification_handle_seat_destroy(x, idle) = [idle EXCEPT !.note = f]
    BY DEF notification_handle_seat_destroy
  <2> HIDE DEF inert
  <2>4. ASSUME NEW k \in IdNote
        PROVE  f[k] \in Notes /\ NoteTold(f[k], idle.inhibited, idle.seats \ {x})
    BY <1>t, <1>i, <2>2 DEF NoteTold
  <2>5. f \in [IdNote -> Notes]
    BY <2>4
  <2> HIDE DEF f
  <2> DEFINE d == [idle EXCEPT !.note = f]
             e == [d EXCEPT !.seats = @ \ {x}]
  <2>6. d \in IdStates /\ d.note = f /\ d.seats = idle.seats /\ d.inhibited = idle.inhibited
    BY <1>t, <2>5 DEF IdStates, IdTypeOK
  <2>7. idle' = IdEvent(e)
    BY <2>1, <2>3
  <2> HIDE DEF d
  <2>8. e \in IdStates /\ e.note = f /\ e.seats = idle.seats \ {x} /\ e.inhibited = idle.inhibited
    BY <1>t, <2>6 DEF IdStates
  <2> HIDE DEF e
  <2>9. idle' \in IdStates /\ idle'.note = f /\ idle'.seats = idle.seats \ {x}
        /\ idle'.inhibited = idle.inhibited
    BY <2>7, <2>8, EventTyped
  <2>10. IdleTold'
    BY <2>4, <2>9, IdleUnfolded
  <2> QED
    BY <2>9, <2>10 DEF IdleIInv, IdTypeOK
<1>5. CASE SetInhibited
  <2> DEFINE inh == idle.inhibitors # {}
             f == [k \in IdNote |-> IF idle.note[k].st = "live" /\ idle.note[k].obey_inhibitors
                                    THEN notification_reset_timer(idle.note[k], inh)
                                    ELSE idle.note[k]]
  <2>1. idle.inhibited # inh /\ inh \in BOOLEAN
    BY <1>5 DEF SetInhibited
  <2>2. idle' = [idle EXCEPT !.inhibited = inh, !.note = f]
    BY <1>5, <2>1 DEF SetInhibited, wlr_idle_notifier_v1_set_inhibited
  <2> HIDE DEF inh
  <2>3. ASSUME NEW k \in IdNote
        PROVE  f[k] \in Notes /\ NoteTold(f[k], inh, idle.seats)
    <3> DEFINE n == idle.note[k]
    <3>1. n \in Notes /\ NoteTold(n, idle.inhibited, idle.seats)
      BY <1>t, <1>i
    <3>2. CASE n.st = "live" /\ n.obey_inhibitors
      <4>1. ~inh => idle.inhibited
        BY <1>t, <2>1
      <4>2. n.seat \in idle.seats /\ (n.idle <=> n.told = "idled")
        BY <3>1, <3>2 DEF NoteTold
      <4>3. ~(inh /\ n.obey_inhibitors) /\ n.timed => ~n.idle
        BY <3>1, <3>2, <4>1 DEF NoteTold
      <4> QED
        BY <2>1, <3>1, <3>2, <4>2, <4>3, ResetTold
    <3>3. CASE ~(n.st = "live" /\ n.obey_inhibitors)
      BY <3>1, <3>3 DEF NoteTold
    <3> QED
      BY <3>2, <3>3
  <2>4. f \in [IdNote -> Notes]
    BY <2>3
  <2> HIDE DEF f
  <2>5. IdTypeOK' /\ idle'.note = f /\ idle'.seats = idle.seats /\ idle'.inhibited = inh
    BY <1>t, <2>1, <2>2, <2>4 DEF IdTypeOK, IdStates
  <2>6. IdleTold'
    BY <2>3, <2>5, IdleUnfolded
  <2> QED
    BY <2>5, <2>6 DEF IdleIInv
<1>6. CASE wlr_idle_notifier_v1_notify_activity
  <2> DEFINE Hit(n, x) == n.st = "live" /\ n.seat = x
             Heard(n, x) == Hit(n, x) /\ ~(idle.inhibited /\ n.obey_inhibitors)
             Stirred(n) == [n EXCEPT !.rested = FALSE]
             F(x) == [k \in IdNote |->
                        IF Heard(idle.note[k], x)
                        THEN notification_handle_activity(Stirred(idle.note[k]), idle.inhibited)
                        ELSE IF Hit(idle.note[k], x) THEN Stirred(idle.note[k]) ELSE idle.note[k]]
  <2>1. PICK x \in idle.seats : idle' = IdEvent([idle EXCEPT !.note = F(x)])
    BY <1>6 DEF wlr_idle_notifier_v1_notify_activity
  <2>2. ASSUME NEW k \in IdNote
        PROVE  F(x)[k] \in Notes /\ NoteTold(F(x)[k], idle.inhibited, idle.seats)
    <3> DEFINE n == idle.note[k]
               q == Stirred(n)
               off == notification_set_idle(q, FALSE)
    <3>1. n \in Notes /\ NoteTold(n, idle.inhibited, idle.seats)
      BY <1>t, <1>i
    <3>2. /\ q \in Notes /\ q.st = n.st /\ q.seat = n.seat /\ q.obey_inhibitors = n.obey_inhibitors
          /\ q.idle = n.idle /\ q.told = n.told /\ q.timed = n.timed /\ q.armed = n.armed
      BY <3>1 DEF Notes
    <3> HIDE DEF q
    <3>3. CASE Heard(n, x)
      <4>1. n.seat \in idle.seats /\ (n.idle <=> n.told = "idled")
        BY <3>1, <3>3 DEF NoteTold
      <4>2. off \in Notes /\ off.idle = FALSE /\ (off.idle <=> off.told = "idled") /\ off.seat = n.seat
        BY <3>2, <4>1, SetIdle
      <4>3. F(x)[k] = notification_reset_timer(off, idle.inhibited)
        BY <3>3 DEF notification_handle_activity, q
      <4> HIDE DEF off, F
      <4> QED
        BY <1>t, <4>1, <4>2, <4>3, ResetTold
    <3>4. CASE ~Heard(n, x) /\ Hit(n, x)
      <4>1. F(x)[k] = q
        BY <3>4 DEF q
      <4> HIDE DEF F
      <4> QED
        BY <3>1, <3>2, <3>4, <4>1 DEF NoteTold
    <3>5. CASE ~Hit(n, x)
      BY <3>1, <3>5
    <3> QED
      BY <3>3, <3>4, <3>5
  <2> DEFINE f == F(x)
  <2>3. f \in [IdNote -> Notes] /\ \A k \in IdNote : NoteTold(f[k], idle.inhibited, idle.seats)
    BY <2>2
  <2>4. idle' = IdEvent([idle EXCEPT !.note = f])
    BY <2>1
  <2> HIDE DEF f
  <2> DEFINE d == [idle EXCEPT !.note = f]
  <2>a. d \in IdStates /\ d.note = f /\ d.seats = idle.seats /\ d.inhibited = idle.inhibited
    BY <1>t, <2>3 DEF IdStates, IdTypeOK
  <2> HIDE DEF d
  <2>5. IdTypeOK' /\ idle'.note = f /\ UNCHANGED <<idle.seats, idle.inhibited>>
    BY <2>4, <2>a, EventTyped DEF IdTypeOK, d
  <2>6. IdleTold'
    BY <2>3, <2>5, IdleUnfolded
  <2> QED
    BY <2>5, <2>6 DEF IdleIInv
<1>7. CASE \/ manager_handle_create_inhibitor \/ idle_inhibitor_v1_handle_resource_destroy
           \/ InhibitorSurfaceDestroyed
  <2>2. IdTypeOK' /\ UNCHANGED <<idle.note, idle.inhibited, idle.seats>>
    <3>1. CASE manager_handle_create_inhibitor
      <4>1. PICK s \in idle.surfaces : idle' = IdEvent([idle EXCEPT !.inhibitors = @ \cup {s}])
        BY <3>1 DEF manager_handle_create_inhibitor
      <4> DEFINE d == [idle EXCEPT !.inhibitors = @ \cup {s}]
      <4>2. d \in IdStates /\ d.note = idle.note /\ d.inhibited = idle.inhibited /\ d.seats = idle.seats
        BY <1>t DEF IdTypeOK, IdStates
      <4> HIDE DEF d
      <4> QED
        BY <4>1, <4>2, EventTyped DEF d, IdTypeOK
    <3>2. CASE idle_inhibitor_v1_handle_resource_destroy
      BY <1>t, <3>2 DEF idle_inhibitor_v1_handle_resource_destroy, IdTypeOK, IdStates
    <3>3. CASE InhibitorSurfaceDestroyed
      <4>1. PICK x \in idle.surfaces :
              idle' = [[idle EXCEPT !.inhibitors = @ \ {x}] EXCEPT !.surfaces = @ \ {x}]
        BY <3>3 DEF InhibitorSurfaceDestroyed, idle_inhibitor_handle_surface_destroy
      <4> DEFINE d == [idle EXCEPT !.inhibitors = @ \ {x}]
      <4>2. d \in IdStates /\ d.note = idle.note /\ d.inhibited = idle.inhibited /\ d.seats = idle.seats
        BY <1>t DEF IdTypeOK, IdStates
      <4>3. idle' = [d EXCEPT !.surfaces = @ \ {x}]
        BY <4>1
      <4> HIDE DEF d
      <4> QED
        BY <1>t, <4>2, <4>3 DEF IdTypeOK, IdStates
    <3> QED
      BY <1>7, <3>1, <3>2, <3>3
  <2> QED
    BY <1>0, <2>2 DEF IdleIInv
<1>8. CASE UNCHANGED idle
  BY <1>0, <1>8 DEF IdleIInv, IdTypeOK, IdStates
<1> QED
  BY <1>1, <1>2, <1>3, <1>4, <1>5, <1>6, <1>7, <1>8 DEF IdNext

(* However timers, activity and inhibitors race, a client is told idle when *)
(* it has rested and nothing it obeys inhibits it, and not otherwise.       *)
THEOREM IdleIsTold == IdSpec => []IdleTold
<1>1. IdInit => IdleIInv
  <2> SUFFICES ASSUME IdInit PROVE IdleIInv
    OBVIOUS
  <2>1. /\ idle.note = [n \in IdNote |-> NewNote] /\ idle.seats = IdSeat
        /\ idle.surfaces = IdSurface /\ idle.inhibitors = {} /\ idle.inhibited = FALSE
        /\ IdTypeOK
    BY NewNoteTyped DEF IdInit, IdState, IdTypeOK, IdStates
  <2>2. IdleTold
    BY <2>1, NewNoteTyped, IdleUnfolded DEF NoteTold
  <2> QED
    BY <2>1, <2>2 DEF IdleIInv
<1>2. IdleIInv /\ [IdNext]_idle => IdleIInv'
  BY IdleStep
<1>3. IdleIInv => IdleTold
  BY DEF IdleIInv
<1> QED
  BY <1>1, <1>2, <1>3, PTL DEF IdSpec

-----------------------------------------------------------------------------
(***************************************************************************)
(* The ring of serials.  Everything is measured from the display's counter *)
(* backwards: Dist(cur, v) is the age of v.  Ages grow with every serial   *)
(* that is drawn and do not wrap around within one turn of the counter.    *)
(***************************************************************************)
W == SerialWidth
Values == 0..(W - 1)

LEMMA Widths == W \in Nat /\ W > 1 /\ RingSize \in Nat /\ RingSize > 0 /\ MaxSerials \in Nat /\ MaxSerials < W
BY SerialAssumption DEF W

LEMMA ModOf ==
    ASSUME NEW m \in Nat, m > 0, NEW x \in 0..(m - 1)
    PROVE  x % m = x /\ (x + m) % m = x /\ (x - m) % m = x /\ m % m = 0
OBVIOUS

LEMMA DistIs ==
    ASSUME NEW a \in Values, NEW b \in Values
    PROVE  Dist(a, b) = IF b <= a THEN a - b ELSE a - b + W
<1>1. CASE b <= a
  <2>1. a - b \in 0..(W - 1)
    BY <1>1, Widths DEF Values
  <2> QED
    BY <1>1, <2>1, Widths, ModOf DEF Dist, W
<1>2. CASE b > a
  <2>1. a - b + W \in 0..(W - 1) /\ (a - b + W) - W = a - b
    BY <1>2, Widths DEF Values
  <2>2. (a - b) % W = a - b + W
    BY <2>1, Widths, ModOf
  <2> QED
    BY <1>2, <2>2 DEF Dist, W, Values
<1> QED
  BY <1>1, <1>2, Widths DEF Values

LEMMA FollowingIs ==
    ASSUME NEW v \in Values
    PROVE  Following(v) = IF v = W - 1 THEN 0 ELSE v + 1
<1>1. CASE v = W - 1
  BY <1>1, Widths, ModOf DEF Following, W
<1>2. CASE v # W - 1
  <2>1. v + 1 \in 0..(W - 1)
    BY <1>2, Widths DEF Values
  <2> QED
    BY <1>2, <2>1, Widths, ModOf DEF Following, W
<1> QED
  BY <1>1, <1>2

(* The i-th newest range of the ring. *)
Place(e, i) == (e - i + RingSize) % RingSize

LEMMA PlaceIs ==
    ASSUME NEW e \in 0..(RingSize - 1), NEW i \in 0..(RingSize - 1)
    PROVE  Place(e, i) = IF i <= e THEN e - i ELSE e - i + RingSize
<1>1. CASE i <= e
  <2>1. e - i \in 0..(RingSize - 1)
    BY <1>1, Widths
  <2> QED
    BY <1>1, <2>1, Widths, ModOf DEF Place
<1>2. CASE i > e
  <2>1. e - i + RingSize \in 0..(RingSize - 1)
    BY <1>2, Widths
  <2> QED
    BY <1>2, <2>1, Widths, ModOf DEF Place
<1> QED
  BY <1>1, <1>2

At(s, i) == s.data[Place(s.end, i)]
Lo(s, i) == Dist(s.cur, At(s, i).max)
Hi(s, i) == Dist(s.cur, At(s, i).min)

Rings == [cur : Values, n : 0..MaxSerials, count : 0..RingSize, end : 0..(RingSize - 1),
          sent : SUBSET Values, data : [0..(RingSize - 1) -> [min : Values, max : Values]]]

(* No serial the client was sent is a turn old.  The client skips serial 0, *)
(* so that the counter may be one ahead of the number of serials drawn; it  *)
(* passes 0 no second time.                                                 *)
Recent(s) ==
    \/ \A v \in s.sent : Dist(s.cur, v) < s.n
    \/ 1 <= s.cur /\ s.cur <= s.n /\ \A v \in s.sent : Dist(s.cur, v) <= s.n

(* Ranges are intervals of ages, the newer before the older. *)
Sorted(s) ==
    \A i \in 0..(s.count - 1) :
        /\ Lo(s, i) <= Hi(s, i)
        /\ \A j \in 0..(s.count - 1) : i < j => Hi(s, i) < Lo(s, j)

Within(s, i, v) == Lo(s, i) <= Dist(s.cur, v) /\ Dist(s.cur, v) <= Hi(s, i)

(* What the ring does not hold and was sent, a full ring has forgotten. *)
Gone(s, v) == s.count = RingSize /\ \A i \in 0..(s.count - 1) : Dist(s.cur, v) > Hi(s, i)

Remembers(s) ==
    \A v \in Values :
        /\ (\E i \in 0..(s.count - 1) : Within(s, i, v)) => v \in s.sent
        /\ v \in s.sent => Gone(s, v) \/ \E i \in 0..(s.count - 1) : Within(s, i, v)

Kept(s) == s \in Rings /\ Recent(s) /\ Sorted(s) /\ Remembers(s)

LEMMA RingTyped ==
    ASSUME NEW s \in Rings
    PROVE  /\ s.cur \in Values /\ s.n \in Nat /\ s.n <= MaxSerials
           /\ s.count \in Nat /\ s.count <= RingSize
           /\ s.end \in 0..(RingSize - 1) /\ s.sent \subseteq Values
           /\ \A p \in 0..(RingSize - 1) : s.data[p].min \in Values /\ s.data[p].max \in Values
<1>1. /\ s.cur \in Values /\ s.n \in 0..MaxSerials /\ s.count \in 0..RingSize
      /\ s.end \in 0..(RingSize - 1) /\ s.sent \in SUBSET Values
      /\ s.data \in [0..(RingSize - 1) -> [min : Values, max : Values]]
  BY DEF Rings
<1> QED
  BY <1>1, Widths

LEMMA PlaceTyped ==
    ASSUME NEW e \in 0..(RingSize - 1), NEW i \in 0..(RingSize - 1)
    PROVE  Place(e, i) \in 0..(RingSize - 1)
BY PlaceIs, Widths

LEMMA DistTyped ==
    ASSUME NEW a \in Values, NEW b \in Values
    PROVE  Dist(a, b) \in Nat /\ Dist(a, b) < W /\ (Dist(a, b) = 0 <=> a = b)
<1>1. Dist(a, b) = IF b <= a THEN a - b ELSE a - b + W
  BY DistIs
<1> QED
  BY <1>1, Widths DEF Values

LEMMA RangesTyped ==
    ASSUME NEW s \in Rings, NEW i \in 0..(s.count - 1)
    PROVE  /\ i \in 0..(RingSize - 1)
           /\ At(s, i).min \in Values /\ At(s, i).max \in Values
           /\ Lo(s, i) \in Nat /\ Hi(s, i) \in Nat
<1>1. i \in 0..(RingSize - 1)
  BY RingTyped, Widths
<1>2. At(s, i).min \in Values /\ At(s, i).max \in Values
  BY <1>1, RingTyped, PlaceTyped DEF At
<1> QED
  BY <1>1, <1>2, RingTyped, DistTyped DEF Lo, Hi

(* The ends of a range were sent. *)
LEMMA EndsSent ==
    ASSUME NEW s, Kept(s), NEW i \in 0..(s.count - 1)
    PROVE  At(s, i).min \in s.sent /\ At(s, i).max \in s.sent
<1>1. s \in Rings /\ Sorted(s) /\ Remembers(s)
  BY DEF Kept
<1>2. /\ At(s, i).min \in Values /\ At(s, i).max \in Values
      /\ Lo(s, i) \in Nat /\ Hi(s, i) \in Nat /\ Lo(s, i) <= Hi(s, i)
  BY <1>1, RangesTyped DEF Sorted
<1>3. Within(s, i, At(s, i).min) /\ Within(s, i, At(s, i).max)
  BY <1>2 DEF Within, Lo, Hi
<1> QED
  BY <1>1, <1>2, <1>3 DEF Remembers

(* A serial is drawn: the counter goes on by one, or by two past zero.      *)
Draws(s, c, d) ==
    /\ s.n < MaxSerials /\ c \in Values
    /\ \/ d = 1 /\ c = Following(s.cur)
       \/ d = 2 /\ Following(s.cur) = 0 /\ c = 1

LEMMA Drawn ==
    ASSUME NEW s, Kept(s), NEW c, NEW d, Draws(s, c, d)
    PROVE  /\ \A w \in s.sent : Dist(c, w) = Dist(s.cur, w) + d
           /\ \A w \in Values : Dist(c, w) >= d => Dist(s.cur, w) = Dist(c, w) - d
           /\ \/ \A w \in s.sent : Dist(c, w) < s.n + 1
              \/ 1 <= c /\ c <= s.n + 1 /\ \A w \in s.sent : Dist(c, w) <= s.n + 1
<1>1. /\ s.cur \in Values /\ s.n \in Nat /\ s.sent \subseteq Values /\ Recent(s)
      /\ c \in Values /\ d \in {1, 2} /\ s.n < W - 1
  BY RingTyped, Widths DEF Kept, Draws
<1>2. IF d = 1 THEN c = IF s.cur = W - 1 THEN 0 ELSE s.cur + 1
               ELSE s.cur = W - 1 /\ c = 1
  <2>1. Following(s.cur) = IF s.cur = W - 1 THEN 0 ELSE s.cur + 1
    BY <1>1, FollowingIs
  <2> QED
    BY <1>1, <2>1, Widths DEF Draws, Values
<1>3. ASSUME NEW w \in Values
      PROVE  /\ Dist(s.cur, w) + d < W => Dist(c, w) = Dist(s.cur, w) + d
             /\ Dist(c, w) >= d => Dist(s.cur, w) = Dist(c, w) - d
  <2>1. /\ Dist(s.cur, w) = IF w <= s.cur THEN s.cur - w ELSE s.cur - w + W
        /\ Dist(c, w) = IF w <= c THEN c - w ELSE c - w + W
    BY <1>1, DistIs
  <2>2. s.cur \in 0..(W - 1) /\ c \in 0..(W - 1) /\ w \in 0..(W - 1)
    BY <1>1 DEF Values
  <2>3. CASE d = 1
    BY <1>2, <2>1, <2>2, <2>3, Widths
  <2>4. CASE d = 2
    BY <1>2, <2>1, <2>2, <2>4, Widths
  <2> QED
    BY <1>1, <2>3, <2>4
<1>4. \A w \in s.sent : Dist(s.cur, w) \in Nat /\ Dist(s.cur, w) <= s.n /\ (d = 2 => Dist(s.cur, w) < s.n)
  <2>1. \A w \in s.sent : Dist(s.cur, w) \in Nat
    BY <1>1, DistTyped
  <2>2. CASE \A w \in s.sent : Dist(s.cur, w) < s.n
    BY <1>1, <2>1, <2>2
  <2>3. CASE 1 <= s.cur /\ s.cur <= s.n /\ \A w \in s.sent : Dist(s.cur, w) <= s.n
    <3>1. d # 2
      BY <1>1, <1>2, <2>3 DEF Values
    <3> QED
      BY <2>1, <2>3, <3>1
  <2> QED
    BY <1>1, <2>2, <2>3 DEF Recent
<1>5. \A w \in s.sent : Dist(c, w) = Dist(s.cur, w) + d
  <2> SUFFICES ASSUME NEW w \in s.sent PROVE Dist(c, w) = Dist(s.cur, w) + d
    OBVIOUS
  <2>1. Dist(s.cur, w) + d < W
    BY <1>1, <1>4, Widths
  <2> QED
    BY <1>1, <1>3, <2>1
<1>6. \/ \A w \in s.sent : Dist(c, w) < s.n + 1
      \/ 1 <= c /\ c <= s.n + 1 /\ \A w \in s.sent : Dist(c, w) <= s.n + 1
  <2>1. CASE d = 2
    BY <1>1, <1>2, <1>4, <1>5, <2>1
  <2>2. CASE d = 1 /\ \A w \in s.sent : Dist(s.cur, w) < s.n
    BY <1>1, <1>4, <1>5, <2>2
  <2>3. CASE d = 1 /\ 1 <= s.cur /\ s.cur <= s.n /\ \A w \in s.sent : Dist(s.cur, w) <= s.n
    <3>1. c = s.cur + 1
      BY <1>1, <1>2, <2>3 DEF Values
    <3> QED
      BY <1>1, <1>4, <1>5, <2>3, <3>1 DEF Values
  <2> QED
    BY <1>1, <2>1, <2>2, <2>3 DEF Recent
<1> QED
  BY <1>3, <1>5, <1>6

(* Ages of the ranges that stay, in their old or a new place. *)
LEMMA Ages ==
    ASSUME NEW s, Kept(s), NEW c, NEW d, Draws(s, c, d), NEW i \in 0..(s.count - 1)
    PROVE  /\ Dist(c, At(s, i).max) = Lo(s, i) + d
           /\ Dist(c, At(s, i).min) = Hi(s, i) + d
BY EndsSent, Drawn DEF Lo, Hi

(* Somebody else draws a serial: the ring only grows older. *)
LEMMA OtherDraws ==
    ASSUME NEW s, Kept(s), NEW c, NEW d, Draws(s, c, d), NEW t \in Rings,
           t.cur = c, t.n = s.n + 1, t.sent = s.sent,
           t.count = s.count, t.end = s.end, t.data = s.data
    PROVE  Kept(t)
<1>1. s \in Rings /\ Sorted(s) /\ Remembers(s) /\ c \in Values /\ d \in {1, 2}
  BY DEF Kept, Draws
<1>2. s.count \in Nat /\ s.cur \in Values
  BY <1>1, RingTyped
<1>3. \A i \in 0..(s.count - 1) : /\ Lo(s, i) \in Nat /\ Hi(s, i) \in Nat
                                  /\ Lo(t, i) = Lo(s, i) + d /\ Hi(t, i) = Hi(s, i) + d
  BY <1>1, Ages, RangesTyped DEF Lo, Hi, At
<1>4. Recent(t)
  BY Drawn DEF Recent
<1>5. Sorted(t)
  BY <1>1, <1>2, <1>3 DEF Sorted
<1>6. ASSUME NEW w \in Values
      PROVE  /\ (\E i \in 0..(t.count - 1) : Within(t, i, w)) => w \in t.sent
             /\ w \in t.sent => Gone(t, w) \/ \E i \in 0..(t.count - 1) : Within(t, i, w)
  <2>1. Dist(s.cur, w) \in Nat /\ Dist(c, w) \in Nat
    BY <1>1, <1>2, DistTyped
  <2>2. ASSUME NEW i \in 0..(t.count - 1), Within(t, i, w)
        PROVE  w \in t.sent
    <3>1. Lo(s, i) + d <= Dist(c, w) /\ Dist(c, w) <= Hi(s, i) + d
      BY <1>3, <2>2 DEF Within
    <3>2. Dist(s.cur, w) = Dist(c, w) - d
      BY <1>1, <1>3, <2>1, <3>1, Drawn
    <3>3. Within(s, i, w)
      BY <1>1, <1>3, <2>1, <3>1, <3>2 DEF Within
    <3> QED
      BY <1>1, <3>3 DEF Remembers
  <2>3. ASSUME w \in t.sent
        PROVE  Gone(t, w) \/ \E i \in 0..(t.count - 1) : Within(t, i, w)
    <3>1. Dist(c, w) = Dist(s.cur, w) + d
      BY <2>3, Drawn
    <3>2. CASE Gone(s, w)
      BY <1>1, <1>3, <2>1, <3>1, <3>2 DEF Gone
    <3>3. CASE \E i \in 0..(s.count - 1) : Within(s, i, w)
      BY <1>1, <1>3, <2>1, <3>1, <3>3 DEF Within
    <3> QED
      BY <1>1, <2>3, <3>2, <3>3 DEF Remembers
  <2> QED
    BY <2>2, <2>3
<1>7. Remembers(t)
  BY <1>6 DEF Remembers
<1> QED
  BY <1>4, <1>5, <1>7 DEF Kept

(* The client draws the serial that follows its newest range. *)
LEMMA Extends ==
    ASSUME NEW s, Kept(s), NEW c, NEW d, Draws(s, c, d), c # 0, NEW t \in Rings,
           s.count > 0, Following(s.data[s.end].max) = c,
           t.cur = c, t.n = s.n + 1, t.sent = s.sent \cup {c},
           t.count = s.count, t.end = s.end,
           t.data = [s.data EXCEPT ![s.end] = [min |-> s.data[s.end].min, max |-> c]]
    PROVE  Kept(t)
<1>1. s \in Rings /\ Sorted(s) /\ Remembers(s) /\ c \in Values /\ d \in {1, 2}
  BY DEF Kept, Draws
<1>2. /\ s.count \in Nat /\ s.cur \in Values /\ s.end \in 0..(RingSize - 1)
      /\ s.data \in [0..(RingSize - 1) -> [min : Values, max : Values]] /\ s.n \in Nat
      /\ 0 \in 0..(s.count - 1) /\ 0 \in 0..(RingSize - 1)
      /\ \A i \in 0..(s.count - 1) : i \in 0..(RingSize - 1)
  BY <1>1, RingTyped, Widths DEF Rings
<1>3. At(s, 0) = s.data[s.end] /\ At(t, 0) = [min |-> At(s, 0).min, max |-> c]
  <2>1. Place(s.end, 0) = s.end
    BY <1>2, PlaceIs
  <2>2. At(s, 0) = s.data[s.end] /\ At(t, 0) = t.data[s.end]
    BY <2>1 DEF At
  <2> DEFINE r == [min |-> s.data[s.end].min, max |-> c]
  <2> HIDE DEF r
  <2>3. t.data = [s.data EXCEPT ![s.end] = r]
    BY DEF r
  <2>4. t.data[s.end] = r
    BY <1>2, <2>3
  <2> QED
    BY <2>2, <2>4 DEF r
<1>4. \A i \in 0..(s.count - 1) : i # 0 => At(t, i) = At(s, i)
  <2> SUFFICES ASSUME NEW i \in 0..(s.count - 1), i # 0 PROVE At(t, i) = At(s, i)
    OBVIOUS
  <2> DEFINE r == [min |-> s.data[s.end].min, max |-> c]
             p == Place(s.end, i)
  <2>1. i \in 0..(RingSize - 1)
    BY <1>2
  <2>2. p = IF i <= s.end THEN s.end - i ELSE s.end - i + RingSize
    BY <1>2, <2>1, PlaceIs
  <2>3. p \in 0..(RingSize - 1)
    BY <1>2, <2>1, PlaceTyped
  <2> HIDE DEF r, p
  <2>4. p # s.end
    BY <1>2, <2>1, <2>2, Widths
  <2>5. t.data = [s.data EXCEPT ![s.end] = r]
    BY DEF r
  <2>6. t.data[p] = s.data[p]
    BY <1>2, <2>3, <2>4, <2>5
  <2> QED
    BY <2>6 DEF At, p
<1>5. Dist(c, At(s, 0).max) = 1
  <2> DEFINE m == At(s, 0).max
  <2>1. m \in Values /\ Following(m) = c
    BY <1>1, <1>2, <1>3, RangesTyped
  <2>2. c = m + 1
    BY <2>1, FollowingIs
  <2> HIDE DEF m
  <2>3. Dist(c, m) = 1
    BY <1>1, <2>1, <2>2, DistIs DEF Values
  <2> QED
    BY <2>3 DEF m
<1>6. \A i \in 0..(s.count - 1) : Lo(s, i) \in Nat /\ Hi(s, i) \in Nat
  BY <1>1, RangesTyped
<1>7. d = 1 /\ Lo(s, 0) = 0
  BY <1>1, <1>2, <1>5, <1>6, Ages
<1>8. Dist(c, c) = 0
  BY <1>1, DistTyped
<1>9. /\ Lo(t, 0) = 0 /\ Hi(t, 0) = Hi(s, 0) + 1
      /\ \A i \in 0..(s.count - 1) : i # 0 => Lo(t, i) = Lo(s, i) + 1 /\ Hi(t, i) = Hi(s, i) + 1
  <2>1. Lo(t, 0) = 0
    BY <1>3, <1>8 DEF Lo
  <2>2. Hi(t, 0) = Hi(s, 0) + 1
    BY <1>2, <1>3, <1>7, Ages DEF Hi
  <2>3. \A i \in 0..(s.count - 1) : i # 0 => Lo(t, i) = Lo(s, i) + 1 /\ Hi(t, i) = Hi(s, i) + 1
    BY <1>4, <1>7, Ages DEF Lo, Hi
  <2> QED
    BY <2>1, <2>2, <2>3
<1>10. Recent(t)
  BY <1>2, <1>8, Drawn DEF Recent
<1>11. Sorted(t)
  BY <1>1, <1>2, <1>6, <1>9 DEF Sorted
<1>12. ASSUME NEW w \in Values
       PROVE  /\ (\E i \in 0..(t.count - 1) : Within(t, i, w)) => w \in t.sent
              /\ w \in t.sent => Gone(t, w) \/ \E i \in 0..(t.count - 1) : Within(t, i, w)
  <2>1. Dist(s.cur, w) \in Nat /\ Dist(c, w) \in Nat /\ (Dist(c, w) = 0 <=> w = c)
    BY <1>1, <1>2, DistTyped
  <2>2. ASSUME NEW i \in 0..(t.count - 1), Within(t, i, w), w # c
        PROVE  w \in t.sent
    <3>1. Dist(s.cur, w) = Dist(c, w) - 1
      BY <1>7, <2>1, <2>2, Drawn
    <3>2. Within(s, i, w)
      <4>1. CASE i = 0
        BY <1>2, <1>6, <1>7, <1>9, <2>1, <2>2, <3>1, <4>1 DEF Within
      <4>2. CASE i # 0
        BY <1>6, <1>9, <2>1, <2>2, <3>1, <4>2 DEF Within
      <4> QED
        BY <4>1, <4>2
    <3> QED
      BY <1>1, <3>2 DEF Remembers
  <2>3. Within(t, 0, c)
    BY <1>2, <1>6, <1>8, <1>9 DEF Within
  <2>4. ASSUME w \in s.sent
        PROVE  Gone(t, w) \/ \E i \in 0..(t.count - 1) : Within(t, i, w)
    <3>1. Dist(c, w) = Dist(s.cur, w) + 1
      BY <1>7, <2>4, Drawn
    <3>2. CASE Gone(s, w)
      BY <1>2, <1>6, <1>9, <2>1, <3>1, <3>2, SMTT(30) DEF Gone
    <3>3. ASSUME NEW i \in 0..(s.count - 1), Within(s, i, w)
          PROVE  Within(t, i, w)
      BY <1>6, <1>9, <2>1, <3>1, <3>3 DEF Within
    <3> QED
      BY <1>1, <2>4, <3>2, <3>3 DEF Remembers
  <2> QED
    BY <1>2, <2>2, <2>3, <2>4
<1>13. Remembers(t)
  BY <1>12 DEF Remembers
<1> QED
  BY <1>10, <1>11, <1>13 DEF Kept

(* The place after the newest range, and how places move with it. *)
LEMMA NextPlace ==
    ASSUME NEW e \in 0..(RingSize - 1)
    PROVE  /\ (e + 1) % RingSize = IF e = RingSize - 1 THEN 0 ELSE e + 1
           /\ (e + 1) % RingSize \in 0..(RingSize - 1)
<1>1. CASE e = RingSize - 1
  BY <1>1, Widths, ModOf
<1>2. CASE e # RingSize - 1
  <2>1. e + 1 \in 0..(RingSize - 1)
    BY <1>2, Widths
  <2> QED
    BY <1>2, <2>1, Widths, ModOf
<1> QED
  BY <1>1, <1>2

LEMMA PlacesMove ==
    ASSUME NEW e \in 0..(RingSize - 1), NEW n, n = (e + 1) % RingSize, NEW i \in 1..(RingSize - 1)
    PROVE  Place(n, i) = Place(e, i - 1) /\ Place(n, i) # n /\ Place(n, i) \in 0..(RingSize - 1)
<1> DEFINE p == Place(n, i)
           q == Place(e, i - 1)
           m == IF e = RingSize - 1 THEN 0 ELSE e + 1
<1>1. n = m /\ n \in 0..(RingSize - 1) /\ i \in 0..(RingSize - 1) /\ i - 1 \in 0..(RingSize - 1)
  BY NextPlace, Widths
<1>2. p = IF i <= m THEN m - i ELSE m - i + RingSize
  BY <1>1, PlaceIs
<1>3. q = IF i - 1 <= e THEN e - (i - 1) ELSE e - (i - 1) + RingSize
  BY <1>1, PlaceIs
<1>4. RingSize \in Nat
  BY Widths
<1> HIDE DEF p, q
<1>5. p = q /\ p # m
  <2>1. CASE e = RingSize - 1
    BY <1>2, <1>3, <1>4, <2>1
  <2>2. CASE e # RingSize - 1
    BY <1>2, <1>3, <1>4, <2>2
  <2> QED
    BY <2>1, <2>2
<1> QED
  BY <1>1, <1>5, PlaceTyped DEF p, q

(* The client draws another serial: the ranges move one place back, and a   *)
(* full ring drops its oldest one.                                          *)
LEMMA StartsRange ==
    ASSUME NEW s, Kept(s), NEW c, NEW d, Draws(s, c, d), NEW t \in Rings, NEW next,
           next = IF s.count = 0 THEN 0 ELSE (s.end + 1) % RingSize,
           t.cur = c, t.n = s.n + 1, t.sent = s.sent \cup {c},
           t.count = IF s.count < RingSize THEN s.count + 1 ELSE s.count,
           t.end = next, t.data = [s.data EXCEPT ![next] = Range1(c)]
    PROVE  Kept(t)
<1>1. s \in Rings /\ Sorted(s) /\ Remembers(s) /\ c \in Values /\ d \in {1, 2}
  BY DEF Kept, Draws
<1>2. /\ s.count \in Nat /\ s.count <= RingSize /\ s.cur \in Values /\ s.end \in 0..(RingSize - 1)
      /\ s.data \in [0..(RingSize - 1) -> [min : Values, max : Values]] /\ s.n \in Nat
  BY <1>1, RingTyped DEF Rings
<1>3. /\ t.count \in Nat /\ t.count <= RingSize /\ 0 \in 0..(t.count - 1)
      /\ \A i \in 0..(t.count - 1) : i # 0 => /\ i - 1 \in 0..(s.count - 1) /\ s.count > 0
                                              /\ i \in 0..(RingSize - 1) /\ i - 1 \in 0..(RingSize - 1)
      /\ \A i \in 0..(s.count - 1) : i + 1 \in 0..(t.count - 1) \/ (i = RingSize - 1 /\ s.count = RingSize)
  BY <1>2, Widths, SMTT(30)
<1>4. next \in 0..(RingSize - 1)
  <2>1. CASE s.count = 0
    BY <1>2, <2>1, Widths
  <2>2. CASE s.count # 0
    BY <1>2, <2>2, NextPlace
  <2> QED
    BY <2>1, <2>2
<1>5. At(t, 0) = Range1(c)
  <2>1. Place(next, 0) = next
    BY <1>4, Widths, PlaceIs
  <2> DEFINE r == Range1(c)
  <2> HIDE DEF r
  <2>2. t.data = [s.data EXCEPT ![next] = r]
    BY DEF r
  <2>3. t.data[next] = r
    BY <1>2, <1>4, <2>2
  <2> QED
    BY <2>1, <2>3 DEF At, r
<1>6. \A i \in 0..(t.count - 1) : i # 0 => At(t, i) = At(s, i - 1)
  <2> SUFFICES ASSUME NEW i \in 0..(t.count - 1), i # 0 PROVE At(t, i) = At(s, i - 1)
    OBVIOUS
  <2> DEFINE r == Range1(c)
             p == Place(next, i)
             q == Place(s.end, i - 1)
  <2>1. s.count # 0 /\ i \in 1..(RingSize - 1)
    BY <1>3
  <2>2. next = (s.end + 1) % RingSize
    BY <2>1
  <2>3. p = q /\ p # next /\ p \in 0..(RingSize - 1)
    BY <1>2, <2>1, <2>2, PlacesMove
  <2> HIDE DEF r, p, q
  <2>7. t.data = [s.data EXCEPT ![next] = r]
    BY DEF r
  <2>8. t.data[p] = s.data[p]
    BY <1>2, <2>3, <2>7
  <2> QED
    BY <2>3, <2>8 DEF At, p, q
<1>7. \A i \in 0..(s.count - 1) : Lo(s, i) \in Nat /\ Hi(s, i) \in Nat
  BY <1>1, RangesTyped
<1>8. Dist(c, c) = 0
  BY <1>1, DistTyped
<1>9. /\ Lo(t, 0) = 0 /\ Hi(t, 0) = 0
      /\ \A i \in 0..(t.count - 1) : i # 0 => Lo(t, i) = Lo(s, i - 1) + d /\ Hi(t, i) = Hi(s, i - 1) + d
  <2>1. Lo(t, 0) = 0 /\ Hi(t, 0) = 0
    BY <1>5, <1>8 DEF Lo, Hi, Range1
  <2>2. \A i \in 0..(t.count - 1) : i # 0 => Lo(t, i) = Lo(s, i - 1) + d /\ Hi(t, i) = Hi(s, i - 1) + d
    <3> SUFFICES ASSUME NEW i \in 0..(t.count - 1), i # 0
                 PROVE  Lo(t, i) = Lo(s, i - 1) + d /\ Hi(t, i) = Hi(s, i - 1) + d
      OBVIOUS
    <3>1. i - 1 \in 0..(s.count - 1)
      BY <1>3
    <3>2. Dist(c, At(s, i - 1).max) = Lo(s, i - 1) + d /\ Dist(c, At(s, i - 1).min) = Hi(s, i - 1) + d
      BY <3>1, Ages
    <3> QED
      BY <1>6, <3>2 DEF Lo, Hi
  <2> QED
    BY <2>1, <2>2
<1>10. Recent(t)
  BY <1>2, <1>8, Drawn DEF Recent
<1>11. Sorted(t)
  <2>1. ASSUME NEW i \in 0..(t.count - 1) PROVE Lo(t, i) <= Hi(t, i)
    BY <1>1, <1>3, <1>7, <1>9 DEF Sorted
  <2>2. ASSUME NEW i \in 0..(t.count - 1), NEW j \in 0..(t.count - 1), i < j PROVE Hi(t, i) < Lo(t, j)
    <3>1. j # 0 /\ j - 1 \in 0..(s.count - 1) /\ Lo(t, j) = Lo(s, j - 1) + d /\ Lo(s, j - 1) \in Nat
      BY <1>3, <1>7, <1>9, <2>2
    <3>2. CASE i = 0
      BY <1>1, <1>9, <3>1, <3>2
    <3>3. CASE i # 0
      <4>1. i - 1 \in 0..(s.count - 1) /\ Hi(t, i) = Hi(s, i - 1) + d /\ Hi(s, i - 1) \in Nat
        BY <1>3, <1>7, <1>9, <3>3
      <4>2. Hi(s, i - 1) < Lo(s, j - 1)
        BY <1>1, <2>2, <3>1, <4>1 DEF Sorted
      <4> QED
        BY <1>1, <3>1, <4>1, <4>2
    <3> QED
      BY <3>2, <3>3
  <2> QED
    BY <2>1, <2>2 DEF Sorted
<1>12. ASSUME NEW w \in Values
       PROVE  /\ (\E i \in 0..(t.count - 1) : Within(t, i, w)) => w \in t.sent
              /\ w \in t.sent => Gone(t, w) \/ \E i \in 0..(t.count - 1) : Within(t, i, w)
  <2>1. Dist(s.cur, w) \in Nat /\ Dist(c, w) \in Nat /\ (Dist(c, w) = 0 <=> w = c)
    BY <1>1, <1>2, DistTyped
  <2>2. ASSUME NEW i \in 0..(t.count - 1), Within(t, i, w)
        PROVE  w \in t.sent
    <3>1. CASE i = 0
      BY <1>9, <2>1, <2>2, <3>1 DEF Within
    <3>2. CASE i # 0
      <4>1. i - 1 \in 0..(s.count - 1) /\ Lo(s, i - 1) \in Nat /\ Hi(s, i - 1) \in Nat
        BY <1>3, <1>7, <3>2
      <4>2. Lo(s, i - 1) + d <= Dist(c, w) /\ Dist(c, w) <= Hi(s, i - 1) + d
        BY <1>9, <2>2, <3>2 DEF Within
      <4>3. Dist(s.cur, w) = Dist(c, w) - d
        BY <1>1, <2>1, <4>1, <4>2, Drawn
      <4>4. Within(s, i - 1, w)
        BY <1>1, <2>1, <4>1, <4>2, <4>3 DEF Within
      <4> QED
        BY <1>1, <4>1, <4>4 DEF Remembers
    <3> QED
      BY <3>1, <3>2
  <2>3. Within(t, 0, c)
    BY <1>8, <1>9 DEF Within
  <2>4. ASSUME w \in s.sent
        PROVE  Gone(t, w) \/ \E i \in 0..(t.count - 1) : Within(t, i, w)
    <3>1. Dist(c, w) = Dist(s.cur, w) + d
      BY <2>4, Drawn
    <3>2. CASE Gone(s, w)
      <4>1. s.count = RingSize /\ t.count = RingSize
        BY <1>2, <3>2 DEF Gone
      <4>2. ASSUME NEW i \in 0..(t.count - 1) PROVE Dist(c, w) > Hi(t, i)
        <5>1. CASE i = 0
          BY <1>1, <1>9, <2>1, <3>1, <5>1
        <5>2. CASE i # 0
          BY <1>1, <1>3, <1>7, <1>9, <2>1, <3>1, <3>2, <5>2 DEF Gone
        <5> QED
          BY <5>1, <5>2
      <4> QED
        BY <4>1, <4>2 DEF Gone
    <3>3. ASSUME NEW i \in 0..(s.count - 1), Within(s, i, w), i + 1 \in 0..(t.count - 1)
          PROVE  Within(t, i + 1, w)
      <4>1. i + 1 # 0 /\ (i + 1) - 1 = i
        BY <1>2
      <4>2. Lo(t, i + 1) = Lo(s, i) + d /\ Hi(t, i + 1) = Hi(s, i) + d
        BY <1>9, <3>3, <4>1
      <4> QED
        BY <1>1, <1>7, <2>1, <3>1, <3>3, <4>2 DEF Within
    <3>4. ASSUME NEW i \in 0..(s.count - 1), Within(s, i, w), i = RingSize - 1, s.count = RingSize
          PROVE  Gone(t, w)
      <4>1. t.count = RingSize
        BY <1>2, <3>4
      <4>2. ASSUME NEW j \in 0..(t.count - 1) PROVE Dist(c, w) > Hi(t, j)
        <5>1. CASE j = 0
          BY <1>1, <1>9, <2>1, <3>1, <5>1
        <5>2. CASE j # 0
          <6>1. j - 1 \in 0..(s.count - 1) /\ j - 1 < i /\ Hi(t, j) = Hi(s, j - 1) + d
            BY <1>3, <1>9, <3>4, <4>1, <5>2, Widths
          <6>2. Hi(s, j - 1) < Lo(s, i) /\ Hi(s, j - 1) \in Nat /\ Lo(s, i) \in Nat
            BY <1>1, <1>7, <6>1 DEF Sorted
          <6>3. Lo(s, i) <= Dist(s.cur, w)
            BY <3>4 DEF Within
          <6> QED
            BY <1>1, <2>1, <3>1, <6>1, <6>2, <6>3
        <5> QED
          BY <5>1, <5>2
      <4> QED
        BY <4>1, <4>2 DEF Gone
    <3>5. CASE \E i \in 0..(s.count - 1) : Within(s, i, w)
      <4>1. PICK i \in 0..(s.count - 1) : Within(s, i, w)
        BY <3>5
      <4>2. CASE i + 1 \in 0..(t.count - 1)
        BY <3>3, <4>1, <4>2
      <4>3. CASE i = RingSize - 1 /\ s.count = RingSize
        BY <3>4, <4>1, <4>3
      <4> QED
        BY <1>3, <4>2, <4>3
    <3> QED
      BY <1>1, <2>4, <3>2, <3>5 DEF Remembers
  <2>5. w \in t.sent <=> w \in s.sent \/ w = c
    OBVIOUS
  <2> QED
    BY <1>3, <2>2, <2>3, <2>4, <2>5
<1>13. Remembers(t)
  BY <1>12 DEF Remembers
<1> QED
  BY <1>10, <1>11, <1>13 DEF Kept

LEMMA ExtendsRing ==
    ASSUME NEW s \in Rings, NEW v \in Values, s.count > 0, Following(s.data[s.end].max) = v
    PROVE  record_serial(s, v) =
             [s EXCEPT !.data = [s.data EXCEPT ![s.end] = [min |-> s.data[s.end].min, max |-> v]]]
<1>1. record_serial(s, v) = [s EXCEPT !.data[s.end].max = v]
  BY DEF record_serial
<1>2. s.end \in 0..(RingSize - 1) /\ s.data \in [0..(RingSize - 1) -> [min : Values, max : Values]]
  BY DEF Rings
<1> DEFINE x == s.data[s.end]
<1>3. x \in [min : Values, max : Values]
  BY <1>2
<1> HIDE DEF x
<1>4. [x EXCEPT !.max = v] = [min |-> x.min, max |-> v]
  BY <1>3
<1>5. [s EXCEPT !.data[s.end].max = v] = [s EXCEPT !.data = [s.data EXCEPT ![s.end] = [s.data[s.end] EXCEPT !.max = v]]]
  OBVIOUS
<1> QED
  BY <1>1, <1>4, <1>5 DEF x

LEMMA StartsRing ==
    ASSUME NEW s \in Rings, NEW v \in Values, ~(s.count > 0 /\ Following(s.data[s.end].max) = v),
           NEW next, next = IF s.count = 0 THEN 0 ELSE (s.end + 1) % RingSize
    PROVE  record_serial(s, v) =
             [s EXCEPT !.count = IF s.count < RingSize THEN s.count + 1 ELSE s.count, !.end = next,
                       !.data = [s.data EXCEPT ![next] = Range1(v)]]
BY DEF record_serial

LEMMA SerialStart == SerialInit => Kept(serials)
<1> SUFFICES ASSUME NEW v \in Values,
                    serials = [cur |-> v, n |-> 0, count |-> 0, end |-> 0, sent |-> {},
                               data |-> [i \in 0..(RingSize - 1) |-> Range1(0)]]
             PROVE  Kept(serials)
  BY DEF SerialInit, NewRing, Values, W
<1>1. serials.sent = {} /\ serials.count = 0
  OBVIOUS
<1>2. serials \in Rings
  <2>1. Range1(0) \in [min : Values, max : Values]
    BY Widths DEF Range1, Values
  <2>2. [i \in 0..(RingSize - 1) |-> Range1(0)] \in [0..(RingSize - 1) -> [min : Values, max : Values]]
    BY <2>1
  <2> DEFINE f == [i \in 0..(RingSize - 1) |-> Range1(0)]
  <2> HIDE DEF f
  <2> QED
    BY <2>2, Widths DEF Rings, f
<1> QED
  BY <1>1, <1>2 DEF Kept, Recent, Sorted, Remembers

LEMMA SerialStep ==
    ASSUME Kept(serials), SerialNext
    PROVE  Kept(serials')
<1> DEFINE s == serials
<1>1. s \in Rings
  BY DEF Kept
<1>2. /\ s.cur \in Values /\ s.n \in Nat /\ s.n <= MaxSerials /\ s.count \in Nat /\ s.count <= RingSize
      /\ s.end \in 0..(RingSize - 1) /\ s.sent \subseteq Values
      /\ s.data \in [0..(RingSize - 1) -> [min : Values, max : Values]]
  BY <1>1, RingTyped DEF Rings
<1>3. Following(s.cur) \in Values
  <2>1. Following(s.cur) = IF s.cur = W - 1 THEN 0 ELSE s.cur + 1
    BY <1>2, FollowingIs
  <2> QED
    BY <1>2, <2>1, Widths DEF Values
<1>4. CASE wl_display_next_serial
  <2>1. serials' = [s EXCEPT !.cur = Following(s.cur), !.n = s.n + 1] /\ s.n < MaxSerials
    BY <1>4 DEF wl_display_next_serial
  <2>2. s.n + 1 \in 0..MaxSerials
    BY <1>2, <2>1, Widths
  <2>3. serials' \in Rings
    BY <1>1, <1>3, <2>1, <2>2 DEF Rings
  <2>4. /\ serials'.cur = Following(s.cur) /\ serials'.n = s.n + 1 /\ serials'.sent = s.sent
        /\ serials'.count = s.count /\ serials'.end = s.end /\ serials'.data = s.data
    BY <1>1, <2>1 DEF Rings
  <2>5. Draws(s, Following(s.cur), 1)
    BY <1>3, <2>1 DEF Draws
  <2> QED
    BY <2>3, <2>4, <2>5, OtherDraws
<1>5. CASE wlr_seat_client_next_serial
  <2> DEFINE v == IF Following(s.cur) = 0 THEN 1 ELSE Following(s.cur)
             d == IF Following(s.cur) = 0 THEN 2 ELSE 1
  <2>1. /\ serials' = [record_serial(s, v) EXCEPT !.cur = v, !.n = @ + 1, !.sent = @ \cup {v}]
        /\ s.n < MaxSerials
    BY <1>5 DEF wlr_seat_client_next_serial
  <2>2. v \in Values /\ v # 0 /\ Draws(s, v, d)
    BY <1>3, <2>1, Widths DEF Draws, Values
  <2>3. s.n + 1 \in 0..MaxSerials /\ s.sent \cup {v} \in SUBSET Values
    BY <1>2, <2>1, <2>2, Widths
  <2> HIDE DEF v, d
  <2>4. CASE s.count > 0 /\ Following(s.data[s.end].max) = v
    <3> DEFINE r == [min |-> s.data[s.end].min, max |-> v]
               f == [s.data EXCEPT ![s.end] = r]
    <3>1. record_serial(s, v) = [s EXCEPT !.data = f]
      BY <1>1, <2>2, <2>4, ExtendsRing
    <3>2. r \in [min : Values, max : Values]
      BY <1>2, <2>2
    <3> HIDE DEF r
    <3>3. f \in [0..(RingSize - 1) -> [min : Values, max : Values]]
      BY <1>2, <3>2
    <3> HIDE DEF f
    <3>4. serials' = [s EXCEPT !.data = f, !.cur = v, !.n = s.n + 1, !.sent = s.sent \cup {v}]
      BY <1>1, <2>1, <3>1 DEF Rings
    <3>5. serials' \in Rings
      BY <1>1, <2>2, <2>3, <3>3, <3>4 DEF Rings
    <3>6. /\ serials'.cur = v /\ serials'.n = s.n + 1 /\ serials'.sent = s.sent \cup {v}
          /\ serials'.count = s.count /\ serials'.end = s.end /\ serials'.data = f
      BY <1>1, <3>4 DEF Rings
    <3>7. serials'.data = [s.data EXCEPT ![s.end] = [min |-> s.data[s.end].min, max |-> v]]
      BY <3>6 DEF f, r
    <3> QED
      BY <2>2, <2>4, <3>5, <3>6, <3>7, Extends
  <2>5. CASE ~(s.count > 0 /\ Following(s.data[s.end].max) = v)
    <3> DEFINE next == IF s.count = 0 THEN 0 ELSE (s.end + 1) % RingSize
               many == IF s.count < RingSize THEN s.count + 1 ELSE s.count
               f == [s.data EXCEPT ![next] = Range1(v)]
    <3>1. record_serial(s, v) = [s EXCEPT !.count = many, !.end = next, !.data = f]
      BY <1>1, <2>2, <2>5, StartsRing
    <3>a. next \in 0..(RingSize - 1)
      BY <1>2, NextPlace, Widths, SMTT(30)
    <3>b. many \in 0..RingSize
      BY <1>2, Widths
    <3>2. next \in 0..(RingSize - 1) /\ many \in 0..RingSize
      BY <3>a, <3>b
    <3> HIDE DEF next, many
    <3>3. Range1(v) \in [min : Values, max : Values]
      BY <2>2 DEF Range1
    <3>4. f \in [0..(RingSize - 1) -> [min : Values, max : Values]]
      BY <1>2, <3>2, <3>3
    <3> HIDE DEF f
    <3>5. serials' = [s EXCEPT !.count = many, !.end = next, !.data = f,
                               !.cur = v, !.n = s.n + 1, !.sent = s.sent \cup {v}]
      BY <1>1, <2>1, <3>1 DEF Rings
    <3>6. serials' \in Rings
      BY <1>1, <2>2, <2>3, <3>2, <3>4, <3>5 DEF Rings
    <3>7. /\ serials'.cur = v /\ serials'.n = s.n + 1 /\ serials'.sent = s.sent \cup {v}
          /\ serials'.count = many /\ serials'.end = next /\ serials'.data = f
      BY <1>1, <3>5 DEF Rings
    <3>8. serials'.data = [s.data EXCEPT ![next] = Range1(v)]
      BY <3>7 DEF f
    <3> QED
      BY <2>2, <3>6, <3>7, <3>8, StartsRange DEF next, many
  <2> QED
    BY <2>4, <2>5
<1> QED
  BY <1>4, <1>5 DEF SerialNext

(* A set of naturals has a least member. *)
LEMMA Least ==
    ASSUME NEW T, T \subseteq Nat, T # {}
    PROVE  \E x \in T : \A y \in T : x <= y
<1>1. PICK x \in T : \A y \in T : ~(<<y, x>> \in OpToRel(<, Nat))
  <2> DEFINE R == OpToRel(<, Nat)
  <2>1. IsWellFoundedOn(R, Nat)
    BY NatLessThanWellFounded
  <2> HIDE DEF R
  <2>2. \E x \in T : \A y \in T : ~(<<y, x>> \in R)
    BY <2>1, WFMin
  <2> QED
    BY <2>2 DEF R
<1>2. ASSUME NEW y \in T PROVE x <= y
  <2>1. ~(y < x)
    BY <1>1 DEF OpToRel
  <2> QED
    BY <2>1
<1> QED
  BY <1>2

(* The search's verdict, from its hits and the newest of them. *)
LEMMA Searched ==
    ASSUME Kept(serials), NEW v \in Values, Dist(serials.cur, v) < (W - 1) \div 2
    PROVE  \/ /\ \A i \in 0..(serials.count - 1) : Dist(serials.cur, v) > Hi(serials, i)
              /\ wlr_seat_client_validate_event_serial(v) <=> serials.count = RingSize
           \/ \E k \in 0..(serials.count - 1) :
                /\ Dist(serials.cur, v) <= Hi(serials, k)
                /\ \A j \in 0..(serials.count - 1) : j < k => Dist(serials.cur, v) > Hi(serials, j)
                /\ wlr_seat_client_validate_event_serial(v) <=> Within(serials, k, v)
<1> DEFINE s == serials
           age == Dist(s.cur, v)
           hits == {i \in 0..(s.count - 1) : age < Lo(s, i) \/ age <= Hi(s, i)}
           first == CHOOSE i \in hits : \A j \in hits : i <= j
<1>1. s \in Rings /\ Sorted(s) /\ s.count \in Nat /\ age \in Nat
  BY RingTyped, DistTyped DEF Kept
<1>2. \A i \in 0..(s.count - 1) : Lo(s, i) \in Nat /\ Hi(s, i) \in Nat /\ Lo(s, i) <= Hi(s, i)
  BY <1>1, RangesTyped DEF Sorted
<1>3. wlr_seat_client_validate_event_serial(v) <=>
        IF hits = {} THEN s.count = RingSize ELSE ~(age < Lo(s, first))
  BY DEF wlr_seat_client_validate_event_serial, Lo, Hi, At, Place, W
<1>4. \A i \in 0..(s.count - 1) : i \in hits <=> age <= Hi(s, i)
  BY <1>1, <1>2
<1>5. hits \subseteq 0..(s.count - 1)
  OBVIOUS
<1> HIDE DEF hits, first
<1>6. CASE hits = {}
  BY <1>1, <1>2, <1>3, <1>4, <1>6
<1>7. CASE hits # {}
  <2>1. hits \subseteq Nat
    BY <1>1, <1>5
  <2>2. \E x \in hits : \A y \in hits : x <= y
    BY <1>7, <2>1, Least
  <2>3. first \in hits /\ \A j \in hits : first <= j
    BY <2>2 DEF first
  <2>4. first \in 0..(s.count - 1) /\ age <= Hi(s, first)
    BY <1>4, <1>5, <2>3
  <2>5. ASSUME NEW j \in 0..(s.count - 1), j < first PROVE age > Hi(s, j)
    BY <1>1, <1>2, <1>4, <2>3, <2>4, <2>5
  <2>6. wlr_seat_client_validate_event_serial(v) <=> Within(s, first, v)
    BY <1>1, <1>2, <1>3, <1>7, <2>4 DEF Within
  <2> QED
    BY <2>4, <2>5, <2>6
<1> QED
  BY <1>6, <1>7

(* Every place of a full ring is the place of one of its ranges. *)
LEMMA Placed ==
    ASSUME NEW e \in 0..(RingSize - 1), NEW p \in 0..(RingSize - 1)
    PROVE  \E i \in 0..(RingSize - 1) : Place(e, i) = p
<1> DEFINE i == Place(e, p)
<1>1. i = IF p <= e THEN e - p ELSE e - p + RingSize
  BY PlaceIs
<1>2. i \in 0..(RingSize - 1)
  BY PlaceTyped
<1> HIDE DEF i
<1> DEFINE q == Place(e, i)
<1>3. q = IF i <= e THEN e - i ELSE e - i + RingSize
  BY <1>2, PlaceIs
<1> HIDE DEF q
<1>4. q = p
  BY <1>1, <1>2, <1>3, Widths
<1> QED
  BY <1>2, <1>4 DEF q

LEMMA KeptRecognises == Kept(serials) => SerialsRecognised
<1> SUFFICES ASSUME Kept(serials), NEW v \in Values, Dist(serials.cur, v) < (W - 1) \div 2
             PROVE  /\ v \in serials.sent => wlr_seat_client_validate_event_serial(v)
                    /\ wlr_seat_client_validate_event_serial(v) =>
                         \/ v \in serials.sent
                         \/ /\ serials.count = RingSize
                            /\ \A p \in 0..(RingSize - 1) :
                                 Dist(serials.cur, v) > Dist(serials.cur, serials.data[p].min)
  BY DEF SerialsRecognised, Values, W
<1> DEFINE s == serials
           age == Dist(s.cur, v)
<1>1. s \in Rings /\ Sorted(s) /\ Remembers(s) /\ s.count \in Nat /\ age \in Nat /\ s.end \in 0..(RingSize - 1)
  BY RingTyped, DistTyped DEF Kept
<1>2. \A i \in 0..(s.count - 1) : Lo(s, i) \in Nat /\ Hi(s, i) \in Nat /\ Lo(s, i) <= Hi(s, i)
  BY <1>1, RangesTyped DEF Sorted
<1>3. CASE /\ \A i \in 0..(s.count - 1) : age > Hi(s, i)
           /\ wlr_seat_client_validate_event_serial(v) <=> s.count = RingSize
  <2>1. \A i \in 0..(s.count - 1) : ~Within(s, i, v)
    BY <1>1, <1>2, <1>3 DEF Within
  <2>2. v \in s.sent => s.count = RingSize
    BY <1>1, <2>1 DEF Remembers, Gone
  <2>3. ASSUME s.count = RingSize, NEW p \in 0..(RingSize - 1)
        PROVE  age > Dist(s.cur, s.data[p].min)
    <3>1. PICK i \in 0..(RingSize - 1) : Place(s.end, i) = p
      BY <1>1, Placed
    <3>2. age > Hi(s, i)
      BY <1>3, <2>3, <3>1
    <3> QED
      BY <3>1, <3>2 DEF Hi, At
  <2> QED
    BY <1>3, <2>2, <2>3
<1>4. ASSUME NEW k \in 0..(s.count - 1), age <= Hi(s, k),
             \A j \in 0..(s.count - 1) : j < k => age > Hi(s, j),
             wlr_seat_client_validate_event_serial(v) <=> Within(s, k, v)
      PROVE  v \in s.sent <=> wlr_seat_client_validate_event_serial(v)
  <2>1. Within(s, k, v) => v \in s.sent
    BY <1>1 DEF Remembers
  <2>2. ASSUME v \in s.sent PROVE Within(s, k, v)
    <3>1. ~Gone(s, v)
      BY <1>1, <1>2, <1>4 DEF Gone
    <3>2. PICK i \in 0..(s.count - 1) : Within(s, i, v)
      BY <1>1, <2>2, <3>1 DEF Remembers
    <3>3. Lo(s, i) <= age /\ age <= Hi(s, i)
      BY <3>2 DEF Within
    <3>4. ~(i < k)
      BY <1>1, <1>2, <1>4, <3>3
    <3>5. ~(k < i)
      <4>1. k < i => Hi(s, k) < Lo(s, i)
        BY <1>1 DEF Sorted
      <4> QED
        BY <1>1, <1>2, <1>4, <3>3, <4>1
    <3>6. i = k
      BY <1>1, <3>4, <3>5
    <3> QED
      BY <3>2, <3>6
  <2> QED
    BY <1>4, <2>1, <2>2
<1> QED
  BY <1>3, <1>4, Searched

(* A serial the client was sent less than half a turn of the counter ago is *)
(* taken back by wlr_seat_client_validate_event_serial, and one it was not  *)
(* sent is refused unless it is older than all a full ring holds, for every *)
(* width of the counter and every size of the ring.                         *)
THEOREM SerialsAreRecognised == SerialSpec => []SerialsRecognised
<1>1. Kept(serials) /\ [SerialNext]_serials => Kept(serials)'
  BY SerialStep
<1> QED
  BY <1>1, SerialStart, KeptRecognises, PTL DEF SerialSpec

-----------------------------------------------------------------------------
(***************************************************************************)
(* Text entry (TextInput).                                                 *)
(***************************************************************************)
Texts == [en : BOOLEAN, v : {"dflt", "x"}]
TextRequests == [op : {"enable", "disable", "set", "commit"}, v : {"dflt", "x"}]
MethodRequests == [op : {"imcommit"}, serial : Nat, text : Int]
TextEvents == [ev : {"done"}, serial : Nat, about : Texts]
MethodEvents == [ev : {"activate", "deactivate", "imdone"}, field : Nat]

TextStates ==
    [slice : {"text", "method", "grab"},
     reqs : Seq(TextRequests \cup MethodRequests), evs : Seq(TextEvents \cup MethodEvents),
     ti : [st : {"none", "live", "inert"}, pending : Texts, current : Texts,
           focus : TxSurface \cup {"none"}, serial : Nat],
     believed : BOOLEAN, live : SUBSET TxSurface,
     cl : [set : Texts, last : Texts, sent : Nat], wrong : BOOLEAN,
     im : [st : {"none", "live", "inert"}, active : BOOLEAN, client_active : BOOLEAN,
           serial : Nat, pending : Int, current : Int],
     mc : [seen : Nat, field : Nat], field : Nat, shown : Nat, stale : BOOLEAN,
     pop : [TxSurface -> [on : BOOLEAN, mapped : BOOLEAN, buffer : BOOLEAN]],
     grab : [on : BOOLEAN, kb : TxKeyboard \cup {"none"}, told : {"none", "m1", "m2", "gone"}],
     kb : [TxKeyboard -> {"m1", "m2", "gone"}], orphan : BOOLEAN]

(* A text input as its requests change it, and what one of them does.       *)
Entries == [pending : Texts, current : Texts, serial : Nat]

After(x, q) ==
    CASE q.op = "enable" -> [x EXCEPT !.pending = [en |-> TRUE, v |-> "dflt"]]
      [] q.op = "disable" -> [x EXCEPT !.pending.en = FALSE]
      [] q.op = "set" -> [x EXCEPT !.pending.v = q.v]
      [] q.op = "commit" -> [x EXCEPT !.current = x.pending, !.serial = @ + 1]

(* h is the way of a text input from a to z along the requests in flight:   *)
(* where it has as many commits as z, it has the state that z committed.    *)
Leads(h, qs, a, z) ==
    /\ qs \in Seq(TextRequests) /\ a \in Entries /\ z \in Entries
    /\ h \in [0..Len(qs) -> Entries]
    /\ h[0] = a /\ h[Len(qs)] = z
    /\ \A i \in 1..Len(qs) : h[i] = After(h[i - 1], qs[i])
    /\ \A i \in 0..Len(qs) : /\ h[i].serial <= z.serial
                             /\ h[i].serial = z.serial => h[i].current = z.current

Reaches(qs, a, z) == \E h : Leads(h, qs, a, z)

LEMMA AfterType ==
    ASSUME NEW x \in Entries, NEW q \in TextRequests
    PROVE  /\ After(x, q) \in Entries
           /\ q.op # "commit" => After(x, q).serial = x.serial /\ After(x, q).current = x.current
           /\ q.op = "commit" => After(x, q).serial = x.serial + 1
<1>1. CASE q.op = "enable"
  BY <1>1 DEF After, Entries, Texts, TextRequests
<1>2. CASE q.op = "disable"
  BY <1>2 DEF After, Entries, Texts, TextRequests
<1>3. CASE q.op = "set"
  BY <1>3 DEF After, Entries, Texts, TextRequests
<1>4. CASE q.op = "commit"
  <2>1. After(x, q) = [x EXCEPT !.current = x.pending, !.serial = x.serial + 1]
    BY <1>4 DEF After
  <2>2. x.serial + 1 \in Nat /\ x.pending \in Texts
    BY DEF Entries
  <2> DEFINE n == x.serial + 1
  <2> HIDE DEF n
  <2>3. After(x, q) = [x EXCEPT !.current = x.pending, !.serial = n]
    BY <2>1 DEF n
  <2>4. n \in Nat
    BY <2>2 DEF n
  <2>5. After(x, q) \in Entries
    BY <2>2, <2>3, <2>4 DEF Entries
  <2>6. After(x, q).serial = n
    BY <2>3 DEF Entries
  <2> QED
    BY <1>4, <2>5, <2>6 DEF n
<1> QED
  BY <1>1, <1>2, <1>3, <1>4 DEF TextRequests

(* A request that the client sends leads on.                                *)
LEMMA WayGrows ==
    ASSUME NEW qs, NEW a, NEW z, NEW q \in TextRequests, Reaches(qs, a, z)
    PROVE  Reaches(Append(qs, q), a, After(z, q))
<1>1. PICK h : Leads(h, qs, a, z)
  BY DEF Reaches
<1>2. /\ qs \in Seq(TextRequests) /\ Len(qs) \in Nat /\ a \in Entries /\ z \in Entries
      /\ h \in [0..Len(qs) -> Entries]
      /\ h[0] = a /\ h[Len(qs)] = z
  BY <1>1 DEF Leads
<1> DEFINE y == After(z, q)
           qq == Append(qs, q)
<1>3. /\ qq \in Seq(TextRequests) /\ Len(qq) = Len(qs) + 1 /\ qq[Len(qs) + 1] = q
      /\ \A i \in 1..Len(qs) : qq[i] = qs[i]
  BY <1>2
<1>4. /\ y \in Entries /\ (q.op # "commit" => y.serial = z.serial /\ y.current = z.current)
      /\ (q.op = "commit" => y.serial = z.serial + 1)
  BY <1>2, AfterType
<1>5. y = After(h[Len(qs)], q)
  BY <1>2
<1> HIDE DEF y, qq
<1> DEFINE g == [i \in 0..(Len(qs) + 1) |-> IF i = Len(qs) + 1 THEN y ELSE h[i]]
<1>6. /\ g \in [0..Len(qq) -> Entries] /\ g[0] = a /\ g[Len(qq)] = y
      /\ \A i \in 0..Len(qs) : g[i] = h[i]
      /\ g[Len(qs) + 1] = y
  BY <1>2, <1>3, <1>4
<1> HIDE DEF g
<1>7. \A i \in 1..Len(qq) : g[i] = After(g[i - 1], qq[i])
  <2> SUFFICES ASSUME NEW i \in 1..Len(qq)
               PROVE  g[i] = After(g[i - 1], qq[i])
    OBVIOUS
  <2>1. CASE i = Len(qs) + 1
    <3>1. i - 1 = Len(qs) /\ Len(qs) \in 0..Len(qs)
      BY <1>2, <2>1
    <3>2. g[i - 1] = h[Len(qs)] /\ g[i] = y /\ qq[i] = q
      BY <1>3, <1>6, <2>1, <3>1
    <3> QED
      BY <1>5, <3>2
  <2>2. CASE i # Len(qs) + 1
    <3>1. i \in 1..Len(qs) /\ i - 1 \in 0..Len(qs) /\ i \in 0..Len(qs)
      BY <1>2, <1>3, <2>2
    <3>2. h[i] = After(h[i - 1], qs[i])
      BY <1>1, <3>1 DEF Leads
    <3>3. g[i] = h[i] /\ g[i - 1] = h[i - 1] /\ qq[i] = qs[i]
      BY <1>3, <1>6, <3>1
    <3> QED
      BY <3>2, <3>3
  <2> QED
    BY <2>1, <2>2
<1>8. \A i \in 0..Len(qq) : /\ g[i].serial <= y.serial
                            /\ g[i].serial = y.serial => g[i].current = y.current
  <2> SUFFICES ASSUME NEW i \in 0..Len(qq)
               PROVE  /\ g[i].serial <= y.serial
                      /\ g[i].serial = y.serial => g[i].current = y.current
    OBVIOUS
  <2>0. y.serial \in Nat /\ z.serial \in Nat
    BY <1>2, <1>4 DEF Entries
  <2>1. CASE i = Len(qs) + 1
    BY <1>6, <2>0, <2>1
  <2>2. CASE i # Len(qs) + 1
    <3>1. i \in 0..Len(qs)
      BY <1>2, <1>3, <2>2
    <3>2. h[i].serial <= z.serial /\ (h[i].serial = z.serial => h[i].current = z.current)
      BY <1>1, <3>1 DEF Leads
    <3>3. g[i] = h[i] /\ h[i].serial \in Nat
      BY <1>2, <1>6, <3>1 DEF Entries
    <3> QED
      BY <1>4, <2>0, <3>2, <3>3
  <2> QED
    BY <2>1, <2>2
<1>9. Leads(g, qq, a, y)
  BY <1>2, <1>3, <1>4, <1>6, <1>7, <1>8 DEF Leads
<1> QED
  BY <1>9 DEF Reaches, y, qq

(* One that is handled was the first of the way.                            *)
LEMMA WayShifts ==
    ASSUME NEW qs, NEW a, NEW z, Reaches(qs, a, z), qs # <<>>
    PROVE  Reaches(Tail(qs), After(a, Head(qs)), z) /\ Head(qs) \in TextRequests
<1>1. PICK h : Leads(h, qs, a, z)
  BY DEF Reaches
<1>2. /\ qs \in Seq(TextRequests) /\ Len(qs) \in Nat /\ Len(qs) > 0 /\ a \in Entries /\ z \in Entries
      /\ h \in [0..Len(qs) -> Entries]
      /\ h[0] = a /\ h[Len(qs)] = z
  BY <1>1, EmptySeq DEF Leads
<1> DEFINE b == After(a, Head(qs))
           qq == Tail(qs)
<1>3. /\ qq \in Seq(TextRequests) /\ Len(qq) = Len(qs) - 1 /\ Len(qq) \in Nat
      /\ \A i \in 1..Len(qq) : qq[i] = qs[i + 1]
      /\ Head(qs) = qs[1] /\ Head(qs) \in TextRequests
  BY <1>2, HeadTailProperties
<1>4. b \in Entries /\ h[1] = b
  <2>1. 1 \in 1..Len(qs) /\ 1 - 1 = 0
    BY <1>2
  <2>2. h[1] = After(h[1 - 1], qs[1])
    BY <1>1, <2>1 DEF Leads
  <2> QED
    BY <1>2, <1>3, <2>1, <2>2, AfterType
<1> HIDE DEF b, qq
<1> DEFINE g == [i \in 0..Len(qq) |-> h[i + 1]]
<1>5. /\ g \in [0..Len(qq) -> Entries] /\ g[0] = b /\ g[Len(qq)] = z
      /\ \A i \in 0..Len(qq) : g[i] = h[i + 1]
  BY <1>2, <1>3, <1>4
<1> HIDE DEF g
<1>6. \A i \in 1..Len(qq) : g[i] = After(g[i - 1], qq[i])
  <2> SUFFICES ASSUME NEW i \in 1..Len(qq)
               PROVE  g[i] = After(g[i - 1], qq[i])
    OBVIOUS
  <2>1. i + 1 \in 1..Len(qs) /\ i \in 0..Len(qq) /\ i - 1 \in 0..Len(qq) /\ (i - 1) + 1 = i /\ (i + 1) - 1 = i
    BY <1>2, <1>3
  <2>2. h[i + 1] = After(h[(i + 1) - 1], qs[i + 1])
    BY <1>1, <2>1 DEF Leads
  <2>3. g[i] = h[i + 1] /\ g[i - 1] = h[i] /\ qq[i] = qs[i + 1]
    BY <1>3, <1>5, <2>1
  <2> QED
    BY <2>1, <2>2, <2>3
<1>7. \A i \in 0..Len(qq) : /\ g[i].serial <= z.serial
                            /\ g[i].serial = z.serial => g[i].current = z.current
  <2> SUFFICES ASSUME NEW i \in 0..Len(qq)
               PROVE  /\ g[i].serial <= z.serial
                      /\ g[i].serial = z.serial => g[i].current = z.current
    OBVIOUS
  <2>1. i + 1 \in 0..Len(qs)
    BY <1>2, <1>3
  <2> QED
    BY <1>1, <1>5, <2>1 DEF Leads
<1>8. Leads(g, qq, b, z)
  BY <1>2, <1>3, <1>4, <1>5, <1>6, <1>7 DEF Leads
<1> QED
  BY <1>3, <1>8 DEF Reaches, b, qq

(* Where a way ends, and how its ends compare.                              *)
LEMMA WayEnds ==
    ASSUME NEW qs, NEW a, NEW z, Reaches(qs, a, z)
    PROVE  /\ qs \in Seq(TextRequests) /\ a \in Entries /\ z \in Entries
           /\ a.serial <= z.serial
           /\ a.serial = z.serial => a.current = z.current
           /\ qs = <<>> => a = z
<1>1. PICK h : Leads(h, qs, a, z)
  BY DEF Reaches
<1>2. 0 \in 0..Len(qs) /\ Len(qs) \in Nat /\ (qs = <<>> => Len(qs) = 0)
  BY <1>1 DEF Leads
<1> QED
  BY <1>1, <1>2 DEF Leads

LEMMA WayStarts ==
    ASSUME NEW a \in Entries
    PROVE  Reaches(<<>>, a, a)
<1> DEFINE h == [i \in 0..0 |-> a]
           qs == <<>>
<1>1. qs \in Seq(TextRequests) /\ Len(qs) = 0
  OBVIOUS
<1>2. a.serial \in Nat
  BY DEF Entries
<1>3. h \in [0..0 -> Entries] /\ h[0] = a /\ (\A i \in 0..0 : h[i] = a /\ i = 0)
  OBVIOUS
<1> HIDE DEF h, qs
<1>4. Leads(h, qs, a, a)
  BY <1>1, <1>2, <1>3 DEF Leads
<1> QED
  BY <1>4 DEF Reaches, qs

(* c counts the done events the method has seen, from a now to z when all   *)
(* of those in flight are read; the last of them names the field shown.     *)
Counts(c, es, a, z, field) ==
    /\ es \in Seq(MethodEvents) /\ a \in Nat /\ z \in Nat
    /\ c \in [0..Len(es) -> Nat]
    /\ c[0] = a /\ c[Len(es)] = z
    /\ \A i \in 1..Len(es) : c[i] = IF es[i].ev = "imdone" THEN c[i - 1] + 1 ELSE c[i - 1]
    /\ \A i \in 0..Len(es) : c[i] <= z
    /\ \A i \in 1..Len(es) : es[i].ev = "imdone" /\ c[i] = z => es[i].field = field

Tells(es, a, z, field) == \E c : Counts(c, es, a, z, field)

Seen(e, n) == IF e.ev = "imdone" THEN n + 1 ELSE n

(* An event that is sent; a done event is the last word.                    *)
LEMMA TaleGrows ==
    ASSUME NEW es, NEW a, NEW z, NEW field, NEW e \in MethodEvents, NEW shown, Tells(es, a, z, field),
           shown = IF e.ev = "imdone" THEN e.field ELSE field
    PROVE  Tells(Append(es, e), a, Seen(e, z), shown)
<1>1. PICK c : Counts(c, es, a, z, field)
  BY DEF Tells
<1>2. /\ es \in Seq(MethodEvents) /\ Len(es) \in Nat /\ a \in Nat /\ z \in Nat
      /\ c \in [0..Len(es) -> Nat]
      /\ c[0] = a /\ c[Len(es)] = z
  BY <1>1 DEF Counts
<1> DEFINE y == Seen(e, z)
           ee == Append(es, e)
<1>3. /\ ee \in Seq(MethodEvents) /\ Len(ee) = Len(es) + 1 /\ ee[Len(es) + 1] = e
      /\ \A i \in 1..Len(es) : ee[i] = es[i]
  BY <1>2
<1>4. y \in Nat /\ y = (IF e.ev = "imdone" THEN z + 1 ELSE z)
  BY <1>2 DEF Seen
<1> HIDE DEF y, ee
<1> DEFINE g == [i \in 0..(Len(es) + 1) |-> IF i = Len(es) + 1 THEN y ELSE c[i]]
<1>6. /\ g \in [0..Len(ee) -> Nat] /\ g[0] = a /\ g[Len(ee)] = y
      /\ \A i \in 0..Len(es) : g[i] = c[i]
      /\ g[Len(es) + 1] = y
  BY <1>2, <1>3, <1>4
<1> HIDE DEF g
<1>7. \A i \in 1..Len(ee) : /\ g[i] = IF ee[i].ev = "imdone" THEN g[i - 1] + 1 ELSE g[i - 1]
                            /\ ee[i].ev = "imdone" /\ g[i] = y => ee[i].field = shown
  <2> SUFFICES ASSUME NEW i \in 1..Len(ee)
               PROVE  /\ g[i] = IF ee[i].ev = "imdone" THEN g[i - 1] + 1 ELSE g[i - 1]
                      /\ ee[i].ev = "imdone" /\ g[i] = y => ee[i].field = shown
    OBVIOUS
  <2>1. CASE i = Len(es) + 1
    <3>1. i - 1 = Len(es) /\ Len(es) \in 0..Len(es)
      BY <1>2, <2>1
    <3>2. g[i - 1] = z /\ g[i] = y /\ ee[i] = e
      BY <1>2, <1>3, <1>6, <2>1, <3>1
    <3> QED
      BY <1>4, <3>2
  <2>2. CASE i # Len(es) + 1
    <3>1. i \in 1..Len(es) /\ i - 1 \in 0..Len(es) /\ i \in 0..Len(es)
      BY <1>2, <1>3, <2>2
    <3>2. /\ c[i] = (IF es[i].ev = "imdone" THEN c[i - 1] + 1 ELSE c[i - 1])
          /\ c[i] <= z
          /\ (es[i].ev = "imdone" /\ c[i] = z => es[i].field = field)
      BY <1>1, <3>1 DEF Counts
    <3>3. g[i] = c[i] /\ g[i - 1] = c[i - 1] /\ ee[i] = es[i] /\ c[i] \in Nat
      BY <1>2, <1>3, <1>6, <3>1
    <3> QED
      BY <1>2, <1>4, <3>2, <3>3
  <2> QED
    BY <2>1, <2>2
<1>8. \A i \in 0..Len(ee) : g[i] <= y
  <2> SUFFICES ASSUME NEW i \in 0..Len(ee)
               PROVE  g[i] <= y
    OBVIOUS
  <2>1. CASE i = Len(es) + 1
    BY <1>4, <1>6, <2>1
  <2>2. CASE i # Len(es) + 1
    <3>1. i \in 0..Len(es)
      BY <1>2, <1>3, <2>2
    <3>2. c[i] <= z /\ g[i] = c[i] /\ c[i] \in Nat
      BY <1>1, <1>2, <1>6, <3>1 DEF Counts
    <3> QED
      BY <1>2, <1>4, <3>2
  <2> QED
    BY <2>1, <2>2
<1>9. Counts(g, ee, a, y, shown)
  BY <1>2, <1>3, <1>4, <1>6, <1>7, <1>8 DEF Counts
<1> QED
  BY <1>9 DEF Tells, y, ee

LEMMA TaleShifts ==
    ASSUME NEW es, NEW a, NEW z, NEW field, Tells(es, a, z, field), es # <<>>
    PROVE  /\ Tells(Tail(es), Seen(Head(es), a), z, field)
           /\ Head(es) \in MethodEvents
           /\ Head(es).ev = "imdone" /\ a + 1 = z => Head(es).field = field
<1>1. PICK c : Counts(c, es, a, z, field)
  BY DEF Tells
<1>2. /\ es \in Seq(MethodEvents) /\ Len(es) \in Nat /\ Len(es) > 0 /\ a \in Nat /\ z \in Nat
      /\ c \in [0..Len(es) -> Nat]
      /\ c[0] = a /\ c[Len(es)] = z
  BY <1>1, EmptySeq DEF Counts
<1> DEFINE b == Seen(Head(es), a)
           ee == Tail(es)
<1>3. /\ ee \in Seq(MethodEvents) /\ Len(ee) = Len(es) - 1 /\ Len(ee) \in Nat
      /\ \A i \in 1..Len(ee) : ee[i] = es[i + 1]
      /\ Head(es) = es[1] /\ Head(es) \in MethodEvents
  BY <1>2, HeadTailProperties
<1>4. b \in Nat /\ c[1] = b /\ (Head(es).ev = "imdone" /\ a + 1 = z => Head(es).field = field)
  <2>1. 1 \in 1..Len(es) /\ 1 - 1 = 0
    BY <1>2
  <2>2. /\ c[1] = (IF es[1].ev = "imdone" THEN c[1 - 1] + 1 ELSE c[1 - 1])
        /\ (es[1].ev = "imdone" /\ c[1] = z => es[1].field = field)
    BY <1>1, <2>1 DEF Counts
  <2> QED
    BY <1>2, <1>3, <2>1, <2>2 DEF Seen
<1> HIDE DEF b, ee
<1> DEFINE g == [i \in 0..Len(ee) |-> c[i + 1]]
<1>5. /\ g \in [0..Len(ee) -> Nat] /\ g[0] = b /\ g[Len(ee)] = z
      /\ \A i \in 0..Len(ee) : g[i] = c[i + 1]
  BY <1>2, <1>3, <1>4
<1> HIDE DEF g
<1>6. \A i \in 1..Len(ee) : /\ g[i] = IF ee[i].ev = "imdone" THEN g[i - 1] + 1 ELSE g[i - 1]
                            /\ ee[i].ev = "imdone" /\ g[i] = z => ee[i].field = field
  <2> SUFFICES ASSUME NEW i \in 1..Len(ee)
               PROVE  /\ g[i] = IF ee[i].ev = "imdone" THEN g[i - 1] + 1 ELSE g[i - 1]
                      /\ ee[i].ev = "imdone" /\ g[i] = z => ee[i].field = field
    OBVIOUS
  <2>1. i + 1 \in 1..Len(es) /\ i \in 0..Len(ee) /\ i - 1 \in 0..Len(ee) /\ (i - 1) + 1 = i /\ (i + 1) - 1 = i
    BY <1>2, <1>3
  <2>2. /\ c[i + 1] = (IF es[i + 1].ev = "imdone" THEN c[(i + 1) - 1] + 1 ELSE c[(i + 1) - 1])
        /\ (es[i + 1].ev = "imdone" /\ c[i + 1] = z => es[i + 1].field = field)
    BY <1>1, <2>1 DEF Counts
  <2>3. g[i] = c[i + 1] /\ g[i - 1] = c[i] /\ ee[i] = es[i + 1]
    BY <1>3, <1>5, <2>1
  <2> QED
    BY <2>1, <2>2, <2>3
<1>7. \A i \in 0..Len(ee) : g[i] <= z
  <2> SUFFICES ASSUME NEW i \in 0..Len(ee)
               PROVE  g[i] <= z
    OBVIOUS
  <2>1. i + 1 \in 0..Len(es)
    BY <1>2, <1>3
  <2> QED
    BY <1>1, <1>5, <2>1 DEF Counts
<1>8. Counts(g, ee, b, z, field)
  BY <1>2, <1>3, <1>4, <1>5, <1>6, <1>7 DEF Counts
<1> QED
  BY <1>3, <1>4, <1>8 DEF Tells, b, ee

LEMMA TaleEnds ==
    ASSUME NEW es, NEW a, NEW z, NEW field, Tells(es, a, z, field)
    PROVE  es \in Seq(MethodEvents) /\ a \in Nat /\ z \in Nat /\ a <= z
<1>1. PICK c : Counts(c, es, a, z, field)
  BY DEF Tells
<1>2. 0 \in 0..Len(es) /\ Len(es) \in Nat
  BY <1>1 DEF Counts
<1> QED
  BY <1>1, <1>2 DEF Counts

LEMMA TaleStarts ==
    ASSUME NEW field
    PROVE  Tells(<<>>, 0, 0, field)
<1> DEFINE c == [i \in 0..0 |-> 0]
           es == <<>>
<1>1. es \in Seq(MethodEvents) /\ Len(es) = 0
  OBVIOUS
<1>3. c \in [0..0 -> Nat] /\ c[0] = 0 /\ (\A i \in 0..0 : c[i] = 0)
  OBVIOUS
<1> HIDE DEF c, es
<1>4. Counts(c, es, 0, 0, field)
  BY <1>1, <1>3 DEF Counts
<1> QED
  BY <1>4 DEF Tells, es

(* What the compositor has of the text input, and what its client wants.    *)
Entry(s) == [pending |-> s.ti.pending, current |-> s.ti.current, serial |-> s.ti.serial]
Wanted(s) == [pending |-> s.cl.set, current |-> s.cl.last, serial |-> s.cl.sent]

(* An answer with the number of commits made answers the last of them.      *)
Answers(es, sent, last) ==
    /\ es \in Seq(TextEvents)
    /\ \A i \in 1..Len(es) : es[i].serial <= sent /\ (es[i].serial = sent => es[i].about = last)

EntryOK(s) ==
    /\ s.slice # "text" => s.ti.st = "none"
    /\ s.ti.st = "live" => Reaches(s.reqs, Entry(s), Wanted(s))
    /\ s.ti.st = "live" => Answers(s.evs, s.cl.sent, s.cl.last)
    /\ s.ti.st = "none" => Entry(s) = Wanted(s)
    /\ s.slice = "text" /\ s.ti.st = "none" => s.reqs = <<>>
    /\ s.slice = "text" /\ s.ti.st # "live" => s.evs = <<>>
    /\ ~s.wrong /\ s.believed = s.ti.current.en /\ s.ti.focus \in s.live \cup {"none"}

(* A text in flight that counts as current was made for the field shown.    *)
Composed(qs, serial, shown) ==
    /\ qs \in Seq(MethodRequests)
    /\ \A i \in 1..Len(qs) : /\ qs[i].serial <= serial
                             /\ qs[i].serial = serial => qs[i].text \in {-1, shown}

MethodOK(s) ==
    /\ s.slice = "text" => s.im.st = "none"
    /\ s.im.pending = -1 /\ ~s.stale
    /\ s.im.st = "live" => /\ Tells(s.evs, s.mc.seen, s.im.serial, s.shown)
                           /\ s.mc.seen = s.im.serial => s.mc.field = s.shown
                           /\ Composed(s.reqs, s.im.serial, s.shown)
    /\ s.im.st = "none" => /\ s.mc.seen = 0 /\ s.mc.field = 0 /\ s.shown = 0 /\ s.im.serial = 0
                           /\ ~s.im.client_active
                           /\ s.slice # "text" => s.evs = <<>> /\ s.reqs = <<>>

Shows(p, im) == /\ p.mapped <=> p.on /\ p.buffer /\ im.st = "live" /\ im.client_active
                /\ p.on => im.st = "live"

PopupsOK(s) == \A f \in TxSurface : Shows(s.pop[f], s.im)

GrabOK(s) ==
    /\ s.grab.kb # "none" => s.kb[s.grab.kb] # "gone" /\ s.grab.told = s.kb[s.grab.kb]
    /\ s.grab.on => s.im.st = "live"
    /\ ~s.grab.on => s.grab.kb = "none"

TextInv ==
    /\ txt \in TextStates
    /\ EntryOK(txt) /\ MethodOK(txt) /\ PopupsOK(txt) /\ GrabOK(txt)

LEMMA TextStarts ==
    ASSUME TxInit
    PROVE  TextInv
<1>1. PICK sl \in {"text", "method", "grab"} :
        txt = [slice |-> sl, reqs |-> <<>>, evs |-> <<>>,
               ti |-> [st |-> "none", pending |-> NoText, current |-> NoText, focus |-> "none", serial |-> 0],
               believed |-> FALSE, live |-> TxSurface,
               cl |-> [set |-> NoText, last |-> NoText, sent |-> 0], wrong |-> FALSE,
               im |-> NoMethod, mc |-> [seen |-> 0, field |-> 0], field |-> 0, shown |-> 0, stale |-> FALSE,
               pop |-> [f \in TxSurface |-> NoPopup], grab |-> NoGrab,
               kb |-> [k \in TxKeyboard |-> "m1"], orphan |-> FALSE]
  BY DEF TxInit
<1> DEFINE qs == <<>>
           es == <<>>
           ti == [st |-> "none", pending |-> NoText, current |-> NoText, focus |-> "none", serial |-> 0]
           cl == [set |-> NoText, last |-> NoText, sent |-> 0]
           mc == [seen |-> 0, field |-> 0]
           pop == [f \in TxSurface |-> NoPopup]
           kb == [k \in TxKeyboard |-> "m1"]
<1>2. qs \in Seq(TextRequests \cup MethodRequests) /\ es \in Seq(TextEvents \cup MethodEvents)
  BY EmptySeq
<1>3. NoText \in Texts /\ NoText.en = FALSE
  BY DEF NoText, Texts
<1>4. /\ ti \in [st : {"none", "live", "inert"}, pending : Texts, current : Texts,
                 focus : TxSurface \cup {"none"}, serial : Nat]
      /\ ti.st = "none" /\ ti.pending = NoText /\ ti.current = NoText /\ ti.focus = "none" /\ ti.serial = 0
  BY <1>3
<1>5. /\ cl \in [set : Texts, last : Texts, sent : Nat]
      /\ cl.set = NoText /\ cl.last = NoText /\ cl.sent = 0
  BY <1>3
<1>6. /\ NoMethod \in [st : {"none", "live", "inert"}, active : BOOLEAN, client_active : BOOLEAN,
                       serial : Nat, pending : Int, current : Int]
      /\ NoMethod.st = "none" /\ ~NoMethod.client_active /\ NoMethod.serial = 0 /\ NoMethod.pending = -1
  BY DEF NoMethod
<1>7. mc \in [seen : Nat, field : Nat] /\ mc.seen = 0 /\ mc.field = 0
  OBVIOUS
<1>8. /\ pop \in [TxSurface -> [on : BOOLEAN, mapped : BOOLEAN, buffer : BOOLEAN]]
      /\ \A f \in TxSurface : pop[f].mapped = FALSE /\ pop[f].on = FALSE
  BY DEF NoPopup
<1>9. /\ NoGrab \in [on : BOOLEAN, kb : TxKeyboard \cup {"none"}, told : {"none", "m1", "m2", "gone"}]
      /\ NoGrab.on = FALSE /\ NoGrab.kb = "none"
  BY DEF NoGrab
<1>10. kb \in [TxKeyboard -> {"m1", "m2", "gone"}]
  OBVIOUS
<1>11. txt = [slice |-> sl, reqs |-> qs, evs |-> es, ti |-> ti,
              believed |-> FALSE, live |-> TxSurface, cl |-> cl, wrong |-> FALSE,
              im |-> NoMethod, mc |-> mc, field |-> 0, shown |-> 0, stale |-> FALSE,
              pop |-> pop, grab |-> NoGrab, kb |-> kb, orphan |-> FALSE]
  BY <1>1
<1>12. qs = <<>> /\ es = <<>>
  OBVIOUS
<1> HIDE DEF qs, es, ti, cl, mc, pop, kb
<1>13. /\ txt.slice = sl /\ txt.reqs = qs /\ txt.evs = es /\ txt.ti = ti /\ txt.believed = FALSE
       /\ txt.live = TxSurface /\ txt.cl = cl /\ txt.wrong = FALSE /\ txt.im = NoMethod /\ txt.mc = mc
       /\ txt.shown = 0 /\ txt.stale = FALSE /\ txt.pop = pop /\ txt.grab = NoGrab
  BY <1>11
<1>14. txt \in TextStates
  BY <1>2, <1>4, <1>5, <1>6, <1>7, <1>8, <1>9, <1>10, <1>11 DEF TextStates
<1>15. EntryOK(txt)
  BY <1>3, <1>4, <1>5, <1>12, <1>13 DEF EntryOK, Entry, Wanted
<1>16. MethodOK(txt)
  BY <1>6, <1>7, <1>12, <1>13 DEF MethodOK
<1>17. PopupsOK(txt)
  BY <1>8, <1>13 DEF PopupsOK, Shows
<1>18. GrabOK(txt)
  BY <1>9, <1>13 DEF GrabOK
<1> QED
  BY <1>14, <1>15, <1>16, <1>17, <1>18 DEF TextInv

(* What each part of the invariant depends on; one that is not the slice's  *)
(* does not depend on what is in flight.                                    *)
LEMMA MethodKept ==
    ASSUME NEW s, NEW t, MethodOK(s), t.slice = s.slice, t.im = s.im, t.mc = s.mc, t.shown = s.shown,
           t.stale = s.stale, s.slice # "text" => t.reqs = s.reqs /\ t.evs = s.evs
    PROVE  MethodOK(t)
  BY DEF MethodOK

LEMMA PopupsKept ==
    ASSUME NEW s, NEW t, PopupsOK(s), t.pop = s.pop, t.im.st = s.im.st, t.im.client_active = s.im.client_active
    PROVE  PopupsOK(t)
  BY DEF PopupsOK, Shows

LEMMA GrabKept ==
    ASSUME NEW s, NEW t, GrabOK(s), t.grab = s.grab, t.kb = s.kb, t.im.st = s.im.st
    PROVE  GrabOK(t)
  BY DEF GrabOK

(* A step of the text input or its client leaves the input method alone.    *)
TextOnly(s, t) ==
    /\ t.slice = s.slice /\ t.live = s.live /\ t.im = s.im /\ t.mc = s.mc /\ t.shown = s.shown
    /\ t.stale = s.stale /\ t.pop = s.pop /\ t.grab = s.grab /\ t.kb = s.kb

LEMMA TextMoves ==
    ASSUME TextInv, txt.slice = "text", txt' \in TextStates, TextOnly(txt, txt'), EntryOK(txt')
    PROVE  TextInv'
  BY MethodKept, PopupsKept, GrabKept DEF TextInv, TextOnly

LEMMA TextTyped ==
    ASSUME TextInv
    PROVE  /\ txt \in TextStates /\ txt.slice \in {"text", "method", "grab"}
           /\ txt.reqs \in Seq(TextRequests \cup MethodRequests)
           /\ txt.evs \in Seq(TextEvents \cup MethodEvents)
           /\ txt.ti \in [st : {"none", "live", "inert"}, pending : Texts, current : Texts,
                          focus : TxSurface \cup {"none"}, serial : Nat]
           /\ txt.cl \in [set : Texts, last : Texts, sent : Nat]
           /\ txt.believed \in BOOLEAN /\ txt.wrong \in BOOLEAN
           /\ Entry(txt) \in Entries /\ Wanted(txt) \in Entries
  BY DEF TextInv, TextStates, Entry, Wanted, Entries

LEMMA TextInputMade ==
    ASSUME TextInv, text_input_manager_get_text_input
    PROVE  TextInv'
<1>1. txt.slice = "text" /\ txt.ti.st = "none" /\ txt' = [txt EXCEPT !.ti.st = "live"]
  BY DEF text_input_manager_get_text_input
<1>2. txt' \in TextStates /\ TextOnly(txt, txt')
  BY <1>1, TextTyped, ZenonT(60) DEF TextStates, TextOnly
<1>3. /\ txt'.reqs = txt.reqs /\ txt'.evs = txt.evs /\ txt'.believed = txt.believed /\ txt'.wrong = txt.wrong
      /\ txt'.cl = txt.cl /\ txt'.ti.st = "live" /\ txt'.ti.current = txt.ti.current
      /\ txt'.ti.pending = txt.ti.pending /\ txt'.ti.serial = txt.ti.serial /\ txt'.ti.focus = txt.ti.focus
  BY <1>1, TextTyped DEF TextStates
<1>4. EntryOK(txt)
  BY DEF TextInv
<1>5. Entry(txt') = Entry(txt) /\ Wanted(txt') = Wanted(txt)
  BY <1>3 DEF Entry, Wanted
<1>6. Reaches(txt'.reqs, Entry(txt'), Wanted(txt'))
  <2>1. txt.reqs = <<>> /\ Entry(txt) = Wanted(txt)
    BY <1>1, <1>4 DEF EntryOK
  <2> QED
    BY <1>3, <1>5, <2>1, TextTyped, WayStarts
<1>7. Answers(txt'.evs, txt'.cl.sent, txt'.cl.last)
  <2> DEFINE es == <<>>
  <2>1. txt.evs = es
    BY <1>1, <1>4 DEF EntryOK
  <2>2. es \in Seq(TextEvents) /\ Len(es) = 0
    OBVIOUS
  <2> HIDE DEF es
  <2> QED
    BY <1>3, <2>1, <2>2 DEF Answers
<1>8. EntryOK(txt')
  BY <1>1, <1>2, <1>3, <1>4, <1>6, <1>7 DEF EntryOK, TextOnly
<1> QED
  BY <1>1, <1>2, <1>8, TextMoves

(* The client sends a request: q, which it takes for done.                  *)
Sent(q) ==
    /\ txt'.reqs = Append(txt.reqs, q) /\ Wanted(txt') = After(Wanted(txt), q)
    /\ txt'.ti = txt.ti /\ txt'.evs = txt.evs /\ txt'.believed = txt.believed /\ txt'.wrong = txt.wrong

LEMMA RequestSent ==
    ASSUME TextInv, txt.slice = "text", txt.ti.st # "none", txt' \in TextStates, TextOnly(txt, txt'),
           NEW q \in TextRequests, Sent(q)
    PROVE  TextInv'
<1>1. EntryOK(txt)
  BY DEF TextInv
<1>2. Entry(txt') = Entry(txt)
  BY DEF Entry, Sent
<1>3. ASSUME txt.ti.st = "live"
      PROVE  Reaches(txt'.reqs, Entry(txt'), Wanted(txt')) /\ Answers(txt'.evs, txt'.cl.sent, txt'.cl.last)
  <2>1. Reaches(txt.reqs, Entry(txt), Wanted(txt)) /\ Answers(txt.evs, txt.cl.sent, txt.cl.last)
    BY <1>1, <1>3 DEF EntryOK
  <2>2. Reaches(txt'.reqs, Entry(txt'), Wanted(txt'))
    BY <1>2, <2>1, WayGrows DEF Sent
  <2>3. Wanted(txt) \in Entries
    BY TextTyped
  <2>4. /\ q.op # "commit" => /\ Wanted(txt').serial = Wanted(txt).serial
                              /\ Wanted(txt').current = Wanted(txt).current
        /\ q.op = "commit" => Wanted(txt').serial = Wanted(txt).serial + 1
    BY <2>3, AfterType DEF Sent
  <2>5. /\ q.op # "commit" => txt'.cl.sent = txt.cl.sent /\ txt'.cl.last = txt.cl.last
        /\ q.op = "commit" => txt'.cl.sent = txt.cl.sent + 1
    BY <2>4 DEF Wanted
  <2>6. txt.cl.sent \in Nat
    BY TextTyped
  <2>8. \A i \in 1..Len(txt.evs) : txt.evs[i].serial \in Nat
    <3> DEFINE es == txt.evs
    <3>1. es \in Seq(TextEvents)
      BY <2>1 DEF Answers
    <3> HIDE DEF es
    <3>2. \A i \in 1..Len(es) : es[i] \in TextEvents
      BY <3>1
    <3>3. \A i \in 1..Len(es) : es[i].serial \in Nat
      BY <3>2 DEF TextEvents
    <3> QED
      BY <3>3 DEF es
  <2>7. Answers(txt'.evs, txt'.cl.sent, txt'.cl.last)
    <3>1. CASE q.op = "commit"
      BY <2>1, <2>5, <2>6, <2>8, <3>1 DEF Answers, Sent
    <3>2. CASE q.op # "commit"
      BY <2>1, <2>5, <3>2 DEF Sent
    <3> QED
      BY <3>1, <3>2
  <2> QED
    BY <2>2, <2>7
<1>4. EntryOK(txt')
  BY <1>1, <1>3 DEF EntryOK, Sent, TextOnly
<1> QED
  BY <1>4, TextMoves

LEMMA ClientTextKeeps ==
    ASSUME TextInv, ClientText
    PROVE  TextInv'
<1>1. txt.ti.st # "none" /\ txt.slice = "text"
  BY DEF ClientText
<1>t. /\ txt \in TextStates /\ txt.reqs \in Seq(TextRequests \cup MethodRequests)
      /\ txt.cl \in [set : Texts, last : Texts, sent : Nat]
  BY TextTyped
<1>w. ASSUME NEW q \in TextRequests
      PROVE  Append(txt.reqs, q) \in Seq(TextRequests \cup MethodRequests)
  BY <1>t
<1>2. CASE txt' = ClientEnable
  <2> DEFINE q == [op |-> "enable", v |-> "dflt"]
             set == [en |-> TRUE, v |-> "dflt"]
             qs == Append(txt.reqs, q)
  <2>1. q \in TextRequests /\ q.op = "enable"
    BY DEF TextRequests
  <2>2. set \in Texts /\ qs \in Seq(TextRequests \cup MethodRequests)
    BY <1>w, <2>1 DEF Texts
  <2>3. After(Wanted(txt), q) = [Wanted(txt) EXCEPT !.pending = set]
    BY <2>1 DEF After
  <2>4. txt' = [txt EXCEPT !.cl.set = set, !.reqs = qs]
    BY <1>2, <1>t DEF ClientEnable, Request, TextStates
  <2> HIDE DEF q, set, qs
  <2>5. txt' \in TextStates /\ TextOnly(txt, txt')
    BY <1>t, <2>2, <2>4 DEF TextStates, TextOnly
  <2>6. /\ txt'.reqs = qs /\ txt'.cl.set = set /\ txt'.cl.last = txt.cl.last /\ txt'.cl.sent = txt.cl.sent
        /\ txt'.ti = txt.ti /\ txt'.evs = txt.evs /\ txt'.believed = txt.believed /\ txt'.wrong = txt.wrong
    BY <1>t, <2>4 DEF TextStates
  <2>7. Sent(q)
    BY <2>3, <2>6 DEF Sent, Wanted, qs
  <2> QED
    BY <1>1, <2>1, <2>5, <2>7, RequestSent
<1>3. CASE txt' = ClientDisable
  <2> DEFINE q == [op |-> "disable", v |-> "dflt"]
             qs == Append(txt.reqs, q)
  <2>1. q \in TextRequests /\ q.op = "disable"
    BY DEF TextRequests
  <2>2. qs \in Seq(TextRequests \cup MethodRequests)
    BY <1>w, <2>1
  <2>3. After(Wanted(txt), q) = [Wanted(txt) EXCEPT !.pending.en = FALSE]
    BY <2>1 DEF After
  <2>4. txt' = [txt EXCEPT !.cl.set.en = FALSE, !.reqs = qs]
    BY <1>3, <1>t DEF ClientDisable, Request, TextStates
  <2> HIDE DEF q, qs
  <2>5. txt' \in TextStates /\ TextOnly(txt, txt')
    BY <1>t, <2>2, <2>4, ZenonT(60) DEF TextStates, TextOnly, Texts
  <2>6. /\ txt'.reqs = qs /\ txt'.cl.set = [txt.cl.set EXCEPT !.en = FALSE]
        /\ txt'.cl.last = txt.cl.last /\ txt'.cl.sent = txt.cl.sent
        /\ txt'.ti = txt.ti /\ txt'.evs = txt.evs /\ txt'.believed = txt.believed /\ txt'.wrong = txt.wrong
    BY <1>t, <2>4 DEF TextStates
  <2>7. Sent(q)
    BY <2>3, <2>6 DEF Sent, Wanted, qs
  <2> QED
    BY <1>1, <2>1, <2>5, <2>7, RequestSent
<1>4. CASE txt' = ClientSet("x")
  <2> DEFINE q == [op |-> "set", v |-> "x"]
             qs == Append(txt.reqs, q)
  <2>1. q \in TextRequests /\ q.op = "set" /\ q.v = "x"
    BY DEF TextRequests
  <2>2. qs \in Seq(TextRequests \cup MethodRequests)
    BY <1>w, <2>1
  <2>3. After(Wanted(txt), q) = [Wanted(txt) EXCEPT !.pending.v = "x"]
    BY <2>1 DEF After
  <2>4. txt' = [txt EXCEPT !.cl.set.v = "x", !.reqs = qs]
    BY <1>4, <1>t DEF ClientSet, Request, TextStates
  <2> HIDE DEF q, qs
  <2>5. txt' \in TextStates /\ TextOnly(txt, txt')
    BY <1>t, <2>2, <2>4, ZenonT(60) DEF TextStates, TextOnly, Texts
  <2>6. /\ txt'.reqs = qs /\ txt'.cl.set = [txt.cl.set EXCEPT !.v = "x"]
        /\ txt'.cl.last = txt.cl.last /\ txt'.cl.sent = txt.cl.sent
        /\ txt'.ti = txt.ti /\ txt'.evs = txt.evs /\ txt'.believed = txt.believed /\ txt'.wrong = txt.wrong
    BY <1>t, <2>4 DEF TextStates
  <2>7. Sent(q)
    BY <2>3, <2>6 DEF Sent, Wanted, qs
  <2> QED
    BY <1>1, <2>1, <2>5, <2>7, RequestSent
<1>5. CASE txt' = ClientCommit
  <2> DEFINE q == [op |-> "commit", v |-> "dflt"]
             qs == Append(txt.reqs, q)
             n == txt.cl.sent + 1
  <2>1. q \in TextRequests /\ q.op = "commit"
    BY DEF TextRequests
  <2>2. qs \in Seq(TextRequests \cup MethodRequests) /\ n \in Nat
    BY <1>t, <1>w, <2>1
  <2>3. After(Wanted(txt), q) = [Wanted(txt) EXCEPT !.current = Wanted(txt).pending, !.serial = Wanted(txt).serial + 1]
    BY <2>1 DEF After
  <2>4. txt' = [txt EXCEPT !.cl.last = txt.cl.set, !.cl.sent = n, !.reqs = qs]
    BY <1>5, <1>t DEF ClientCommit, Request, TextStates
  <2> HIDE DEF q, qs, n
  <2>5. txt' \in TextStates /\ TextOnly(txt, txt')
    BY <1>t, <2>2, <2>4 DEF TextStates, TextOnly
  <2>6. /\ txt'.reqs = qs /\ txt'.cl.set = txt.cl.set
        /\ txt'.cl.last = txt.cl.set /\ txt'.cl.sent = n
        /\ txt'.ti = txt.ti /\ txt'.evs = txt.evs /\ txt'.believed = txt.believed /\ txt'.wrong = txt.wrong
    BY <1>t, <2>4 DEF TextStates
  <2>7. Sent(q)
    BY <2>3, <2>6 DEF Sent, Wanted, qs, n
  <2> QED
    BY <1>1, <2>1, <2>5, <2>7, RequestSent
<1> QED
  BY <1>2, <1>3, <1>4, <1>5 DEF ClientText

(* A request is handled: what it does to the text input is After.           *)
LEMMA RequestHandled ==
    ASSUME TextInv, txt.slice = "text", txt.ti.st = "live", txt.reqs # <<>>, txt' \in TextStates,
           TextOnly(txt, txt'), txt'.reqs = Tail(txt.reqs), txt'.evs = txt.evs, txt'.cl = txt.cl,
           txt'.wrong = txt.wrong, txt'.ti.st = "live", txt'.ti.focus = txt.ti.focus,
           txt'.believed = txt'.ti.current.en, Entry(txt') = After(Entry(txt), Head(txt.reqs))
    PROVE  TextInv'
<1>1. EntryOK(txt)
  BY DEF TextInv
<1>2. Wanted(txt') = Wanted(txt)
  BY DEF Wanted
<1>3. Reaches(txt.reqs, Entry(txt), Wanted(txt))
  BY <1>1 DEF EntryOK
<1>4. Reaches(txt'.reqs, Entry(txt'), Wanted(txt'))
  BY <1>2, <1>3, WayShifts
<1>5. EntryOK(txt')
  BY <1>1, <1>4 DEF EntryOK, TextOnly
<1> QED
  BY <1>5, TextMoves

LEMMA ServerTextKeeps ==
    ASSUME TextInv, ServerText
    PROVE  TextInv'
<1> DEFINE s == [txt EXCEPT !.reqs = Tail(txt.reqs)]
           q == Head(txt.reqs)
           qs == Tail(txt.reqs)
<1>1. /\ txt.slice = "text" /\ txt.reqs # <<>>
      /\ txt' = IF txt.ti.st = "live" THEN HandleText(s, q) ELSE s
  BY DEF ServerText
<1>t. /\ txt \in TextStates /\ txt.reqs \in Seq(TextRequests \cup MethodRequests)
      /\ txt.ti \in [st : {"none", "live", "inert"}, pending : Texts, current : Texts,
                     focus : TxSurface \cup {"none"}, serial : Nat]
      /\ txt.believed \in BOOLEAN
  BY TextTyped
<1>e. EntryOK(txt)
  BY DEF TextInv
<1>2. qs \in Seq(TextRequests \cup MethodRequests) /\ s = [txt EXCEPT !.reqs = qs]
  BY <1>t, <1>1
<1> HIDE DEF qs, s
<1>3. /\ s \in TextStates /\ s.reqs = qs /\ TextOnly(txt, s) /\ s.ti = txt.ti /\ s.evs = txt.evs
      /\ s.cl = txt.cl /\ s.wrong = txt.wrong /\ s.believed = txt.believed
  BY <1>t, <1>2 DEF TextStates, TextOnly
<1>4. CASE txt.ti.st # "live"
  <2>1. txt' = s
    BY <1>1, <1>4
  <2>2. txt.ti.st # "none"
    BY <1>1, <1>e DEF EntryOK
  <2>3. Entry(s) = Entry(txt) /\ Wanted(s) = Wanted(txt)
    BY <1>3 DEF Entry, Wanted
  <2>4. EntryOK(s)
    BY <1>3, <1>4, <1>e, <2>2, <2>3 DEF EntryOK, TextOnly
  <2> QED
    BY <1>1, <1>3, <2>1, <2>4, TextMoves
<1>5. CASE txt.ti.st = "live"
  <2>0. txt' = HandleText(s, q) /\ qs = Tail(txt.reqs)
    BY <1>1, <1>5 DEF qs
  <2>1. q \in TextRequests
    <3>1. Reaches(txt.reqs, Entry(txt), Wanted(txt))
      BY <1>5, <1>e DEF EntryOK
    <3> QED
      BY <1>1, <3>1, WayShifts
  <2>2. txt.believed = txt.ti.current.en
    BY <1>e DEF EntryOK
  <2> HIDE DEF q
  <2> DEFINE Handled == /\ txt' \in TextStates /\ TextOnly(txt, txt') /\ txt'.reqs = qs /\ txt'.evs = txt.evs
                        /\ txt'.cl = txt.cl /\ txt'.wrong = txt.wrong /\ txt'.ti.st = "live"
                        /\ txt'.ti.focus = txt.ti.focus /\ txt'.believed = txt'.ti.current.en
                        /\ Entry(txt') = After(Entry(txt), q)
  <2>3. ASSUME q.op = "enable"
        PROVE  Handled
    <3> DEFINE set == [en |-> TRUE, v |-> "dflt"]
    <3>1. set \in Texts
      BY DEF Texts
    <3>2. txt' = [s EXCEPT !.ti.pending = set]
      BY <2>0, <2>3 DEF HandleText, text_input_enable
    <3>3. After(Entry(txt), q) = [Entry(txt) EXCEPT !.pending = set]
      BY <2>3 DEF After
    <3> HIDE DEF set
    <3>4. txt' \in TextStates
      BY <1>t, <1>3, <3>1, <3>2, ZenonT(60) DEF TextStates
    <3>5. /\ TextOnly(s, txt') /\ txt'.reqs = s.reqs /\ txt'.evs = s.evs
          /\ txt'.cl = s.cl /\ txt'.wrong = s.wrong /\ txt'.believed = s.believed
          /\ txt'.ti = [s.ti EXCEPT !.pending = set]
      BY <1>3, <3>2 DEF TextStates, TextOnly
    <3>6. /\ txt'.ti.st = "live" /\ txt'.ti.focus = txt.ti.focus
          /\ txt'.ti.current = txt.ti.current /\ txt'.ti.serial = txt.ti.serial
          /\ txt'.ti.pending = set
      BY <1>t, <1>3, <1>5, <3>5
    <3>8. Entry(txt') = After(Entry(txt), q)
      BY <3>3, <3>6 DEF Entry
    <3> QED
      BY <1>3, <2>2, <3>4, <3>5, <3>6, <3>8 DEF TextOnly
  <2>4. ASSUME q.op = "disable"
        PROVE  Handled
    <3>2. txt' = [s EXCEPT !.ti.pending.en = FALSE]
      BY <2>0, <2>4 DEF HandleText, text_input_disable
    <3>3. After(Entry(txt), q) = [Entry(txt) EXCEPT !.pending.en = FALSE]
      BY <2>4 DEF After
    <3>4. txt' \in TextStates
      <4> DEFINE p == [txt.ti.pending EXCEPT !.en = FALSE]
      <4>1. p \in Texts
        BY <1>t DEF Texts
      <4>2. txt' = [s EXCEPT !.ti.pending = p]
        BY <1>3, <1>t, <3>2 DEF TextStates
      <4> HIDE DEF p
      <4> QED
        BY <1>t, <1>3, <4>1, <4>2, ZenonT(60) DEF TextStates
    <3>5. /\ TextOnly(s, txt') /\ txt'.reqs = s.reqs /\ txt'.evs = s.evs
          /\ txt'.cl = s.cl /\ txt'.wrong = s.wrong /\ txt'.believed = s.believed
          /\ txt'.ti = [s.ti EXCEPT !.pending.en = FALSE]
      BY <1>3, <3>2 DEF TextStates, TextOnly
    <3>6. /\ txt'.ti.st = "live" /\ txt'.ti.focus = txt.ti.focus
          /\ txt'.ti.current = txt.ti.current /\ txt'.ti.serial = txt.ti.serial
          /\ txt'.ti.pending = [txt.ti.pending EXCEPT !.en = FALSE]
      BY <1>t, <1>3, <1>5, <3>5
    <3>8. Entry(txt') = After(Entry(txt), q)
      BY <3>3, <3>6 DEF Entry
    <3> QED
      BY <1>3, <2>2, <3>4, <3>5, <3>6, <3>8 DEF TextOnly
  <2>5. ASSUME q.op = "set"
        PROVE  Handled
    <3>2. txt' = [s EXCEPT !.ti.pending.v = q.v]
      BY <2>0, <2>5 DEF HandleText, text_input_set
    <3>3. After(Entry(txt), q) = [Entry(txt) EXCEPT !.pending.v = q.v]
      BY <2>5 DEF After
    <3>7. q.v \in {"dflt", "x"}
      BY <2>1 DEF TextRequests
    <3>4. txt' \in TextStates
      <4> DEFINE p == [txt.ti.pending EXCEPT !.v = q.v]
      <4>1. p \in Texts
        BY <1>t, <3>7 DEF Texts
      <4>2. txt' = [s EXCEPT !.ti.pending = p]
        BY <1>3, <1>t, <3>2 DEF TextStates
      <4> HIDE DEF p
      <4> QED
        BY <1>t, <1>3, <4>1, <4>2, ZenonT(60) DEF TextStates
    <3>5. /\ TextOnly(s, txt') /\ txt'.reqs = s.reqs /\ txt'.evs = s.evs
          /\ txt'.cl = s.cl /\ txt'.wrong = s.wrong /\ txt'.believed = s.believed
          /\ txt'.ti = [s.ti EXCEPT !.pending.v = q.v]
      BY <1>3, <3>2 DEF TextStates, TextOnly
    <3>6. /\ txt'.ti.st = "live" /\ txt'.ti.focus = txt.ti.focus
          /\ txt'.ti.current = txt.ti.current /\ txt'.ti.serial = txt.ti.serial
          /\ txt'.ti.pending = [txt.ti.pending EXCEPT !.v = q.v]
      BY <1>t, <1>3, <1>5, <3>5
    <3>8. Entry(txt') = After(Entry(txt), q)
      BY <3>3, <3>6 DEF Entry
    <3> QED
      BY <1>3, <2>2, <3>4, <3>5, <3>6, <3>8 DEF TextOnly
  <2>6. ASSUME q.op = "commit"
        PROVE  Handled
    <3> DEFINE n == txt.ti.serial + 1
               p == txt.ti.pending
               b == IF ~txt.ti.current.en /\ p.en THEN TRUE
                    ELSE IF txt.ti.current.en /\ ~p.en THEN FALSE ELSE txt.believed
    <3>1. n \in Nat /\ p \in Texts
      BY <1>t
    <3>7. b = p.en /\ b \in BOOLEAN
      <4>1. p.en \in BOOLEAN /\ txt.ti.current.en \in BOOLEAN
        BY <1>t, <3>1 DEF Texts
      <4> QED
        BY <2>2, <4>1
    <3>2. txt' = [s EXCEPT !.ti.current = p, !.ti.serial = n, !.believed = b]
      BY <1>3, <2>0, <2>6 DEF HandleText, text_input_commit
    <3>3. After(Entry(txt), q) = [Entry(txt) EXCEPT !.current = Entry(txt).pending, !.serial = Entry(txt).serial + 1]
      BY <2>6 DEF After
    <3>8. Entry(txt).pending = p /\ Entry(txt).serial + 1 = n
      BY DEF Entry
    <3> HIDE DEF n, b, p
    <3>4. txt' \in TextStates
      BY <1>t, <1>3, <3>1, <3>2, <3>7, ZenonT(60) DEF TextStates
    <3>5. /\ TextOnly(s, txt') /\ txt'.reqs = s.reqs /\ txt'.evs = s.evs
          /\ txt'.cl = s.cl /\ txt'.wrong = s.wrong /\ txt'.believed = b
          /\ txt'.ti = [s.ti EXCEPT !.current = p, !.serial = n]
      BY <1>3, <3>2 DEF TextStates, TextOnly
    <3>6. /\ txt'.ti.st = "live" /\ txt'.ti.focus = txt.ti.focus /\ txt'.ti.current = p /\ txt'.ti.serial = n
          /\ txt'.ti.pending = txt.ti.pending
      BY <1>t, <1>3, <1>5, <3>5
    <3>9. Entry(txt') = After(Entry(txt), q)
      BY <3>3, <3>6, <3>8 DEF Entry
    <3> QED
      BY <1>3, <3>4, <3>5, <3>6, <3>7, <3>9 DEF TextOnly
  <2>7. Handled
    BY <2>1, <2>3, <2>4, <2>5, <2>6 DEF TextRequests
  <2> QED
    BY <1>1, <1>5, <2>0, <2>7, RequestHandled DEF q
<1> QED
  BY <1>4, <1>5

LEMMA DoneSent ==
    ASSUME TextInv, wlr_text_input_v3_send_done
    PROVE  TextInv'
<1> DEFINE e == [ev |-> "done", serial |-> txt.ti.serial, about |-> txt.ti.current]
           es == Append(txt.evs, e)
<1>1. txt.ti.st = "live" /\ txt' = [txt EXCEPT !.evs = es]
  BY DEF wlr_text_input_v3_send_done, Event
<1>e. EntryOK(txt)
  BY DEF TextInv
<1>t. /\ txt \in TextStates /\ txt.ti.serial \in Nat /\ txt.ti.current \in Texts
      /\ txt.evs \in Seq(TextEvents \cup MethodEvents)
  BY TextTyped
<1>2. /\ txt.slice = "text" /\ Reaches(txt.reqs, Entry(txt), Wanted(txt))
      /\ Answers(txt.evs, txt.cl.sent, txt.cl.last)
  BY <1>1, <1>e DEF EntryOK
<1>3. e \in TextEvents /\ e.serial = txt.ti.serial /\ e.about = txt.ti.current
  BY <1>t DEF TextEvents
<1>4. txt.ti.serial <= txt.cl.sent /\ (txt.ti.serial = txt.cl.sent => txt.ti.current = txt.cl.last)
  BY <1>2, WayEnds DEF Entry, Wanted
<1>5. es \in Seq(TextEvents) /\ es \in Seq(TextEvents \cup MethodEvents)
  BY <1>t, <1>2, <1>3 DEF Answers
<1>6. Answers(es, txt.cl.sent, txt.cl.last)
  <2>1. txt.evs \in Seq(TextEvents)
    BY <1>2 DEF Answers
  <2> HIDE DEF e
  <2>2. /\ Len(es) = Len(txt.evs) + 1 /\ Len(txt.evs) \in Nat
        /\ \A i \in 1..Len(es) : es[i] = IF i = Len(txt.evs) + 1 THEN e ELSE txt.evs[i]
    BY <1>3, <2>1
  <2> HIDE DEF es
  <2>3. \A i \in 1..Len(es) : es[i].serial <= txt.cl.sent /\ (es[i].serial = txt.cl.sent => es[i].about = txt.cl.last)
    BY <1>2, <1>3, <1>4, <2>2 DEF Answers
  <2> QED
    BY <1>5, <2>3 DEF Answers
<1> HIDE DEF es
<1>7. /\ txt' \in TextStates /\ TextOnly(txt, txt') /\ txt'.evs = es /\ txt'.reqs = txt.reqs
      /\ txt'.ti = txt.ti /\ txt'.cl = txt.cl /\ txt'.wrong = txt.wrong /\ txt'.believed = txt.believed
  BY <1>1, <1>5, <1>t DEF TextStates, TextOnly
<1>8. EntryOK(txt')
  <2>1. Entry(txt') = Entry(txt) /\ Wanted(txt') = Wanted(txt)
    BY <1>7 DEF Entry, Wanted
  <2> QED
    BY <1>1, <1>e, <1>6, <1>7, <2>1 DEF EntryOK, TextOnly
<1> QED
  BY <1>2, <1>7, <1>8, TextMoves

LEMMA DoneRead ==
    ASSUME TextInv, ClientDone
    PROVE  TextInv'
<1> DEFINE e == Head(txt.evs)
           es == Tail(txt.evs)
           w == txt.wrong \/ (e.serial = txt.cl.sent /\ e.about # txt.cl.last)
<1>1. txt.slice = "text" /\ txt.evs # <<>> /\ txt' = [txt EXCEPT !.evs = es, !.wrong = w]
  BY DEF ClientDone
<1>e. EntryOK(txt)
  BY DEF TextInv
<1>t. txt \in TextStates /\ txt.evs \in Seq(TextEvents \cup MethodEvents)
  BY TextTyped
<1>2. txt.ti.st = "live" /\ Answers(txt.evs, txt.cl.sent, txt.cl.last) /\ ~txt.wrong
  BY <1>1, <1>e DEF EntryOK
<1>3. txt.evs \in Seq(TextEvents)
  BY <1>2 DEF Answers
<1>4. /\ es \in Seq(TextEvents) /\ Len(es) = Len(txt.evs) - 1 /\ Len(es) \in Nat
      /\ \A i \in 1..Len(es) : es[i] = txt.evs[i + 1]
      /\ e = txt.evs[1] /\ Len(txt.evs) \in Nat
  BY <1>1, <1>3, HeadTailProperties
<1>5. es \in Seq(TextEvents \cup MethodEvents)
  BY <1>t, <1>1
<1>6. w = FALSE
  <2>1. 1 \in 1..Len(txt.evs)
    BY <1>4
  <2> QED
    BY <1>2, <1>4, <2>1 DEF Answers
<1> HIDE DEF es, w, e
<1>7. Answers(es, txt.cl.sent, txt.cl.last)
  <2>1. \A i \in 1..Len(es) : i + 1 \in 1..Len(txt.evs)
    BY <1>4
  <2> QED
    BY <1>2, <1>4, <2>1 DEF Answers
<1>8. /\ txt' \in TextStates /\ TextOnly(txt, txt') /\ txt'.evs = es /\ txt'.reqs = txt.reqs
      /\ txt'.ti = txt.ti /\ txt'.cl = txt.cl /\ txt'.wrong = FALSE /\ txt'.believed = txt.believed
  BY <1>1, <1>5, <1>6, <1>t DEF TextStates, TextOnly
<1>9. EntryOK(txt')
  <2>1. Entry(txt') = Entry(txt) /\ Wanted(txt') = Wanted(txt)
    BY <1>8 DEF Entry, Wanted
  <2> QED
    BY <1>2, <1>e, <1>7, <1>8, <2>1 DEF EntryOK, TextOnly
<1> QED
  BY <1>1, <1>8, <1>9, TextMoves

LEMMA FocusMoves ==
    ASSUME TextInv, NEW f \in txt.live \cup {"none"}, txt.ti.st = "live", txt' = [txt EXCEPT !.ti.focus = f]
    PROVE  TextInv'
<1>t. /\ txt \in TextStates
      /\ txt.ti \in [st : {"none", "live", "inert"}, pending : Texts, current : Texts,
                     focus : TxSurface \cup {"none"}, serial : Nat]
  BY TextTyped
<1>e. EntryOK(txt)
  BY DEF TextInv
<1>1. f \in TxSurface \cup {"none"}
  BY <1>t DEF TextStates
<1>2. txt' \in TextStates
  BY <1>1, <1>t, ZenonT(60) DEF TextStates
<1>3. /\ TextOnly(txt, txt') /\ txt'.reqs = txt.reqs /\ txt'.evs = txt.evs /\ txt'.cl = txt.cl
      /\ txt'.wrong = txt.wrong /\ txt'.believed = txt.believed
      /\ txt'.ti = [txt.ti EXCEPT !.focus = f]
  BY <1>t DEF TextStates, TextOnly
<1>4. /\ txt'.ti.st = txt.ti.st /\ txt'.ti.pending = txt.ti.pending /\ txt'.ti.current = txt.ti.current
      /\ txt'.ti.serial = txt.ti.serial /\ txt'.ti.focus = f
  BY <1>t, <1>3
<1>5. Entry(txt') = Entry(txt) /\ Wanted(txt') = Wanted(txt)
  BY <1>3, <1>4 DEF Entry, Wanted
<1>6. EntryOK(txt') /\ txt.slice = "text"
  BY <1>e, <1>3, <1>4, <1>5 DEF EntryOK, TextOnly
<1> QED
  BY <1>2, <1>3, <1>6, TextMoves

LEMMA TextInputGone ==
    ASSUME TextInv, wlr_text_input_destroy
    PROVE  TextInv'
<1> DEFINE ti == [st |-> "inert", pending |-> NoText, current |-> NoText, focus |-> "none", serial |-> 0]
           qs == <<>>
           es == <<>>
<1>1. txt.ti.st = "live" /\ txt' = [txt EXCEPT !.ti = ti, !.believed = FALSE, !.evs = es, !.reqs = qs]
  BY DEF wlr_text_input_destroy
<1>t. txt \in TextStates
  BY TextTyped
<1>e. EntryOK(txt)
  BY DEF TextInv
<1>2. /\ ti \in [st : {"none", "live", "inert"}, pending : Texts, current : Texts,
                 focus : TxSurface \cup {"none"}, serial : Nat]
      /\ ti.st = "inert" /\ ti.current.en = FALSE /\ ti.focus = "none"
  BY DEF NoText, Texts
<1>3. /\ qs \in Seq(TextRequests \cup MethodRequests) /\ es \in Seq(TextEvents \cup MethodEvents)
      /\ qs = <<>> /\ es = <<>>
  BY EmptySeq
<1> HIDE DEF ti, qs, es
<1>4. txt' \in TextStates
  BY <1>1, <1>2, <1>3, <1>t, ZenonT(60) DEF TextStates
<1>5. /\ TextOnly(txt, txt') /\ txt'.reqs = qs /\ txt'.evs = es /\ txt'.wrong = txt.wrong
      /\ txt'.believed = FALSE /\ txt'.ti = ti
  BY <1>1, <1>t DEF TextStates, TextOnly
<1>6. EntryOK(txt') /\ txt.slice = "text"
  BY <1>e, <1>1, <1>2, <1>3, <1>5 DEF EntryOK, TextOnly
<1> QED
  BY <1>4, <1>5, <1>6, TextMoves

(* A surface goes, in any slice.                                            *)
LEMMA SurfaceGoneKeeps ==
    ASSUME TextInv, NEW f \in TxSurface, SurfaceGone(f)
    PROVE  TextInv'
<1> DEFINE s == [popup_surface_destroy(txt, f) EXCEPT !.live = txt.live \ {f}, !.pop[f] = NoPopup]
           focus == IF txt.ti.focus = f THEN "none" ELSE txt.ti.focus
           pop == [txt.pop EXCEPT ![f] = NoPopup]
           live == txt.live \ {f}
<1>t. /\ txt \in TextStates
      /\ txt.ti \in [st : {"none", "live", "inert"}, pending : Texts, current : Texts,
                     focus : TxSurface \cup {"none"}, serial : Nat]
      /\ txt.pop \in [TxSurface -> [on : BOOLEAN, mapped : BOOLEAN, buffer : BOOLEAN]]
      /\ txt.live \in SUBSET TxSurface
  BY TextTyped DEF TextStates
<1>e. EntryOK(txt) /\ MethodOK(txt) /\ PopupsOK(txt) /\ GrabOK(txt)
  BY DEF TextInv
<1>n. "none" # f
  BY TextAssumption
<1>1. s = [txt EXCEPT !.live = live, !.pop = pop]
  BY <1>t, ZenonT(60) DEF popup_surface_destroy, TextStates
<1>2. /\ pop \in [TxSurface -> [on : BOOLEAN, mapped : BOOLEAN, buffer : BOOLEAN]]
      /\ \A g \in TxSurface : pop[g] = IF g = f THEN NoPopup ELSE txt.pop[g]
  BY <1>t DEF NoPopup
<1>3. live \in SUBSET TxSurface
  BY <1>t
<1>4. focus \in live \cup {"none"} /\ focus \in TxSurface \cup {"none"}
  BY <1>e, <1>t DEF EntryOK
<1>5. txt' = text_input_handle_focused_surface_destroy(s, f)
  BY DEF SurfaceGone, popup_surface_destroy
<1> HIDE DEF s, pop, live
<1>6. s \in TextStates /\ s.ti = txt.ti
  BY <1>1, <1>2, <1>3, <1>t DEF TextStates
<1>7. /\ s.slice = txt.slice /\ s.live = live /\ s.im = txt.im /\ s.mc = txt.mc /\ s.shown = txt.shown
      /\ s.stale = txt.stale /\ s.pop = pop /\ s.grab = txt.grab /\ s.kb = txt.kb /\ s.reqs = txt.reqs
      /\ s.evs = txt.evs /\ s.cl = txt.cl /\ s.wrong = txt.wrong /\ s.believed = txt.believed
  BY <1>1, <1>t DEF TextStates
<1>8. txt' = [s EXCEPT !.ti.focus = focus]
  <2>1. CASE txt.ti.focus = f
    BY <1>5, <1>6, <2>1 DEF text_input_handle_focused_surface_destroy
  <2>2. CASE txt.ti.focus # f
    <3>1. txt' = s /\ focus = s.ti.focus
      BY <1>5, <1>6, <2>2 DEF text_input_handle_focused_surface_destroy
    <3>2. [s.ti EXCEPT !.focus = focus] = s.ti
      BY <1>6, <1>t, <3>1
    <3>3. [s EXCEPT !.ti = s.ti] = s
      BY <1>6 DEF TextStates
    <3> QED
      BY <3>1, <3>2, <3>3
  <2> QED
    BY <2>1, <2>2
<1> HIDE DEF focus
<1>9. txt' \in TextStates /\ txt'.ti = [txt.ti EXCEPT !.focus = focus]
  BY <1>4, <1>6, <1>8, <1>t, ZenonT(60) DEF TextStates
<1>10. /\ txt'.slice = txt.slice /\ txt'.live = live /\ txt'.im = txt.im /\ txt'.mc = txt.mc
       /\ txt'.shown = txt.shown
       /\ txt'.stale = txt.stale /\ txt'.pop = pop /\ txt'.grab = txt.grab /\ txt'.kb = txt.kb
       /\ txt'.reqs = txt.reqs /\ txt'.evs = txt.evs /\ txt'.cl = txt.cl /\ txt'.wrong = txt.wrong
       /\ txt'.believed = txt.believed
  BY <1>6, <1>7, <1>8 DEF TextStates
<1>11. /\ txt'.ti.st = txt.ti.st /\ txt'.ti.pending = txt.ti.pending /\ txt'.ti.current = txt.ti.current
       /\ txt'.ti.serial = txt.ti.serial /\ txt'.ti.focus = focus
  BY <1>9, <1>t
<1>12. Entry(txt') = Entry(txt) /\ Wanted(txt') = Wanted(txt)
  BY <1>10, <1>11 DEF Entry, Wanted
<1>13. EntryOK(txt')
  BY <1>e, <1>4, <1>10, <1>11, <1>12 DEF EntryOK
<1>14. MethodOK(txt') /\ GrabOK(txt')
  BY <1>e, <1>10, MethodKept, GrabKept
<1>15. PopupsOK(txt')
  BY <1>e, <1>2, <1>10 DEF PopupsOK, Shows, NoPopup
<1> QED
  BY <1>9, <1>13, <1>14, <1>15 DEF TextInv

(* A step of the input method leaves the text input alone, which rests.     *)
MethodOnly(s, t) ==
    /\ t.slice = s.slice /\ t.ti = s.ti /\ t.believed = s.believed /\ t.live = s.live /\ t.cl = s.cl
    /\ t.wrong = s.wrong

LEMMA EntryRests ==
    ASSUME NEW s, NEW t, EntryOK(s), s.slice # "text", MethodOnly(s, t)
    PROVE  EntryOK(t)
  BY DEF EntryOK, Entry, Wanted, MethodOnly

LEMMA MethodTyped ==
    ASSUME TextInv
    PROVE  /\ txt \in TextStates /\ txt.slice \in {"text", "method", "grab"}
           /\ txt.reqs \in Seq(TextRequests \cup MethodRequests)
           /\ txt.evs \in Seq(TextEvents \cup MethodEvents)
           /\ txt.im \in [st : {"none", "live", "inert"}, active : BOOLEAN, client_active : BOOLEAN,
                          serial : Nat, pending : Int, current : Int]
           /\ txt.mc \in [seen : Nat, field : Nat] /\ txt.field \in Nat /\ txt.shown \in Nat
           /\ txt.pop \in [TxSurface -> [on : BOOLEAN, mapped : BOOLEAN, buffer : BOOLEAN]]
           /\ txt.grab \in [on : BOOLEAN, kb : TxKeyboard \cup {"none"}, told : {"none", "m1", "m2", "gone"}]
           /\ txt.kb \in [TxKeyboard -> {"m1", "m2", "gone"}]
           /\ EntryOK(txt) /\ MethodOK(txt) /\ PopupsOK(txt) /\ GrabOK(txt)
           /\ txt.im.st = "live" => txt.slice # "text"
  BY DEF TextInv, TextStates, MethodOK

LEMMA MethodMade ==
    ASSUME TextInv, manager_get_input_method
    PROVE  TextInv'
<1>1. txt.slice # "text" /\ txt.im.st = "none" /\ txt' = [txt EXCEPT !.im.st = "live"]
  BY DEF manager_get_input_method
<1>2. txt' \in TextStates
  BY <1>1, MethodTyped DEF TextStates
<1>3. /\ MethodOnly(txt, txt') /\ txt'.reqs = txt.reqs /\ txt'.evs = txt.evs /\ txt'.mc = txt.mc
      /\ txt'.shown = txt.shown /\ txt'.stale = txt.stale /\ txt'.pop = txt.pop /\ txt'.grab = txt.grab
      /\ txt'.kb = txt.kb /\ txt'.im.st = "live" /\ txt'.im.client_active = txt.im.client_active
      /\ txt'.im.serial = txt.im.serial /\ txt'.im.pending = txt.im.pending
  BY <1>1, MethodTyped DEF TextStates, MethodOnly
<1>4. EntryOK(txt')
  BY <1>1, <1>3, MethodTyped, EntryRests
<1>5. /\ txt.mc.seen = 0 /\ txt.mc.field = 0 /\ txt.shown = 0 /\ txt.im.serial = 0 /\ ~txt.im.client_active
      /\ txt.evs = <<>> /\ txt.reqs = <<>> /\ txt.im.pending = -1 /\ ~txt.stale
  BY <1>1, MethodTyped DEF MethodOK
<1>6. MethodOK(txt')
  <2>1. Tells(txt'.evs, txt'.mc.seen, txt'.im.serial, txt'.shown)
    BY <1>3, <1>5, TaleStarts
  <2>2. Composed(txt'.reqs, txt'.im.serial, txt'.shown)
    <3> DEFINE qs == <<>>
    <3>1. qs \in Seq(MethodRequests) /\ Len(qs) = 0 /\ txt'.reqs = qs
      BY <1>3, <1>5
    <3> HIDE DEF qs
    <3> QED
      BY <3>1 DEF Composed
  <2> QED
    BY <1>1, <1>3, <1>5, <2>1, <2>2 DEF MethodOK, MethodOnly
<1>7. PopupsOK(txt')
  <2>1. \A f \in TxSurface : ~txt.pop[f].mapped /\ ~txt.pop[f].on
    BY <1>1, MethodTyped DEF PopupsOK, Shows
  <2> QED
    BY <1>3, <1>5, <2>1, MethodTyped DEF PopupsOK, Shows
<1>8. GrabOK(txt')
  BY <1>1, <1>3, MethodTyped DEF GrabOK
<1> QED
  BY <1>2, <1>4, <1>6, <1>7, <1>8 DEF TextInv

(* Texts in flight stay current, or late, when the events grow.             *)
LEMMA ActivateKeeps ==
    ASSUME TextInv, wlr_input_method_v2_send_activate \/ wlr_input_method_v2_send_deactivate
    PROVE  TextInv'
<1>1. PICK e \in MethodEvents, b \in BOOLEAN, n \in Nat :
        /\ e.ev # "imdone"
        /\ txt.im.st = "live"
        /\ txt' = [txt EXCEPT !.im.active = b, !.field = n, !.evs = Append(txt.evs, e)]
  <2>1. CASE wlr_input_method_v2_send_activate
    <3> DEFINE e == [ev |-> "activate", field |-> txt.field + 1]
               n == txt.field + 1
    <3>1. e \in MethodEvents /\ e.ev # "imdone" /\ n \in Nat
      BY MethodTyped DEF MethodEvents
    <3>2. txt.im.st = "live" /\ txt' = [txt EXCEPT !.im.active = TRUE, !.field = n, !.evs = Append(txt.evs, e)]
      BY <2>1, MethodTyped DEF wlr_input_method_v2_send_activate, Event, TextStates
    <3> HIDE DEF e, n
    <3> QED
      BY <3>1, <3>2
  <2>2. CASE wlr_input_method_v2_send_deactivate
    <3> DEFINE e == [ev |-> "deactivate", field |-> 0]
    <3>1. e \in MethodEvents /\ e.ev # "imdone" /\ txt.field \in Nat
      BY MethodTyped DEF MethodEvents
    <3>2. txt.im.st = "live" /\ txt' = [txt EXCEPT !.im.active = FALSE, !.field = txt.field, !.evs = Append(txt.evs, e)]
      BY <2>2, MethodTyped, ZenonT(60) DEF wlr_input_method_v2_send_deactivate, Event, TextStates
    <3> HIDE DEF e
    <3> QED
      BY <3>1, <3>2
  <2> QED
    BY <2>1, <2>2
<1> DEFINE es == Append(txt.evs, e)
<1>2. es \in Seq(TextEvents \cup MethodEvents)
  BY MethodTyped
<1>3. txt.slice # "text" /\ Tells(txt.evs, txt.mc.seen, txt.im.serial, txt.shown)
  BY <1>1, MethodTyped DEF MethodOK
<1>4. Tells(es, txt.mc.seen, txt.im.serial, txt.shown)
  <2>1. Seen(e, txt.im.serial) = txt.im.serial
    BY <1>1 DEF Seen
  <2>2. txt.shown = IF e.ev = "imdone" THEN e.field ELSE txt.shown
    BY <1>1
  <2> QED
    BY <1>3, <2>1, <2>2, TaleGrows
<1>5. txt' = [txt EXCEPT !.im.active = b, !.field = n, !.evs = es]
  BY <1>1
<1> HIDE DEF es
<1>6. txt' \in TextStates
  BY <1>2, <1>5, MethodTyped, ZenonT(60) DEF TextStates
<1>7. /\ MethodOnly(txt, txt') /\ txt'.reqs = txt.reqs /\ txt'.evs = es /\ txt'.mc = txt.mc
      /\ txt'.shown = txt.shown /\ txt'.stale = txt.stale /\ txt'.pop = txt.pop /\ txt'.grab = txt.grab
      /\ txt'.kb = txt.kb /\ txt'.im = [txt.im EXCEPT !.active = b]
  BY <1>5, MethodTyped DEF TextStates, MethodOnly
<1>8. /\ txt'.im.st = txt.im.st /\ txt'.im.client_active = txt.im.client_active
      /\ txt'.im.serial = txt.im.serial /\ txt'.im.pending = txt.im.pending
  BY <1>7, MethodTyped
<1>9. EntryOK(txt')
  BY <1>3, <1>7, MethodTyped, EntryRests
<1>10. MethodOK(txt')
  BY <1>1, <1>3, <1>4, <1>7, <1>8, MethodTyped DEF MethodOK, MethodOnly
<1>11. PopupsOK(txt') /\ GrabOK(txt')
  BY <1>7, <1>8, MethodTyped, PopupsKept, GrabKept
<1> QED
  BY <1>6, <1>9, <1>10, <1>11 DEF TextInv

LEMMA MethodDoneSent ==
    ASSUME TextInv, wlr_input_method_v2_send_done
    PROVE  TextInv'
<1> DEFINE a == txt.im.active
           n == txt.im.serial + 1
           sh == IF txt.im.active THEN txt.field ELSE 0
           e == [ev |-> "imdone", field |-> sh]
           es == Append(txt.evs, e)
           s == [txt EXCEPT !.im.client_active = a, !.im.serial = n, !.shown = sh, !.evs = es]
           pop == [f \in TxSurface |-> IF s.pop[f].on THEN popup_surface_update_mapped(s, f).pop[f] ELSE s.pop[f]]
<1>1. txt.im.st = "live" /\ txt' = [s EXCEPT !.pop = pop]
  BY MethodTyped DEF wlr_input_method_v2_send_done, Event, EachPopup, TextStates
<1>2. /\ a \in BOOLEAN /\ n \in Nat /\ n = txt.im.serial + 1 /\ txt.im.serial \in Nat /\ sh \in Nat
  BY MethodTyped
<1>3. e \in MethodEvents /\ e.ev = "imdone" /\ e.field = sh
  BY <1>2 DEF MethodEvents
<1>4. es \in Seq(TextEvents \cup MethodEvents)
  BY <1>3, MethodTyped
<1>5. /\ txt.slice # "text" /\ Tells(txt.evs, txt.mc.seen, txt.im.serial, txt.shown)
      /\ Composed(txt.reqs, txt.im.serial, txt.shown)
  BY <1>1, MethodTyped DEF MethodOK
<1>6. Tells(es, txt.mc.seen, n, sh)
  <2> HIDE DEF e, sh
  <2>1. Seen(e, txt.im.serial) = n
    BY <1>3 DEF Seen
  <2>2. sh = IF e.ev = "imdone" THEN e.field ELSE txt.shown
    BY <1>3
  <2> QED
    BY <1>3, <1>5, <2>1, <2>2, TaleGrows
<1>7. txt.mc.seen \in Nat /\ txt.mc.seen <= txt.im.serial
  BY <1>5, TaleEnds
<1> HIDE DEF a, n, sh, es, e
<1>8. /\ s.pop = txt.pop /\ s \in TextStates /\ s.im = [txt.im EXCEPT !.client_active = a, !.serial = n]
      /\ s.shown = sh /\ s.evs = es /\ s.reqs = txt.reqs /\ s.mc = txt.mc /\ s.stale = txt.stale
      /\ s.grab = txt.grab /\ s.kb = txt.kb /\ MethodOnly(txt, s)
  BY <1>2, <1>4, MethodTyped DEF TextStates, MethodOnly
<1>9. s.im.client_active = a /\ s.im.st = "live" /\ s.im.serial = n /\ s.im.pending = txt.im.pending
  <2> HIDE DEF s
  <2>1. /\ txt.im \in [st : {"none", "live", "inert"}, active : BOOLEAN, client_active : BOOLEAN,
                        serial : Nat, pending : Int, current : Int]
        /\ txt.im.st = "live" /\ s.im = [txt.im EXCEPT !.client_active = a, !.serial = n]
    BY <1>1, <1>8, MethodTyped
  <2> QED
    BY <2>1
<1> HIDE DEF s
<1>10. /\ pop \in [TxSurface -> [on : BOOLEAN, mapped : BOOLEAN, buffer : BOOLEAN]]
       /\ \A f \in TxSurface : /\ pop[f].on = txt.pop[f].on /\ pop[f].buffer = txt.pop[f].buffer
                               /\ pop[f].mapped = IF txt.pop[f].on THEN (IF a THEN txt.pop[f].mapped \/ txt.pop[f].buffer ELSE FALSE)
                                                  ELSE txt.pop[f].mapped
  <2>1. ASSUME NEW f \in TxSurface
        PROVE  popup_surface_update_mapped(s, f).pop[f] =
                  [txt.pop[f] EXCEPT !.mapped = IF a THEN txt.pop[f].mapped \/ txt.pop[f].buffer ELSE FALSE]
    BY <1>8, <1>9 DEF popup_surface_update_mapped, TextStates
  <2>2. txt.pop \in [TxSurface -> [on : BOOLEAN, mapped : BOOLEAN, buffer : BOOLEAN]]
    BY MethodTyped
  <2>3. pop = [f \in TxSurface |-> IF txt.pop[f].on
                                   THEN [txt.pop[f] EXCEPT !.mapped = IF a THEN txt.pop[f].mapped \/ txt.pop[f].buffer ELSE FALSE]
                                   ELSE txt.pop[f]]
    BY <1>8, <2>1
  <2> HIDE DEF pop
  <2> QED
    BY <1>2, <2>2, <2>3
<1> HIDE DEF pop
<1>11. /\ txt' \in TextStates /\ txt'.pop = pop /\ txt'.im = s.im /\ txt'.shown = sh /\ txt'.evs = es
       /\ txt'.reqs = txt.reqs /\ txt'.mc = txt.mc /\ txt'.stale = txt.stale
       /\ txt'.grab = txt.grab /\ txt'.kb = txt.kb /\ MethodOnly(txt, txt')
  BY <1>1, <1>8, <1>10 DEF TextStates, MethodOnly
<1>12. EntryOK(txt')
  BY <1>5, <1>11, MethodTyped, EntryRests
<1>13. MethodOK(txt')
  <2>1. Composed(txt.reqs, n, sh)
    <3> DEFINE qs == txt.reqs
    <3>1. qs \in Seq(MethodRequests) /\ \A i \in 1..Len(qs) : qs[i].serial <= txt.im.serial
      BY <1>5 DEF Composed
    <3> HIDE DEF qs
    <3>2. \A i \in 1..Len(qs) : qs[i] \in MethodRequests
      BY <3>1
    <3>3. \A i \in 1..Len(qs) : qs[i].serial \in Nat
      BY <3>2 DEF MethodRequests
    <3>4. Composed(qs, n, sh)
      BY <1>2, <3>1, <3>3 DEF Composed
    <3> QED
      BY <3>4 DEF qs
  <2>2. txt.mc.seen # n
    BY <1>2, <1>7
  <2> QED
    BY <1>5, <1>6, <1>9, <1>11, <2>1, <2>2, MethodTyped DEF MethodOK, MethodOnly
<1>14. PopupsOK(txt')
  <2> SUFFICES ASSUME NEW f \in TxSurface
               PROVE  Shows(txt'.pop[f], txt'.im)
    BY DEF PopupsOK
  <2>1. Shows(txt.pop[f], txt.im) /\ txt.pop[f] \in [on : BOOLEAN, mapped : BOOLEAN, buffer : BOOLEAN]
    BY MethodTyped DEF PopupsOK
  <2> QED
    BY <1>1, <1>2, <1>9, <1>10, <1>11, <2>1 DEF Shows
<1>15. GrabOK(txt')
  BY <1>1, <1>9, <1>11, MethodTyped, GrabKept
<1> QED
  BY <1>11, <1>12, <1>13, <1>14, <1>15 DEF TextInv

LEMMA MethodEventRead ==
    ASSUME TextInv, MethodEvent
    PROVE  TextInv'
<1> DEFINE e == Head(txt.evs)
           es == Tail(txt.evs)
           n == IF e.ev = "imdone" THEN txt.mc.seen + 1 ELSE txt.mc.seen
           fd == IF e.ev = "imdone" THEN e.field ELSE txt.mc.field
<1>1. txt.slice = "method" /\ txt.evs # <<>> /\ txt' = [txt EXCEPT !.evs = es, !.mc.seen = n, !.mc.field = fd]
  BY MethodTyped DEF MethodEvent, TextStates
<1>2. es \in Seq(TextEvents \cup MethodEvents)
  BY <1>1, MethodTyped
<1>3. n \in Nat /\ fd \in Nat
  <2>1. CASE txt.im.st = "live"
    <3>1. Tells(txt.evs, txt.mc.seen, txt.im.serial, txt.shown)
      BY <2>1, MethodTyped DEF MethodOK
    <3>2. e \in MethodEvents
      BY <1>1, <3>1, TaleShifts
    <3> QED
      BY <3>2, MethodTyped DEF MethodEvents
  <2>2. CASE txt.im.st # "live"
    <3>1. e \in TextEvents \cup MethodEvents
      BY <1>1, MethodTyped
    <3>2. e.ev = "imdone" => e \in MethodEvents
      BY <3>1 DEF TextEvents
    <3> QED
      BY <3>2, MethodTyped DEF MethodEvents
  <2> QED
    BY <2>1, <2>2
<1>n. n = Seen(e, txt.mc.seen)
  BY DEF Seen
<1>4. ASSUME txt.im.st = "live"
      PROVE  Tells(es, n, txt.im.serial, txt.shown) /\ (n = txt.im.serial => fd = txt.shown)
  <2>1. /\ Tells(txt.evs, txt.mc.seen, txt.im.serial, txt.shown)
        /\ (txt.mc.seen = txt.im.serial => txt.mc.field = txt.shown)
    BY <1>4, MethodTyped DEF MethodOK
  <2>2. /\ Tells(es, Seen(e, txt.mc.seen), txt.im.serial, txt.shown)
        /\ (e.ev = "imdone" /\ txt.mc.seen + 1 = txt.im.serial => e.field = txt.shown)
    BY <1>1, <2>1, TaleShifts
  <2> QED
    BY <1>n, <2>1, <2>2
<1> HIDE DEF e, es, n, fd
<1>5. txt' \in TextStates
  BY <1>1, <1>2, <1>3, MethodTyped DEF TextStates
<1>6. /\ MethodOnly(txt, txt') /\ txt'.reqs = txt.reqs /\ txt'.evs = es /\ txt'.mc.seen = n /\ txt'.mc.field = fd
      /\ txt'.shown = txt.shown /\ txt'.stale = txt.stale /\ txt'.pop = txt.pop /\ txt'.grab = txt.grab
      /\ txt'.kb = txt.kb /\ txt'.im = txt.im
  BY <1>1, MethodTyped DEF TextStates, MethodOnly
<1>7. EntryOK(txt')
  BY <1>1, <1>6, MethodTyped, EntryRests
<1>10. PopupsOK(txt') /\ GrabOK(txt')
  BY <1>6, MethodTyped, PopupsKept, GrabKept
<1>8. txt.im.st # "none"
  BY <1>1, MethodTyped DEF MethodOK
<1>9. MethodOK(txt')
  BY <1>1, <1>4, <1>6, <1>8, MethodTyped DEF MethodOK, MethodOnly
<1> QED
  BY <1>5, <1>7, <1>9, <1>10 DEF TextInv

LEMMA MethodCommitSent ==
    ASSUME TextInv, MethodCommit
    PROVE  TextInv'
<1>1. PICK t \in {-1, txt.mc.field} :
         txt' = [txt EXCEPT !.reqs = Append(txt.reqs, [op |-> "imcommit", serial |-> txt.mc.seen, text |-> t])]
  BY DEF MethodCommit, Request
<1> DEFINE q == [op |-> "imcommit", serial |-> txt.mc.seen, text |-> t]
           qs == Append(txt.reqs, q)
<1>2. txt.slice # "text" /\ txt.im.st # "none" /\ txt' = [txt EXCEPT !.reqs = qs]
  BY <1>1 DEF MethodCommit
<1>3. q \in MethodRequests /\ q.serial = txt.mc.seen /\ q.text = t
  BY MethodTyped DEF MethodRequests
<1>4. qs \in Seq(TextRequests \cup MethodRequests)
  BY <1>3, MethodTyped
<1>5. ASSUME txt.im.st = "live"
      PROVE  Composed(qs, txt.im.serial, txt.shown)
  <2>1. /\ Tells(txt.evs, txt.mc.seen, txt.im.serial, txt.shown)
        /\ (txt.mc.seen = txt.im.serial => txt.mc.field = txt.shown)
        /\ Composed(txt.reqs, txt.im.serial, txt.shown)
    BY <1>5, MethodTyped DEF MethodOK
  <2>2. txt.mc.seen <= txt.im.serial
    BY <2>1, TaleEnds
  <2> DEFINE ps == txt.reqs
  <2>3. /\ ps \in Seq(MethodRequests)
        /\ \A i \in 1..Len(ps) : ps[i].serial <= txt.im.serial /\ (ps[i].serial = txt.im.serial => ps[i].text \in {-1, txt.shown})
    BY <2>1 DEF Composed
  <2>4. qs = Append(ps, q)
    OBVIOUS
  <2> HIDE DEF ps, q, qs
  <2>5. /\ qs \in Seq(MethodRequests) /\ Len(qs) = Len(ps) + 1 /\ Len(ps) \in Nat
        /\ \A i \in 1..Len(qs) : qs[i] = IF i = Len(ps) + 1 THEN q ELSE ps[i]
    BY <1>3, <2>3, <2>4
  <2> QED
    BY <1>3, <2>1, <2>2, <2>3, <2>5 DEF Composed
<1> HIDE DEF q, qs
<1>6. txt' \in TextStates
  BY <1>2, <1>4, MethodTyped DEF TextStates
<1>7. /\ MethodOnly(txt, txt') /\ txt'.reqs = qs /\ txt'.evs = txt.evs /\ txt'.mc = txt.mc
      /\ txt'.shown = txt.shown /\ txt'.stale = txt.stale /\ txt'.pop = txt.pop /\ txt'.grab = txt.grab
      /\ txt'.kb = txt.kb /\ txt'.im = txt.im
  BY <1>2, MethodTyped DEF TextStates, MethodOnly
<1>8. EntryOK(txt') /\ PopupsOK(txt') /\ GrabOK(txt')
  BY <1>2, <1>7, MethodTyped, EntryRests, PopupsKept, GrabKept
<1>9. MethodOK(txt')
  BY <1>2, <1>5, <1>7, MethodTyped DEF MethodOK, MethodOnly
<1> QED
  BY <1>6, <1>8, <1>9 DEF TextInv

LEMMA MethodCommitHandled ==
    ASSUME TextInv, ServerMethod
    PROVE  TextInv'
<1> DEFINE q == Head(txt.reqs)
           qs == Tail(txt.reqs)
           s == [txt EXCEPT !.reqs = qs]
           late == q.serial # txt.im.serial
           c == IF late THEN txt.im.current ELSE q.text
           w == IF late THEN txt.stale ELSE txt.stale \/ q.text \notin {-1, txt.shown}
<1>1. /\ txt.slice = "method" /\ txt.reqs # <<>>
      /\ txt' = IF txt.im.st = "live" THEN im_commit(im_commit_string(s, q.text), q.serial) ELSE s
  BY DEF ServerMethod
<1>2. qs \in Seq(TextRequests \cup MethodRequests)
  BY <1>1, MethodTyped
<1>3. s \in TextStates
  BY <1>2, MethodTyped DEF TextStates
<1>4. /\ MethodOnly(txt, s) /\ s.reqs = qs /\ s.evs = txt.evs /\ s.mc = txt.mc
      /\ s.shown = txt.shown /\ s.stale = txt.stale /\ s.pop = txt.pop /\ s.grab = txt.grab
      /\ s.kb = txt.kb /\ s.im = txt.im
  BY <1>2, MethodTyped DEF TextStates, MethodOnly
<1>5. txt.im.st # "none"
  BY <1>1, MethodTyped DEF MethodOK
<1>6. CASE txt.im.st # "live"
  <2>1. txt' = s
    BY <1>1, <1>6
  <2> HIDE DEF s, qs
  <2>2. EntryOK(s)
    BY <1>1, <1>4, MethodTyped, EntryRests
  <2>3. PopupsOK(s) /\ GrabOK(s)
    BY <1>4, MethodTyped, PopupsKept, GrabKept
  <2>4. MethodOK(s)
    BY <1>1, <1>4, <1>5, <1>6, MethodTyped DEF MethodOK, MethodOnly
  <2> QED
    BY <1>3, <2>1, <2>2, <2>3, <2>4 DEF TextInv
<1>7. CASE txt.im.st = "live"
  <2>1. Composed(txt.reqs, txt.im.serial, txt.shown) /\ txt.im.pending = -1 /\ ~txt.stale
    BY <1>7, MethodTyped DEF MethodOK
  <2> DEFINE ps == txt.reqs
  <2>2. ps \in Seq(MethodRequests) /\ ps # <<>> /\ q = Head(ps) /\ qs = Tail(ps)
    BY <1>1, <2>1 DEF Composed
  <2>3. /\ \A i \in 1..Len(ps) : ps[i].serial <= txt.im.serial /\ (ps[i].serial = txt.im.serial => ps[i].text \in {-1, txt.shown})
    BY <2>1 DEF Composed
  <2> HIDE DEF ps, q, qs
  <2>4. /\ qs \in Seq(MethodRequests) /\ Len(qs) = Len(ps) - 1 /\ Len(qs) \in Nat /\ Len(ps) \in Nat
        /\ \A i \in 1..Len(qs) : qs[i] = ps[i + 1]
        /\ q = ps[1] /\ q \in MethodRequests /\ 1 \in 1..Len(ps)
    BY <2>2, HeadTailProperties
  <2>5. Composed(qs, txt.im.serial, txt.shown)
    <3>1. \A i \in 1..Len(qs) : i + 1 \in 1..Len(ps)
      BY <2>4
    <3> QED
      BY <2>3, <2>4, <3>1 DEF Composed
  <2>6. q.text \in Int /\ c \in Int /\ w = FALSE
    <3>1. q.text \in Int
      BY <2>4 DEF MethodRequests
    <3>2. ~late => q.text \in {-1, txt.shown}
      BY <2>3, <2>4
    <3> QED
      BY <2>1, <3>1, <3>2, MethodTyped
  <2> DEFINE m == [txt.im EXCEPT !.current = c, !.pending = -1]
  <2>7. txt' = [s EXCEPT !.im = m, !.stale = FALSE]
    <3>0. txt' = im_commit(im_commit_string(s, q.text), q.serial)
      BY <1>1, <1>7
    <3> HIDE DEF s
    <3> DEFINE u == im_commit_string(s, q.text)
               v == [s.im EXCEPT !.pending = q.text]
    <3>1. u = [s EXCEPT !.im = v]
      <4>1. CASE q.text = -1
        <5>1. u = s
          BY <4>1 DEF im_commit_string
        <5>2. v = s.im
          BY <1>4, <2>1, <4>1, MethodTyped
        <5>3. [s EXCEPT !.im = s.im] = s
          BY <1>3 DEF TextStates
        <5> QED
          BY <5>1, <5>2, <5>3
      <4>2. CASE q.text # -1
        BY <4>2 DEF im_commit_string
      <4> QED
        BY <4>1, <4>2
    <3>2. v.serial = txt.im.serial /\ v.pending = q.text
      BY <1>4, MethodTyped
    <3>6. /\ [v EXCEPT !.current = q.text, !.pending = -1] = [txt.im EXCEPT !.current = q.text, !.pending = -1]
          /\ [v EXCEPT !.pending = -1] = [txt.im EXCEPT !.current = txt.im.current, !.pending = -1]
      BY <1>4, MethodTyped
    <3> HIDE DEF u, v, m
    <3>3. u.im = v /\ u.stale = FALSE /\ u.shown = txt.shown
      BY <1>3, <1>4, <2>1, <3>1 DEF TextStates
    <3>4. CASE late
      <4>1. txt' = [u EXCEPT !.im.pending = -1]
        BY <3>0, <3>2, <3>3, <3>4 DEF im_commit, u
      <4>2. txt' = [u EXCEPT !.im = m]
        BY <3>3, <3>4, <3>6, <4>1 DEF m
      <4>3. txt' = [s EXCEPT !.im = m]
        BY <1>3, <3>1, <4>2 DEF TextStates
      <4>4. s.stale = FALSE
        BY <1>4, <2>1
      <4> QED
        BY <1>3, <4>3, <4>4 DEF TextStates
    <3>5. CASE ~late
      <4>1. txt' = Accept(u)
        BY <3>0, <3>2, <3>3, <3>5 DEF im_commit, u
      <4>2. (u.stale \/ u.im.pending \notin {-1, u.shown}) = FALSE
        BY <2>6, <3>2, <3>3, <3>5
      <4>3. txt' = [u EXCEPT !.im.current = q.text, !.im.pending = -1, !.stale = FALSE]
        BY <3>2, <3>3, <4>1, <4>2 DEF Accept
      <4>4. txt' = [u EXCEPT !.im = [v EXCEPT !.current = q.text, !.pending = -1], !.stale = FALSE]
        BY <3>3, <4>3
      <4>5. txt' = [u EXCEPT !.im = m, !.stale = FALSE]
        BY <3>5, <3>6, <4>4 DEF m
      <4> QED
        BY <1>3, <3>1, <4>5 DEF TextStates
    <3> QED
      BY <3>4, <3>5
  <2>15. /\ m \in [st : {"none", "live", "inert"}, active : BOOLEAN, client_active : BOOLEAN,
                   serial : Nat, pending : Int, current : Int]
         /\ m.st = "live" /\ m.client_active = txt.im.client_active
         /\ m.serial = txt.im.serial /\ m.pending = -1
    <3> HIDE DEF c
    <3>1. /\ txt.im \in [st : {"none", "live", "inert"}, active : BOOLEAN, client_active : BOOLEAN,
                         serial : Nat, pending : Int, current : Int]
          /\ txt.im.st = "live" /\ c \in Int /\ -1 \in Int
      BY <1>7, <2>6, MethodTyped
    <3> DEFINE none == -1
    <3>2. m = [txt.im EXCEPT !.current = c, !.pending = none] /\ none = -1
      OBVIOUS
    <3> HIDE DEF m, none
    <3>3. m \in [st : {"none", "live", "inert"}, active : BOOLEAN, client_active : BOOLEAN,
                 serial : Nat, pending : Int, current : Int]
      BY <3>1, <3>2
    <3>4. m.st = "live" /\ m.client_active = txt.im.client_active
          /\ m.serial = txt.im.serial /\ m.pending = none
      BY <3>1, <3>2
    <3> QED
      BY <3>2, <3>3, <3>4
  <2> HIDE DEF s, c, w, late, m
  <2>8. txt' \in TextStates
    BY <1>3, <2>7, <2>15, ZenonT(60) DEF TextStates
  <2>9. /\ MethodOnly(s, txt') /\ txt'.reqs = s.reqs /\ txt'.evs = s.evs /\ txt'.mc = s.mc
        /\ txt'.shown = s.shown /\ txt'.stale = FALSE /\ txt'.pop = s.pop /\ txt'.grab = s.grab
        /\ txt'.kb = s.kb /\ txt'.im = m
    BY <1>3, <2>7 DEF TextStates, MethodOnly
  <2>10. /\ txt'.im.st = "live" /\ txt'.im.client_active = txt.im.client_active
         /\ txt'.im.serial = txt.im.serial /\ txt'.im.pending = -1
    BY <2>9, <2>15
  <2>11. MethodOnly(txt, txt')
    BY <1>4, <2>9 DEF MethodOnly
  <2>12. EntryOK(txt')
    BY <1>1, <2>11, MethodTyped, EntryRests
  <2>13. PopupsOK(txt') /\ GrabOK(txt')
    BY <1>4, <1>7, <2>9, <2>10, MethodTyped, PopupsKept, GrabKept
  <2>14. MethodOK(txt')
    BY <1>1, <1>4, <1>7, <2>5, <2>9, <2>10, <2>11, MethodTyped DEF MethodOK, MethodOnly
  <2> QED
    BY <2>8, <2>12, <2>13, <2>14 DEF TextInv
<1> QED
  BY <1>6, <1>7

(* Steps of popups, of the grab and of keyboards: the texts rest.           *)
TextsRest(s, t) ==
    /\ MethodOnly(s, t) /\ t.reqs = s.reqs /\ t.evs = s.evs /\ t.im = s.im /\ t.mc = s.mc
    /\ t.shown = s.shown /\ t.stale = s.stale

LEMMA TextsAtRest ==
    ASSUME NEW s, NEW t, EntryOK(s), MethodOK(s), TextsRest(s, t)
    PROVE  EntryOK(t) /\ MethodOK(t)
<1>1. EntryOK(t)
  BY DEF EntryOK, Entry, Wanted, TextsRest, MethodOnly
<1>2. MethodOK(t)
  BY DEF MethodOK, TextsRest, MethodOnly
<1> QED
  BY <1>1, <1>2

(* One popup changes.                                                       *)
LEMMA PopupMoves ==
    ASSUME TextInv, NEW f \in TxSurface, NEW p \in [on : BOOLEAN, mapped : BOOLEAN, buffer : BOOLEAN],
           Shows(p, txt.im), txt' = [txt EXCEPT !.pop[f] = p]
    PROVE  TextInv'
<1>1. /\ txt \in TextStates
      /\ txt.pop \in [TxSurface -> [on : BOOLEAN, mapped : BOOLEAN, buffer : BOOLEAN]]
  BY MethodTyped
<1> DEFINE pop == [txt.pop EXCEPT ![f] = p]
<1>2. /\ pop \in [TxSurface -> [on : BOOLEAN, mapped : BOOLEAN, buffer : BOOLEAN]]
      /\ \A g \in TxSurface : pop[g] = IF g = f THEN p ELSE txt.pop[g]
  BY <1>1
<1>3. txt' = [txt EXCEPT !.pop = pop]
  BY <1>1 DEF TextStates
<1> HIDE DEF pop
<1>4. txt' \in TextStates
  BY <1>1, <1>2, <1>3, ZenonT(60) DEF TextStates
<1>5. TextsRest(txt, txt') /\ txt'.pop = pop /\ txt'.im = txt.im /\ txt'.grab = txt.grab /\ txt'.kb = txt.kb
  BY <1>1, <1>3 DEF TextStates, TextsRest, MethodOnly
<1>6. EntryOK(txt') /\ MethodOK(txt')
  BY <1>5, MethodTyped, TextsAtRest
<1>7. GrabOK(txt')
  BY <1>5, MethodTyped, GrabKept
<1>8. PopupsOK(txt')
  BY <1>2, <1>5, MethodTyped DEF PopupsOK
<1> QED
  BY <1>4, <1>6, <1>7, <1>8 DEF TextInv

(* Only the grab, the keyboards or the mark of an orphan change.            *)
Grabbing(g, k, im) ==
    /\ g \in [on : BOOLEAN, kb : TxKeyboard \cup {"none"}, told : {"none", "m1", "m2", "gone"}]
    /\ k \in [TxKeyboard -> {"m1", "m2", "gone"}]
    /\ g.kb # "none" => k[g.kb] # "gone" /\ g.told = k[g.kb]
    /\ g.on => im.st = "live"
    /\ ~g.on => g.kb = "none"

LEMMA GrabMoves ==
    ASSUME TextInv, NEW g, NEW k, NEW o \in BOOLEAN, Grabbing(g, k, txt.im),
           txt' = [txt EXCEPT !.grab = g, !.kb = k, !.orphan = o]
    PROVE  TextInv'
<1>1. txt \in TextStates
  BY MethodTyped
<1>4. txt' \in TextStates
  BY <1>1 DEF TextStates, Grabbing
<1>5. TextsRest(txt, txt') /\ txt'.pop = txt.pop /\ txt'.im = txt.im /\ txt'.grab = g /\ txt'.kb = k
  BY <1>1 DEF TextStates, TextsRest, MethodOnly
<1>6. EntryOK(txt') /\ MethodOK(txt')
  BY <1>5, MethodTyped, TextsAtRest
<1>7. GrabOK(txt')
  BY <1>5 DEF GrabOK, Grabbing
<1>8. PopupsOK(txt')
  <2>1. PopupsOK(txt)
    BY MethodTyped
  <2> QED
    BY <1>5, <2>1 DEF PopupsOK
<1> QED
  BY <1>4, <1>6, <1>7, <1>8 DEF TextInv

LEMMA PopupSteps ==
    ASSUME TextInv, NEW f \in TxSurface,
           im_get_input_popup_surface(f) \/ popup_surface_surface_role_destroy(f) \/ PopupSurfaceCommit(f)
    PROVE  TextInv'
<1>t. /\ txt \in TextStates
      /\ txt.pop \in [TxSurface -> [on : BOOLEAN, mapped : BOOLEAN, buffer : BOOLEAN]]
      /\ txt.pop[f] \in [on : BOOLEAN, mapped : BOOLEAN, buffer : BOOLEAN]
      /\ Shows(txt.pop[f], txt.im)
      /\ txt.im \in [st : {"none", "live", "inert"}, active : BOOLEAN, client_active : BOOLEAN,
                     serial : Nat, pending : Int, current : Int]
      /\ GrabOK(txt) /\ txt.orphan \in BOOLEAN
      /\ txt.grab \in [on : BOOLEAN, kb : TxKeyboard \cup {"none"}, told : {"none", "m1", "m2", "gone"}]
      /\ txt.kb \in [TxKeyboard -> {"m1", "m2", "gone"}]
  BY MethodTyped DEF PopupsOK, TextStates
<1> DEFINE old == txt.pop[f]
<1>o. txt' = [txt EXCEPT !.orphan = TRUE] => TextInv'
  <2> SUFFICES ASSUME txt' = [txt EXCEPT !.orphan = TRUE]
               PROVE  TextInv'
    OBVIOUS
  <2>1. txt' = [txt EXCEPT !.grab = txt.grab, !.kb = txt.kb, !.orphan = TRUE]
    BY <1>t DEF TextStates
  <2>2. /\ txt.grab.kb # "none" => txt.kb[txt.grab.kb] # "gone" /\ txt.grab.told = txt.kb[txt.grab.kb]
        /\ txt.grab.on => txt.im.st = "live"
        /\ ~txt.grab.on => txt.grab.kb = "none"
    BY <1>t DEF GrabOK
  <2>3. Grabbing(txt.grab, txt.kb, txt.im)
    BY <1>t, <2>2 DEF Grabbing
  <2> QED
    BY <2>1, <2>3, GrabMoves
<1>u. ASSUME NEW p \in [on : BOOLEAN, mapped : BOOLEAN, buffer : BOOLEAN]
      PROVE  popup_surface_update_mapped([txt EXCEPT !.pop[f] = p], f) =
               [txt EXCEPT !.pop[f] = [p EXCEPT !.mapped = IF txt.im.client_active THEN p.mapped \/ p.buffer ELSE FALSE]]
  <2> DEFINE s == [txt EXCEPT !.pop[f] = p]
             m == IF txt.im.client_active THEN p.mapped \/ p.buffer ELSE FALSE
  <2>1. s.im = txt.im /\ s.pop[f] = p
    BY <1>t DEF TextStates
  <2>2. popup_surface_update_mapped(s, f) = [s EXCEPT !.pop[f].mapped = m]
    BY <2>1 DEF popup_surface_update_mapped
  <2> HIDE DEF m
  <2>3. [s EXCEPT !.pop[f].mapped = m] = [txt EXCEPT !.pop[f] = [p EXCEPT !.mapped = m]]
    BY <1>t DEF TextStates
  <2> QED
    BY <2>2, <2>3 DEF m
<1>1. CASE im_get_input_popup_surface(f)
  <2>1. CASE txt.im.st = "inert"
    BY <1>1, <1>o, <2>1 DEF im_get_input_popup_surface
  <2>2. CASE txt.im.st # "inert"
    <3> DEFINE p == [old EXCEPT !.on = TRUE]
               r == [p EXCEPT !.mapped = IF txt.im.client_active THEN p.mapped \/ p.buffer ELSE FALSE]
    <3>1. txt.im.st = "live" /\ ~old.on /\ txt' = popup_surface_update_mapped([txt EXCEPT !.pop[f].on = TRUE], f)
      BY <1>1, <1>t, <2>2 DEF im_get_input_popup_surface
    <3>2. [txt EXCEPT !.pop[f].on = TRUE] = [txt EXCEPT !.pop[f] = p]
      OBVIOUS
    <3>3. p \in [on : BOOLEAN, mapped : BOOLEAN, buffer : BOOLEAN] /\ p.mapped = old.mapped /\ p.buffer = old.buffer /\ p.on = TRUE
      BY <1>t
    <3>4. txt' = [txt EXCEPT !.pop[f] = r]
      BY <1>u, <3>1, <3>2, <3>3
    <3> HIDE DEF p
    <3>5. txt.im.client_active \in BOOLEAN /\ ~old.mapped
      BY <1>t, <3>1 DEF Shows
    <3>6. /\ r \in [on : BOOLEAN, mapped : BOOLEAN, buffer : BOOLEAN] /\ r.on = TRUE /\ r.buffer = p.buffer
          /\ r.mapped = IF txt.im.client_active THEN p.mapped \/ p.buffer ELSE FALSE
      BY <3>3, <3>5
    <3>7. Shows(r, txt.im)
      BY <3>1, <3>3, <3>5, <3>6 DEF Shows
    <3> HIDE DEF r
    <3> QED
      BY <3>4, <3>6, <3>7, PopupMoves
  <2> QED
    BY <2>1, <2>2
<1>2. CASE popup_surface_surface_role_destroy(f)
  <2> DEFINE p == [old EXCEPT !.on = FALSE, !.mapped = FALSE]
  <2>1. txt' = [txt EXCEPT !.pop[f].on = FALSE, !.pop[f].mapped = FALSE]
    BY <1>2 DEF popup_surface_surface_role_destroy, popup_surface_destroy
  <2>2. txt' = [txt EXCEPT !.pop[f] = p]
    BY <2>1, <1>t DEF TextStates
  <2>3. p \in [on : BOOLEAN, mapped : BOOLEAN, buffer : BOOLEAN] /\ p.on = FALSE /\ p.mapped = FALSE
    BY <1>t
  <2>4. Shows(p, txt.im)
    BY <2>3 DEF Shows
  <2> HIDE DEF p
  <2> QED
    BY <2>2, <2>3, <2>4, PopupMoves
<1>3. CASE PopupSurfaceCommit(f)
  <2>1. PICK b \in BOOLEAN :
           LET s == [txt EXCEPT !.pop[f].buffer = b, !.pop[f].mapped = @ /\ b]
           IN txt' = IF txt.pop[f].on THEN popup_surface_update_mapped(s, f) ELSE s
    BY <1>3 DEF PopupSurfaceCommit
  <2> DEFINE m == old.mapped /\ b
             p == [old EXCEPT !.buffer = b, !.mapped = m]
             s == [txt EXCEPT !.pop[f].buffer = b, !.pop[f].mapped = old.mapped /\ b]
             r == [p EXCEPT !.mapped = IF txt.im.client_active THEN p.mapped \/ p.buffer ELSE FALSE]
  <2>2. txt' = IF old.on THEN popup_surface_update_mapped(s, f) ELSE s
    <3>1. [txt EXCEPT !.pop[f].buffer = b, !.pop[f].mapped = @ /\ b] = s
      BY <1>t DEF TextStates
    <3> QED
      BY <2>1, <3>1
  <2>3. m \in BOOLEAN
    BY <1>t
  <2>4. s = [txt EXCEPT !.pop[f] = p]
    <3>1. s = [txt EXCEPT !.pop[f].buffer = b, !.pop[f].mapped = m]
      OBVIOUS
    <3> HIDE DEF m, s
    <3> DEFINE a == [old EXCEPT !.buffer = b]
               q == [txt.pop EXCEPT ![f] = a]
               u == [txt EXCEPT !.pop = q]
    <3>2. s = [u EXCEPT !.pop[f].mapped = m]
      BY <3>1
    <3>3. q[f] = a /\ [q EXCEPT ![f] = p] = [txt.pop EXCEPT ![f] = p] /\ p = [a EXCEPT !.mapped = m]
      BY <1>t
    <3> HIDE DEF q, a, p
    <3>4. u.pop = q
      BY <1>t DEF TextStates
    <3>5. s = [u EXCEPT !.pop = [q EXCEPT ![f] = p]]
      BY <3>2, <3>3, <3>4
    <3> QED
      BY <3>3, <3>5
  <2>5. /\ p \in [on : BOOLEAN, mapped : BOOLEAN, buffer : BOOLEAN]
        /\ p.mapped = m /\ p.buffer = b /\ p.on = old.on
    <3> HIDE DEF m
    <3> QED
      BY <1>t, <2>3
  <2>6. CASE ~old.on
    <3>1. txt' = [txt EXCEPT !.pop[f] = p]
      BY <2>2, <2>4, <2>6
    <3>2. Shows(p, txt.im)
      BY <1>t, <2>5, <2>6 DEF Shows
    <3> HIDE DEF p
    <3> QED
      BY <2>5, <3>1, <3>2, PopupMoves
  <2>7. CASE old.on
    <3>4. txt' = [txt EXCEPT !.pop[f] = r]
      BY <1>u, <2>2, <2>4, <2>5, <2>7
    <3> HIDE DEF p
    <3>5. txt.im.client_active \in BOOLEAN
      BY <1>t
    <3>6. /\ r \in [on : BOOLEAN, mapped : BOOLEAN, buffer : BOOLEAN] /\ r.on = p.on /\ r.buffer = p.buffer
          /\ r.mapped = IF txt.im.client_active THEN p.mapped \/ p.buffer ELSE FALSE
      BY <2>5, <3>5
    <3>7. Shows(r, txt.im)
      BY <1>t, <2>5, <2>7, <3>5, <3>6 DEF Shows
    <3> HIDE DEF r
    <3> QED
      BY <3>4, <3>6, <3>7, PopupMoves
  <2> QED
    BY <2>6, <2>7
<1> QED
  BY <1>1, <1>2, <1>3

LEMMA GrabSteps ==
    ASSUME TextInv, im_grab_keyboard \/ keyboard_grab_resource_destroy
    PROVE  TextInv'
<1>t. /\ txt \in TextStates /\ GrabOK(txt) /\ txt.orphan \in BOOLEAN
      /\ txt.grab \in [on : BOOLEAN, kb : TxKeyboard \cup {"none"}, told : {"none", "m1", "m2", "gone"}]
      /\ txt.kb \in [TxKeyboard -> {"m1", "m2", "gone"}]
      /\ txt.im.st \in {"none", "live", "inert"}
  BY MethodTyped DEF TextStates
<1>g. /\ txt.grab.kb # "none" => txt.kb[txt.grab.kb] # "gone" /\ txt.grab.told = txt.kb[txt.grab.kb]
      /\ txt.grab.on => txt.im.st = "live"
      /\ ~txt.grab.on => txt.grab.kb = "none"
  BY <1>t DEF GrabOK
<1>1. CASE im_grab_keyboard
  <2>1. CASE txt.im.st = "inert" \/ txt.grab.on
    <3>1. txt' = [txt EXCEPT !.orphan = TRUE]
      BY <1>1, <2>1 DEF im_grab_keyboard
    <3>2. txt' = [txt EXCEPT !.grab = txt.grab, !.kb = txt.kb, !.orphan = TRUE]
      BY <1>t, <3>1 DEF TextStates
    <3>3. Grabbing(txt.grab, txt.kb, txt.im)
      BY <1>t, <1>g DEF Grabbing
    <3> QED
      BY <3>2, <3>3, GrabMoves
  <2>2. CASE ~(txt.im.st = "inert" \/ txt.grab.on)
    <3> DEFINE g == [txt.grab EXCEPT !.on = TRUE]
    <3>1. txt.im.st = "live" /\ txt' = [txt EXCEPT !.grab = g]
      BY <1>1, <1>t, <2>2 DEF im_grab_keyboard
    <3>2. /\ g \in [on : BOOLEAN, kb : TxKeyboard \cup {"none"}, told : {"none", "m1", "m2", "gone"}]
          /\ g.on = TRUE /\ g.kb = "none"
      BY <1>t, <1>g, <2>2
    <3> HIDE DEF g
    <3>3. txt' = [txt EXCEPT !.grab = g, !.kb = txt.kb, !.orphan = txt.orphan]
      BY <1>t, <3>1 DEF TextStates
    <3>4. /\ g.kb # "none" => txt.kb[g.kb] # "gone" /\ g.told = txt.kb[g.kb]
          /\ g.on => txt.im.st = "live"
          /\ ~g.on => g.kb = "none"
      BY <3>1, <3>2
    <3>5. Grabbing(g, txt.kb, txt.im)
      BY <1>t, <3>2, <3>4 DEF Grabbing
    <3> QED
      BY <1>t, <3>3, <3>5, GrabMoves
  <2> QED
    BY <2>1, <2>2
<1>2. CASE keyboard_grab_resource_destroy
  <2>1. txt' = [txt EXCEPT !.grab = NoGrab]
    BY <1>2 DEF keyboard_grab_resource_destroy, wlr_input_method_keyboard_grab_v2_destroy
  <2>2. /\ NoGrab \in [on : BOOLEAN, kb : TxKeyboard \cup {"none"}, told : {"none", "m1", "m2", "gone"}]
        /\ NoGrab.on = FALSE /\ NoGrab.kb = "none"
    BY DEF NoGrab
  <2>3. txt' = [txt EXCEPT !.grab = NoGrab, !.kb = txt.kb, !.orphan = txt.orphan]
    BY <1>t, <2>1 DEF TextStates
  <2>4. /\ NoGrab.kb # "none" => txt.kb[NoGrab.kb] # "gone" /\ NoGrab.told = txt.kb[NoGrab.kb]
        /\ NoGrab.on => txt.im.st = "live"
        /\ ~NoGrab.on => NoGrab.kb = "none"
    BY <2>2
  <2>5. Grabbing(NoGrab, txt.kb, txt.im)
    BY <1>t, <2>2, <2>4 DEF Grabbing
  <2> QED
    BY <1>t, <2>3, <2>5, GrabMoves
<1> QED
  BY <1>1, <1>2

LEMMA KeyboardSteps ==
    ASSUME TextInv, NEW k \in TxKeyboard,
           \/ GrabSetKeyboard(k) \/ handle_keyboard_destroy(k) \/ NewKeyboard(k)
           \/ \E m \in {"m1", "m2"} : GrabKeymap(k, m)
    PROVE  TextInv'
<1>t. /\ txt \in TextStates /\ GrabOK(txt) /\ txt.orphan \in BOOLEAN
      /\ txt.grab \in [on : BOOLEAN, kb : TxKeyboard \cup {"none"}, told : {"none", "m1", "m2", "gone"}]
      /\ txt.kb \in [TxKeyboard -> {"m1", "m2", "gone"}]
      /\ txt.im.st \in {"none", "live", "inert"}
  BY MethodTyped DEF TextStates
<1>g. /\ txt.grab.kb # "none" => txt.kb[txt.grab.kb] # "gone" /\ txt.grab.told = txt.kb[txt.grab.kb]
      /\ txt.grab.on => txt.im.st = "live"
      /\ ~txt.grab.on => txt.grab.kb = "none"
  BY <1>t DEF GrabOK
<1>n. "none" # k
  BY TextAssumption
(* A grab, a keymap: what must be seen of them.                             *)
<1>m. ASSUME NEW g, NEW f, Grabbing(g, f, txt.im), txt' = [txt EXCEPT !.grab = g, !.kb = f]
      PROVE  TextInv'
  <2>1. txt' = [txt EXCEPT !.grab = g, !.kb = f, !.orphan = txt.orphan]
    BY <1>t, <1>m DEF TextStates, Grabbing
  <2>3. txt.orphan \in BOOLEAN
    BY <1>t
  <2> QED
    BY <1>m, <2>1, <2>3, GrabMoves
<1>1. CASE GrabSetKeyboard(k)
  <2>0. txt.grab.on /\ txt.kb[k] # "gone" /\ txt' = wlr_input_method_keyboard_grab_v2_set_keyboard(txt, k)
    BY <1>1 DEF GrabSetKeyboard
  <2>1. CASE txt.grab.kb = k
    <3>1. txt' = txt
      BY <2>0, <2>1 DEF wlr_input_method_keyboard_grab_v2_set_keyboard
    <3>2. txt' = [txt EXCEPT !.grab = txt.grab, !.kb = txt.kb]
      BY <1>t, <3>1 DEF TextStates
    <3>3. Grabbing(txt.grab, txt.kb, txt.im)
      BY <1>t, <1>g DEF Grabbing
    <3> QED
      BY <1>m, <3>2, <3>3
  <2>2. CASE txt.grab.kb # k
    <3> DEFINE send == txt.grab.kb = "none" \/ txt.kb[txt.grab.kb] # txt.kb[k]
               told == IF send THEN txt.kb[k] ELSE txt.grab.told
               g == [txt.grab EXCEPT !.told = told, !.kb = k]
    <3>1. txt' = [(IF send THEN [txt EXCEPT !.grab.told = txt.kb[k]] ELSE txt) EXCEPT !.grab.kb = k]
      BY <1>n, <2>0, <2>2 DEF wlr_input_method_keyboard_grab_v2_set_keyboard, keyboard_grab_send_keymap
    <3>2. told \in {"none", "m1", "m2", "gone"} /\ told = txt.kb[k]
      BY <1>t, <1>g
    <3>3. txt' = [txt EXCEPT !.grab = g]
      <4>1. CASE send
        BY <1>t, <3>1, <4>1 DEF TextStates
      <4>2. CASE ~send
        <5>1. g = [txt.grab EXCEPT !.kb = k]
          BY <1>t, <4>2
        <5>2. txt' = [txt EXCEPT !.grab.kb = k]
          BY <3>1, <4>2
        <5> QED
          BY <5>1, <5>2
      <4> QED
        BY <4>1, <4>2
    <3> HIDE DEF send, told
    <3>4. /\ g \in [on : BOOLEAN, kb : TxKeyboard \cup {"none"}, told : {"none", "m1", "m2", "gone"}]
          /\ g.on = txt.grab.on /\ g.kb = k /\ g.told = told
      BY <1>t, <3>2
    <3> HIDE DEF g
    <3>5. txt' = [txt EXCEPT !.grab = g, !.kb = txt.kb]
      BY <1>t, <3>3 DEF TextStates
    <3>6. /\ ~g.on => g.kb = "none"
          /\ g.kb # "none" => txt.kb[g.kb] # "gone" /\ g.told = txt.kb[g.kb]
      BY <2>0, <3>2, <3>4
    <3>7. Grabbing(g, txt.kb, txt.im)
      BY <1>g, <1>t, <3>4, <3>6 DEF Grabbing
    <3> QED
      BY <1>m, <3>5, <3>7
  <2> QED
    BY <2>1, <2>2
<1>2. CASE handle_keyboard_destroy(k)
  <2> DEFINE f == [txt.kb EXCEPT ![k] = "gone"]
             g == IF txt.grab.kb = k THEN [txt.grab EXCEPT !.kb = "none"] ELSE txt.grab
  <2>1. txt' = [txt EXCEPT !.grab = g, !.kb = f]
    <3>1. CASE txt.grab.kb = k
      <4>1. wlr_input_method_keyboard_grab_v2_set_keyboard(txt, "none") = [txt EXCEPT !.grab.kb = "none"]
        BY <1>n, <3>1 DEF wlr_input_method_keyboard_grab_v2_set_keyboard
      <4>2. txt' = [[txt EXCEPT !.grab.kb = "none"] EXCEPT !.kb[k] = "gone"]
        BY <1>2, <3>1, <4>1 DEF handle_keyboard_destroy
      <4> QED
        BY <1>t, <3>1, <4>2 DEF TextStates
    <3>2. CASE txt.grab.kb # k
      <4>1. txt' = [txt EXCEPT !.kb[k] = "gone"]
        BY <1>2, <3>2 DEF handle_keyboard_destroy
      <4> QED
        BY <1>t, <3>2, <4>1 DEF TextStates
    <3> QED
      BY <3>1, <3>2
  <2>2. /\ g \in [on : BOOLEAN, kb : TxKeyboard \cup {"none"}, told : {"none", "m1", "m2", "gone"}]
        /\ g.on = txt.grab.on /\ g.told = txt.grab.told
        /\ g.kb = IF txt.grab.kb = k THEN "none" ELSE txt.grab.kb
    BY <1>t
  <2>3. /\ f \in [TxKeyboard -> {"m1", "m2", "gone"}]
        /\ \A x \in TxKeyboard : x # k => f[x] = txt.kb[x]
    BY <1>t
  <2>4. /\ ~g.on => g.kb = "none"
        /\ g.kb # "none" => f[g.kb] # "gone" /\ g.told = f[g.kb]
    <3> HIDE DEF g, f
    <3> QED
      BY <1>g, <1>t, <2>2, <2>3
  <2> HIDE DEF g, f
  <2>5. Grabbing(g, f, txt.im)
    BY <1>g, <2>2, <2>3, <2>4 DEF Grabbing
  <2> QED
    BY <1>m, <2>1, <2>5
<1>3. CASE NewKeyboard(k)
  <2> DEFINE f == [txt.kb EXCEPT ![k] = "m1"]
  <2>1. txt' = [txt EXCEPT !.grab = txt.grab, !.kb = f] /\ txt.kb[k] = "gone"
    BY <1>3, <1>t DEF NewKeyboard, TextStates
  <2>3. /\ f \in [TxKeyboard -> {"m1", "m2", "gone"}]
        /\ \A x \in TxKeyboard : x # k => f[x] = txt.kb[x]
    BY <1>t
  <2> HIDE DEF f
  <2>4. txt.grab.kb # "none" => f[txt.grab.kb] # "gone" /\ txt.grab.told = f[txt.grab.kb]
    BY <1>g, <1>t, <2>1, <2>3
  <2>5. Grabbing(txt.grab, f, txt.im)
    BY <1>g, <1>t, <2>3, <2>4 DEF Grabbing
  <2> QED
    BY <1>m, <2>1, <2>5
<1>4. ASSUME NEW m \in {"m1", "m2"}, GrabKeymap(k, m)
      PROVE  TextInv'
  <2> DEFINE f == [txt.kb EXCEPT ![k] = m]
             s == [txt EXCEPT !.kb[k] = m]
             told == IF txt.grab.on /\ txt.grab.kb = k THEN m ELSE txt.grab.told
             g == [txt.grab EXCEPT !.told = told]
  <2>1. s = [txt EXCEPT !.kb = f]
    BY <1>t
  <2>3. /\ f \in [TxKeyboard -> {"m1", "m2", "gone"}] /\ f[k] = m
        /\ \A x \in TxKeyboard : x # k => f[x] = txt.kb[x]
    BY <1>t
  <2>2. txt' = IF s.grab.on /\ s.grab.kb = k THEN [s EXCEPT !.grab.told = s.kb[k]] ELSE s
    BY <1>4 DEF GrabKeymap, keyboard_grab_send_keymap
  <2> HIDE DEF f, s
  <2>4. s.grab = txt.grab /\ s.kb = f
    BY <1>t, <2>1 DEF TextStates
  <2>5. txt' = [txt EXCEPT !.grab = g, !.kb = f]
    <3>1. CASE txt.grab.on /\ txt.grab.kb = k
      <4>1. txt' = [s EXCEPT !.grab.told = m]
        BY <2>2, <2>3, <2>4, <3>1
      <4>2. txt' = [s EXCEPT !.grab = g]
        BY <2>4, <3>1, <4>1
      <4> HIDE DEF g
      <4> QED
        BY <1>t, <2>1, <4>2 DEF TextStates
    <3>2. CASE ~(txt.grab.on /\ txt.grab.kb = k)
      <4>1. txt' = s
        BY <2>2, <2>4, <3>2
      <4>2. g = txt.grab
        BY <1>t, <3>2
      <4> QED
        BY <1>t, <2>1, <4>1, <4>2 DEF TextStates
    <3> QED
      BY <3>1, <3>2
  <2>6. told \in {"none", "m1", "m2", "gone"}
    BY <1>t
  <2>7. /\ g \in [on : BOOLEAN, kb : TxKeyboard \cup {"none"}, told : {"none", "m1", "m2", "gone"}]
        /\ g.on = txt.grab.on /\ g.kb = txt.grab.kb /\ g.told = told
    <3> HIDE DEF told
    <3> QED
      BY <1>t, <2>6
  <2> HIDE DEF g
  <2>8. /\ ~g.on => g.kb = "none"
        /\ g.kb # "none" => f[g.kb] # "gone" /\ g.told = f[g.kb]
    BY <1>g, <1>t, <2>3, <2>7
  <2>9. Grabbing(g, f, txt.im)
    BY <1>g, <2>3, <2>7, <2>8 DEF Grabbing
  <2> QED
    BY <1>m, <2>5, <2>9
<1> QED
  BY <1>1, <1>2, <1>3, <1>4

LEMMA MethodGone ==
    ASSUME TextInv, wlr_input_method_v2_send_unavailable
    PROVE  TextInv'
<1> DEFINE im == [NoMethod EXCEPT !.st = "inert"]
           pop == [f \in TxSurface |-> popup_surface_destroy(txt, f).pop[f]]
           qs == <<>>
           es == <<>>
<1>0. /\ txt \in TextStates
      /\ txt.pop \in [TxSurface -> [on : BOOLEAN, mapped : BOOLEAN, buffer : BOOLEAN]]
  BY MethodTyped
<1>1. /\ txt.im.st = "live"
      /\ txt' = [txt EXCEPT !.grab = NoGrab, !.pop = pop, !.im = im, !.evs = es, !.reqs = qs]
  BY DEF wlr_input_method_v2_send_unavailable, input_method_destroy, wlr_input_method_keyboard_grab_v2_destroy
<1>2. /\ im \in [st : {"none", "live", "inert"}, active : BOOLEAN, client_active : BOOLEAN,
                 serial : Nat, pending : Int, current : Int]
      /\ im.st = "inert" /\ im.pending = -1
  <2>1. /\ NoMethod \in [st : {"none", "live", "inert"}, active : BOOLEAN, client_active : BOOLEAN,
                         serial : Nat, pending : Int, current : Int]
        /\ NoMethod.pending = -1
    BY DEF NoMethod
  <2> QED
    BY <2>1
<1>3. /\ qs \in Seq(TextRequests \cup MethodRequests) /\ es \in Seq(TextEvents \cup MethodEvents)
  BY EmptySeq
<1>4. /\ NoGrab \in [on : BOOLEAN, kb : TxKeyboard \cup {"none"}, told : {"none", "m1", "m2", "gone"}]
      /\ NoGrab.on = FALSE /\ NoGrab.kb = "none"
  BY DEF NoGrab
<1>5. /\ pop \in [TxSurface -> [on : BOOLEAN, mapped : BOOLEAN, buffer : BOOLEAN]]
      /\ \A f \in TxSurface : pop[f].on = FALSE /\ pop[f].mapped = FALSE
  <2>1. \A f \in TxSurface : popup_surface_destroy(txt, f).pop[f] = [txt.pop[f] EXCEPT !.on = FALSE, !.mapped = FALSE]
    BY <1>0 DEF popup_surface_destroy, TextStates
  <2>2. pop = [f \in TxSurface |-> [txt.pop[f] EXCEPT !.on = FALSE, !.mapped = FALSE]]
    BY <2>1
  <2> HIDE DEF pop
  <2> QED
    BY <1>0, <2>2
<1> HIDE DEF im, pop, qs, es
<1>6. txt' \in TextStates
  BY <1>0, <1>1, <1>2, <1>3, <1>4, <1>5, ZenonT(60) DEF TextStates
<1>7. /\ MethodOnly(txt, txt') /\ txt'.im = im /\ txt'.pop = pop /\ txt'.grab = NoGrab /\ txt'.stale = txt.stale
  BY <1>0, <1>1 DEF TextStates, MethodOnly
<1>8. txt.slice # "text" /\ EntryOK(txt) /\ ~txt.stale
  BY <1>1, MethodTyped DEF MethodOK
<1>9. EntryOK(txt')
  BY <1>7, <1>8, EntryRests
<1>10. MethodOK(txt')
  BY <1>2, <1>7, <1>8 DEF MethodOK, MethodOnly
<1>11. PopupsOK(txt')
  BY <1>2, <1>5, <1>7 DEF PopupsOK, Shows
<1>12. GrabOK(txt')
  BY <1>4, <1>7 DEF GrabOK
<1> QED
  BY <1>6, <1>9, <1>10, <1>11, <1>12 DEF TextInv

(* TextInv is inductive.                                                    *)
LEMMA TextSteps ==
    ASSUME TextInv, TxNext
    PROVE  TextInv'
<1>1. ASSUME NEW f \in TxSurface, wlr_text_input_v3_send_enter(f)
      PROVE  TextInv'
  <2>1. f \in txt.live \cup {"none"} /\ txt.ti.st = "live" /\ txt' = [txt EXCEPT !.ti.focus = f]
    BY <1>1 DEF wlr_text_input_v3_send_enter
  <2> QED
    BY <2>1, FocusMoves
<1>2. CASE wlr_text_input_v3_send_leave
  <2>1. "none" \in txt.live \cup {"none"} /\ txt.ti.st = "live" /\ txt' = [txt EXCEPT !.ti.focus = "none"]
    BY <1>2 DEF wlr_text_input_v3_send_leave
  <2> QED
    BY <2>1, FocusMoves
<1>3. ASSUME NEW f \in TxSurface,
             SurfaceGone(f) \/ im_get_input_popup_surface(f) \/ popup_surface_surface_role_destroy(f) \/ PopupSurfaceCommit(f)
      PROVE  TextInv'
  BY <1>3, SurfaceGoneKeeps, PopupSteps
<1>4. ASSUME NEW k \in TxKeyboard,
             \/ GrabSetKeyboard(k) \/ handle_keyboard_destroy(k) \/ NewKeyboard(k)
             \/ \E m \in {"m1", "m2"} : GrabKeymap(k, m)
      PROVE  TextInv'
  BY <1>4, KeyboardSteps
<1> QED
  BY <1>1, <1>2, <1>3, <1>4, TextInputMade, ClientTextKeeps, ServerTextKeeps, DoneSent, DoneRead, TextInputGone,
     MethodMade, ActivateKeeps, MethodDoneSent, MethodEventRead, MethodCommitSent, MethodCommitHandled, GrabSteps,
     MethodGone DEF TxNext

LEMMA TextSound ==
    ASSUME TextInv
    PROVE  TextInputSound
<1>1. EntryOK(txt) /\ MethodOK(txt) /\ PopupsOK(txt) /\ GrabOK(txt) /\ txt \in TextStates
  BY DEF TextInv
<1>2. txt.ti.st = "live" /\ txt.reqs = <<>> => txt.ti.serial = txt.cl.sent /\ txt.ti.current = txt.cl.last
  <2> SUFFICES ASSUME txt.ti.st = "live", txt.reqs = <<>>
               PROVE  txt.ti.serial = txt.cl.sent /\ txt.ti.current = txt.cl.last
    OBVIOUS
  <2>1. Reaches(txt.reqs, Entry(txt), Wanted(txt))
    BY <1>1 DEF EntryOK
  <2>2. Entry(txt) = Wanted(txt)
    BY <2>1, WayEnds
  <2>3. Entry(txt).serial = Wanted(txt).serial /\ Entry(txt).current = Wanted(txt).current
    BY <2>2
  <2> QED
    BY <2>3 DEF Entry, Wanted
<1>3. AnswersCurrent
  BY <1>1, <1>2 DEF AnswersCurrent, EntryOK
<1>4. MethodCurrent
  BY <1>1 DEF MethodCurrent, MethodOK, PopupsOK, Shows, GrabOK
<1> QED
  BY <1>3, <1>4 DEF TextInputSound

LEMMA TextRests ==
    ASSUME TextInv, txt' = txt
    PROVE  TextInv'
  BY DEF TextInv

(* The invariant of the text input, where it is the part that moves.        *)
TextPart == part = "text" => TextInv

(* A text field and an input method, each with requests and events in       *)
(* flight, at any depth: an answer that counts as current answers the last  *)
(* commit (wlr_text_input_v3_send_done), a text reaches the field it was    *)
(* composed for (im_commit), popups show exactly while the method is        *)
(* active, and the grabbed keyboard exists and its keymap is known.         *)
THEOREM TextIsAgreed == Spec => []TextAgreed
<1>1. Init => TextPart
  BY TextStarts DEF Init, TextPart
<1>2. TextPart /\ [Next]_InputVars => TextPart'
  <2> SUFFICES ASSUME TextPart, [Next]_InputVars, part' = "text"
               PROVE  TextInv'
    BY DEF TextPart
  <2>1. CASE part = "text" /\ TxNext
    BY <2>1, TextSteps DEF TextPart
  <2>2. CASE part = "text" /\ txt' = txt
    BY <2>2, TextRests DEF TextPart
  <2>3. part = "text" /\ (TxNext \/ txt' = txt)
    BY DEF Next, InputVars
  <2> QED
    BY <2>1, <2>2, <2>3
<1>3. TextPart => TextAgreed
  BY TextSound DEF TextPart, TextAgreed
<1> QED
  BY <1>1, <1>2, <1>3, PTL DEF Spec
=============================================================================
