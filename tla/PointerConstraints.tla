------------------------- MODULE PointerConstraints -------------------------
(***************************************************************************)
(* Pointer locks and confinements (types/wlr_pointer_constraints_v1.c) on   *)
(* the surfaces of one seat.  The region a client asks for is part of its   *)
(* surface's state; what the pointer is confined to is that region within   *)
(* the surface's input region.  A oneshot constraint is destroyed when it   *)
(* is deactivated, also by a listener to its own destruction.               *)
(***************************************************************************)
EXTENDS Naturals, Sequences, FiniteSets, SequencesExt

CONSTANTS PcSurface, PcConstraint,
          PcRegion,      \* regions of a surface, sets of cells; {} asks for the whole surface
          MaxPcSteps     \* bound: requests of the client

VARIABLE pc

NoChange == [set |-> FALSE, region |-> {}, hinted |-> FALSE]

NewConstraint ==
  [st |-> "none", surface |-> CHOOSE s \in PcSurface : TRUE, oneshot |-> FALSE, destroying |-> FALSE,
   pending |-> NoChange,
   current |-> {}, hint |-> FALSE,     \* of the current state
   region |-> {},                      \* what the pointer is confined to
   active |-> FALSE, freed |-> 0]

NewPcSurface == [alive |-> TRUE, asked |-> {1, 2}, input |-> {1, 2}, cached |-> <<>>]

PcState ==
  [surf |-> [s \in PcSurface |-> NewPcSurface], seat |-> TRUE, steps |-> 0, dead |-> FALSE,
   con |-> [k \in PcConstraint |-> NewConstraint],
   wild |-> FALSE]                     \* a loop went on from a freed constraint

Constrains(s, k) == s.con[k].st = "live"

---------------------------------------------------------------------------
update_region_current(s, k) ==
  LET r == s.con[k].current IN [s EXCEPT !.con[k].region = r]

(* The input region is the one that was just committed. *)
update_region(s, k) ==
  LET c == s.con[k]
      input == s.surf[c.surface].input
  IN [s EXCEPT !.con[k].region = IF c.current # {} THEN input \cap c.current ELSE input]

(* The object is made inert and freed; its states in the surface's queue    *)
(* go too.                                                                  *)
Freed(s, k) ==
  [s EXCEPT !.con[k].st = "inert", !.con[k].active = FALSE, !.con[k].freed = @ + 1,
            !.surf = [x \in PcSurface |-> [@[x] EXCEPT !.cached =
                        [i \in 1..Len(@) |-> [@[i] EXCEPT !.con[k] = NoChange]]]]]

(* deactivate: the compositor's listener deactivates the constraint, which  *)
(* for a oneshot one calls the function that destroys it again.             *)
HeardDestroy(s, k, deactivate) ==
  IF deactivate /\ s.con[k].active /\ s.con[k].oneshot /\ ~s.con[k].destroying THEN Freed(s, k) ELSE s

destroy_unflagged(s, k, deactivate) ==
  IF s.con[k].destroying THEN s ELSE Freed(HeardDestroy(s, k, deactivate), k)

pointer_constraint_destroy(s, k, deactivate) ==
  IF s.con[k].destroying THEN s
  ELSE Freed(HeardDestroy([s EXCEPT !.con[k].destroying = TRUE], k, deactivate), k)

wlr_pointer_constraint_v1_send_deactivated(s, k) ==
  LET t == [s EXCEPT !.con[k].active = FALSE]
  IN IF s.con[k].oneshot THEN pointer_constraint_destroy(t, k, FALSE) ELSE t

Step(s) == [s EXCEPT !.steps = @ + 1]
Client == ~pc.dead /\ ~pc.wild /\ pc.steps < MaxPcSteps

wlr_pointer_constraints_v1_constraint_for_surface(x) ==
  {k \in PcConstraint : Constrains(pc, k) /\ pc.con[k].surface = x}

(* Without a seat the object is inert from the start; a second constraint   *)
(* on the surface is an error.                                              *)
pointer_constraint_create ==
  \E k \in PcConstraint, x \in PcSurface, r \in PcRegion, oneshot \in BOOLEAN :
    /\ Client /\ pc.surf[x].alive /\ pc.con[k].st = "none"
    /\ \A j \in PcConstraint : pc.con[j].st = "none" => k <= j
    /\ \/ /\ ~pc.seat
          /\ pc' = Step([pc EXCEPT !.con[k].st = "inert"])
       \/ /\ pc.seat /\ wlr_pointer_constraints_v1_constraint_for_surface(x) # {}
          /\ pc' = [pc EXCEPT !.dead = TRUE]
       \/ /\ pc.seat /\ wlr_pointer_constraints_v1_constraint_for_surface(x) = {}
          /\ pc' = Step(update_region(
                     [pc EXCEPT !.con[k] = [NewConstraint EXCEPT !.st = "live", !.surface = x,
                                                                 !.oneshot = oneshot, !.current = r]], k))

pointer_constraint_handle_set_region ==
  \E k \in PcConstraint, r \in PcRegion :
    /\ Client /\ Constrains(pc, k)
    /\ pc' = Step([pc EXCEPT !.con[k].pending.set = TRUE, !.con[k].pending.region = r])

pointer_constraint_set_cursor_position_hint ==
  \E k \in PcConstraint :
    /\ Client /\ Constrains(pc, k) /\ ~pc.con[k].pending.hinted
    /\ pc' = Step([pc EXCEPT !.con[k].pending.hinted = TRUE])

pointer_constraint_destroy_resource ==
  \E k \in PcConstraint, deactivate \in BOOLEAN :
    /\ ~pc.wild /\ pc.con[k].st \in {"live", "inert"}
    /\ LET s == IF Constrains(pc, k) THEN pointer_constraint_destroy(pc, k, deactivate) ELSE pc
       IN pc' = [s EXCEPT !.con[k].st = "gone"]

---------------------------------------------------------------------------
(* Commits of the surface: at once, or held by somebody for a while. *)

SetInputRegion ==
  \E x \in PcSurface, r \in PcRegion :
    /\ Client /\ pc.surf[x].alive /\ pc.surf[x].asked # r
    /\ pc' = Step([pc EXCEPT !.surf[x].asked = r])

surface_synced_move_state(s, k, c) ==
  [s EXCEPT !.con[k].current = IF c.set THEN c.region ELSE @, !.con[k].hint = @ \/ c.hinted]

(* gone: constraints that listeners to set_region deactivate, which frees   *)
(* the oneshot ones below the loop that called them.                        *)
surface_synced_commit(s, k, gone) ==
  LET t == update_region(s, k)
  IN IF t.con[k].region # s.con[k].region /\ k \in gone /\ s.con[k].active
     THEN [wlr_pointer_constraint_v1_send_deactivated(t, k) EXCEPT !.wild = @ \/ s.con[k].oneshot]
     ELSE t

ApplyCommit(s, x, c, gone) ==
  LET here == SetToSortSeq({k \in PcConstraint : Constrains(s, k) /\ s.con[k].surface = x}, <)
      moved == FoldLeft(LAMBDA q, k : surface_synced_move_state(q, k, c.con[k]), s, here)
  IN FoldLeft(LAMBDA q, k : surface_synced_commit(q, k, gone),
              [moved EXCEPT !.surf[x].input = c.input], here)

Commit ==
  \E x \in PcSurface, held \in BOOLEAN, gone \in SUBSET PcConstraint :
    /\ Client /\ pc.surf[x].alive
    /\ LET mine == {k \in PcConstraint : pc.con[k].surface = x}
           c == [input |-> pc.surf[x].asked,
                 con |-> [k \in PcConstraint |-> IF k \in mine THEN pc.con[k].pending ELSE NoChange]]
           s == Step([pc EXCEPT !.con = [k \in PcConstraint |->
                                           IF k \in mine THEN [@[k] EXCEPT !.pending = NoChange] ELSE @[k]]])
       IN pc' = IF held \/ pc.surf[x].cached # <<>> THEN [s EXCEPT !.surf[x].cached = Append(@, c)]
                ELSE ApplyCommit(s, x, c, gone)

UnlockCommit ==
  \E x \in PcSurface, gone \in SUBSET PcConstraint :
    /\ ~pc.wild /\ pc.surf[x].cached # <<>>
    /\ pc' = ApplyCommit([pc EXCEPT !.surf[x].cached = Tail(@)], x, pc.surf[x].cached[1], gone)

---------------------------------------------------------------------------
(* The compositor, surfaces and the seat. *)

wlr_pointer_constraint_v1_send_activated ==
  \E k \in PcConstraint :
    /\ ~pc.wild /\ Constrains(pc, k) /\ \A j \in PcConstraint : ~pc.con[j].active
    /\ pc' = [pc EXCEPT !.con[k].active = TRUE]

Deactivate ==
  \E k \in PcConstraint :
    /\ ~pc.wild /\ pc.con[k].active
    /\ pc' = wlr_pointer_constraint_v1_send_deactivated(pc, k)

DestroyAll(s, ks, deactivate) ==
  FoldLeft(LAMBDA q, k : pointer_constraint_destroy(q, k, deactivate), s, SetToSortSeq(ks, <))

handle_surface_destroy(x, deactivate) ==
  LET ks == {k \in PcConstraint : Constrains(pc, k) /\ pc.con[k].surface = x}
  IN [DestroyAll(pc, ks, deactivate) EXCEPT !.surf[x].alive = FALSE, !.surf[x].cached = <<>>]

SurfaceDestroyed ==
  \E x \in PcSurface, deactivate \in BOOLEAN :
    /\ ~pc.wild /\ pc.surf[x].alive
    /\ pc' = handle_surface_destroy(x, deactivate)

handle_seat_destroy ==
  \E deactivate \in BOOLEAN :
    /\ ~pc.wild /\ pc.seat
    /\ pc' = [DestroyAll(pc, {k \in PcConstraint : Constrains(pc, k)}, deactivate) EXCEPT !.seat = FALSE]

PcInit == pc = PcState

PcNext ==
  \/ pointer_constraint_create \/ pointer_constraint_handle_set_region
  \/ pointer_constraint_set_cursor_position_hint \/ pointer_constraint_destroy_resource
  \/ SetInputRegion \/ Commit \/ UnlockCommit
  \/ wlr_pointer_constraint_v1_send_activated \/ Deactivate
  \/ SurfaceDestroyed \/ handle_seat_destroy

---------------------------------------------------------------------------
(* The pointer is confined to the region the client's last applied commit   *)
(* asked for, within the input region of that same commit; constraints live *)
(* on living surfaces of a living seat, one on each, and are freed once     *)
(* whatever destroys them first.                                            *)
PointerConstrained ==
  ~pc.wild =>
    \A k \in PcConstraint :
      LET c == pc.con[k]
      IN /\ c.freed <= 1
         /\ c.active => Constrains(pc, k)
         /\ Constrains(pc, k) =>
              /\ c.freed = 0 /\ pc.surf[c.surface].alive /\ pc.seat
              /\ c.region = {z \in pc.surf[c.surface].input : c.current = {} \/ z \in c.current}
              /\ \A j \in PcConstraint \ {k} : Constrains(pc, j) => pc.con[j].surface # c.surface
=============================================================================
