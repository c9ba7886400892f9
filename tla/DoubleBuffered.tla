--------------------------- MODULE DoubleBuffered ---------------------------
(***************************************************************************)
(* What a wl_surface promises its client, with no word on how: requests    *)
(* accumulate in a pending description of the surface, wl_surface.commit   *)
(* fixes it, and the compositor shows the committed descriptions one after *)
(* the other, whole, in the order of the commits, each at most once and    *)
(* none skipped.  SurfaceCommit.tla implements this with per-field deltas, *)
(* `committed` flags and a queue of cached states.                         *)
(***************************************************************************)
EXTENDS Naturals, Sequences

CONSTANTS Descriptions,   \* what a client can describe with its requests
          Committed(_),   \* what is left pending once a description is committed
          InitialWant     \* the description a new surface starts with

VARIABLES want,    \* the description the client is building
          log,     \* the descriptions it committed
          shown    \* how many of them the surface has shown: it shows log[shown]

vars == <<want, log, shown>>

Init == want = InitialWant /\ log = <<>> /\ shown = 0

Request == want' \in Descriptions /\ UNCHANGED <<log, shown>>

Commit == log' = Append(log, want) /\ want' = Committed(want) /\ UNCHANGED shown

\* Nothing waits before this commit, and nothing holds it back.
CommitAndShow ==
    /\ shown = Len(log)
    /\ log' = Append(log, want)
    /\ want' = Committed(want)
    /\ shown' = shown + 1

Show == shown < Len(log) /\ shown' = shown + 1 /\ UNCHANGED <<want, log>>

Next == Request \/ Commit \/ CommitAndShow \/ Show

Spec == Init /\ [][Next]_vars
=============================================================================
