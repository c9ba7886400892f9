----------------------------- MODULE CrtcMatch -----------------------------
(***************************************************************************)
(* match_connectors_with_crtcs (backend/drm/util.c): the depth-first       *)
(* search that gives CRTCs to connectors, against what it is meant to      *)
(* find: a matching that serves the most connectors and, among these, one  *)
(* that changes the fewest CRTCs.                                          *)
(***************************************************************************)
EXTENDS Integers, FiniteSets

CONSTANTS NumConns, NumCrtcs

ASSUME MatchAssumption == NumConns \in Nat \ {0} /\ NumCrtcs \in Nat \ {0}

Conns == 1 .. NumConns
Crtcs == 1 .. NumCrtcs
UNMATCHED == 0

VARIABLES
    conns,   \* [Conns -> SUBSET Crtcs]: the CRTCs a connector may use;
             \* none for a connector that wants no CRTC
    orig,    \* [Crtcs -> Conns or UNMATCHED]: the assignment before
    res      \* the search's answer, or <<>> before it ran

MatchVars == <<conns, orig, res>>

Assignments == [Crtcs -> Conns \cup {UNMATCHED}]

Exclusive(m) == \A i, j \in Crtcs : m[i] = m[j] /\ m[i] # UNMATCHED => i = j

-----------------------------------------------------------------------------
(***************************************************************************)
(* match_connectors_with_crtcs_: st is struct match_state, with the best   *)
(* solution so far; m the partial solution; k the CRTC to give away.       *)
(* Leaf is a finished solution.                                            *)
(***************************************************************************)
is_taken(k, m, c) == \E i \in 1 .. k - 1 : m[i] = c

Leaf_first(st, m, score, replaced) ==   \* slip: ties are not broken
    IF score > st.score \/ st.replaced > NumCrtcs
      THEN [score |-> score, replaced |-> replaced, best |-> m, exit_early |-> FALSE]
      ELSE st

Leaf(st, m, score, replaced) ==
    IF score > st.score \/ (score = st.score /\ replaced < st.replaced)
      THEN [score |-> score, replaced |-> replaced, best |-> m,
            exit_early |-> score \in {NumCrtcs, NumConns} /\ replaced = 0]
      ELSE st

Score(c) == IF conns[c] # {} THEN 1 ELSE 0

RECURSIVE Search(_, _, _, _, _), Candidates(_, _, _, _, _, _)

Search(st, m, score, replaced, k) ==
    IF k > NumCrtcs THEN Leaf(st, m, score, replaced)
    ELSE
      LET old  == orig[k]
          kept == IF old # UNMATCHED /\ ~is_taken(k, m, old)
                    THEN Search(st, [m EXCEPT ![k] = old], score + Score(old), replaced, k + 1)
                    ELSE st
          lost == IF old # UNMATCHED THEN replaced + 1 ELSE replaced
          tried == Candidates(kept, m, score, lost, k, 1)
      IN  IF kept.exit_early THEN kept
          ELSE IF tried.exit_early THEN tried
          ELSE Search(tried, [m EXCEPT ![k] = UNMATCHED], score, lost, k + 1)

(* The loop over the other connectors that may use CRTC k. *)
Candidates(st, m, score, replaced, k, c) ==
    IF c > NumConns \/ st.exit_early THEN st
    ELSE IF c = orig[k] \/ k \notin conns[c] \/ is_taken(k, m, c)
      THEN Candidates(st, m, score, replaced, k, c + 1)
    ELSE Candidates(Search(st, [m EXCEPT ![k] = c], score + Score(c), replaced, k + 1),
                    m, score, replaced, k, c + 1)

Unmatched == [k \in Crtcs |-> UNMATCHED]

match_connectors_with_crtcs ==
    Search([score |-> 0, replaced |-> NumCrtcs + 1, best |-> Unmatched, exit_early |-> FALSE],
           Unmatched, 0, 0, 1).best

-----------------------------------------------------------------------------
(* A connector that has a CRTC and wants one has one it may use. *)
MatchInit ==
    /\ conns \in [Conns -> SUBSET Crtcs]
    /\ orig \in Assignments
    /\ Exclusive(orig)
    /\ \A k \in Crtcs : orig[k] # UNMATCHED => conns[orig[k]] = {} \/ k \in conns[orig[k]]
    /\ res = <<>>

Match ==
    /\ res = <<>>
    /\ res' = match_connectors_with_crtcs
    /\ UNCHANGED <<conns, orig>>

-----------------------------------------------------------------------------
Done == res # <<>>

Served(m) == {c \in Conns : conns[c] # {} /\ \E k \in Crtcs : m[k] = c}
Changed(m) == {k \in Crtcs : orig[k] # UNMATCHED /\ m[k] # orig[k]}

(* The assignments the search chooses from: a CRTC goes to a connector that
   may use it, or stays where it is. *)
Solutions == {m \in Assignments :
    /\ Exclusive(m)
    /\ \A k \in Crtcs : m[k] \in {UNMATCHED, orig[k]} \/ k \in conns[m[k]]}

(***************************************************************************)
(* The answer is a solution, no solution serves more connectors, and none  *)
(* that serves as many changes fewer CRTCs: the early exit and the order   *)
(* in which candidates are tried lose nothing.  A connector that has a     *)
(* CRTC and still wants one is not left without to serve another:          *)
(* realloc_crtcs gives up on such an answer.                               *)
(***************************************************************************)
IsBest == Done =>
    /\ res \in Solutions
    /\ \A m \in Solutions :
         \/ Cardinality(Served(m)) < Cardinality(Served(res))
         \/ /\ Cardinality(Served(m)) = Cardinality(Served(res))
            /\ Cardinality(Changed(m)) >= Cardinality(Changed(res))
    /\ Served(orig) \subseteq Served(res)
=============================================================================
