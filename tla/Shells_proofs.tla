--------------------------- MODULE Shells_proofs ----------------------------
(***************************************************************************)
(* Proofs about the shells: XdgSurface, LayerShell, SessionLock, Popups and *)
(* SurfaceExtensions, one after the other, and what follows of them for the *)
(* shells side by side (MCShells).  For any sizes, any number of surfaces,  *)
(* configures, popups and objects, and any number of commits that wait.     *)
(***************************************************************************)
EXTENDS MCShells, SequenceTheorems, FiniteSetTheorems, TLAPS

(* Sequences. *)
LEMMA FunctionIsSeq ==
    ASSUME NEW S, NEW n \in Nat, NEW f \in [1..n -> S]
    PROVE  f \in Seq(S) /\ Len(f) = n
<1>1. f = [i \in 1..n |-> f[i]]
  OBVIOUS
<1>2. [i \in 1..n |-> f[i]] \in Seq(S) /\ Len([i \in 1..n |-> f[i]]) = n
  OBVIOUS
<1> QED
  BY <1>1, <1>2

(* Elements, the first and the last one. *)
LEMMA SeqElements ==
  ASSUME NEW S, NEW s \in Seq(S)
  PROVE  /\ Len(s) \in Nat /\ DOMAIN s = 1..Len(s)
         /\ \A i \in 1..Len(s) : s[i] \in S
         /\ s # <<>> => Len(s) > 0 /\ Len(s) \in 1..Len(s) /\ 1 \in 1..Len(s)
         /\ Len(s) > 0 => s # <<>>
BY LenProperties, ElementOfSeq, EmptySeq

(* What is left without the first i elements. *)
LEMMA DropFirst ==
  ASSUME NEW S, NEW s \in Seq(S), NEW i \in 1..Len(s)
  PROVE  /\ SubSeq(s, i + 1, Len(s)) \in Seq(S)
         /\ Len(SubSeq(s, i + 1, Len(s))) = Len(s) - i
         /\ \A j \in 1..(Len(s) - i) : /\ SubSeq(s, i + 1, Len(s))[j] = s[j + i]
                                      /\ j + i \in 1..Len(s)
<1>1. Len(s) \in Nat /\ \A k \in (i + 1)..Len(s) : s[k] \in S
  BY LenProperties, ElementOfSeq
<1>2. /\ SubSeq(s, i + 1, Len(s)) \in Seq(S)
      /\ Len(SubSeq(s, i + 1, Len(s))) = Len(s) - i
      /\ \A j \in 1..(Len(s) - i) : SubSeq(s, i + 1, Len(s))[j] = s[j + i]
  BY <1>1, SubSeqProperties
<1> QED
  BY <1>1, <1>2

LEMMA TailElements ==
  ASSUME NEW S, NEW s \in Seq(S), s # <<>>
  PROVE  /\ Head(s) = s[1] /\ s[1] \in S /\ Tail(s) \in Seq(S) /\ Len(Tail(s)) = Len(s) - 1
         /\ \A i \in 1..Len(Tail(s)) : Tail(s)[i] = s[i + 1] /\ i + 1 \in 1..Len(s)
<1>1. Len(s) \in Nat /\ Len(s) > 0 /\ s[1] \in S
  BY SeqElements
<1>2. Head(s) = s[1] /\ Tail(s) \in Seq(S) /\ Len(Tail(s)) = Len(s) - 1
  BY HeadTailProperties
<1>3. \A i \in 1..Len(Tail(s)) : Tail(s)[i] = s[i + 1]
  BY HeadTailProperties
<1> QED
  BY <1>1, <1>2, <1>3

LEMMA AppendElements ==
  ASSUME NEW S, NEW s \in Seq(S), NEW e \in S
  PROVE  /\ Append(s, e) \in Seq(S) /\ Len(Append(s, e)) = Len(s) + 1
         /\ \A i \in 1..Len(s) : Append(s, e)[i] = s[i]
         /\ Append(s, e)[Len(s) + 1] = e /\ Append(s, e) # <<>>
BY AppendProperties, LenProperties, EmptySeq

-----------------------------------------------------------------------------
(***************************************************************************)
(* xdg_surface and xdg_toplevel.                                           *)
(***************************************************************************)

(* What exists: configures are only scheduled, sent and acknowledged for a  *)
(* toplevel that made its initial commit.                                   *)
Handshake ==
    /\ toplevel => xdg /\ role = "toplevel"
    /\ idle \/ configured \/ configures # <<>> \/ wanted # {} => toplevel /\ initialized

(* Serials are drawn in increasing order, and those the client may still    *)
(* acknowledge come after the one it acknowledged last.                     *)
Serials ==
    /\ \A c \in sent : c.serial <= serial /\ (idle => c.serial < serial)
    /\ pending.serial <= serial /\ (idle => pending.serial < serial)
    /\ \A i \in 1..Len(configures) :
          /\ configures[i] \in sent
          /\ pending.serial < configures[i].serial
          /\ \A j \in 1..Len(configures) : i < j => configures[i].serial < configures[j].serial

(* The serials on the way from pending to current are in order.             *)
Ordered ==
    /\ current.serial <= pending.serial
    /\ \A i \in 1..Len(queue) :
          /\ current.serial <= queue[i].state.serial
          /\ queue[i].state.serial <= pending.serial
          /\ \A j \in 1..Len(queue) : i < j => queue[i].state.serial <= queue[j].state.serial

(* The configure being scheduled is the last wish; once sent it is among    *)
(* the sent ones under the last serial drawn.                               *)
Wishes ==
    /\ wanted # {} => wanted = {scheduled}
    /\ wanted # {} /\ ~idle => [serial |-> serial, size |-> scheduled] \in sent

(* What the next commit carries was sent, if a configure was acknowledged.  *)
Carried ==
    /\ configured => [serial |-> pending.serial, size |-> pending.size] \in sent
    /\ pending.attach = "null" => ~pending.hasbuf

(* The queue is only drained, and only filled, when a commit waits.         *)
Drained ==
    /\ draining => queue # <<>>
    /\ ~waited => queue = <<>> /\ ~draining

(* Without commits that wait, a mapped surface is past its initial commit.  *)
Mapped == MappedConfigured /\ (mapped /\ ~waited => ~initialCommit)

IInv == TypeOK /\ Handshake /\ Serials /\ Ordered /\ Wishes /\ Carried /\ Drained /\ Mapped

-----------------------------------------------------------------------------
LEMMA ZeroedType ==
    ASSUME NEW c \in Commits
    PROVE  /\ ZeroedSerial(c) \in Commits /\ ZeroedSerial(c).serial = 0
           /\ ZeroedSize(c) \in Commits /\ ZeroedSize(c).serial = c.serial
BY ConstantsAssumption DEF Commits, AnySize, ZeroedSerial, ZeroedSize

(* wlr_surface_synced_init touches every state that waits, one field of it. *)
LEMMA InQueueType ==
    ASSUME queue \in Seq(Queued)
    PROVE  /\ InQueue(ZeroedSerial) \in Seq(Queued)
           /\ Len(InQueue(ZeroedSerial)) = Len(queue)
           /\ \A i \in 1..Len(queue) : InQueue(ZeroedSerial)[i].state.serial = 0
           /\ InQueue(ZeroedSize) \in Seq(Queued)
           /\ Len(InQueue(ZeroedSize)) = Len(queue)
           /\ \A i \in 1..Len(queue) : InQueue(ZeroedSize)[i].state.serial = queue[i].state.serial
<1> DEFINE zserial(q) == [q EXCEPT !.state = ZeroedSerial(q.state)]
           zsize(q) == [q EXCEPT !.state = ZeroedSize(q.state)]
           f == [i \in 1..Len(queue) |-> zserial(queue[i])]
           g == [i \in 1..Len(queue) |-> zsize(queue[i])]
<1>1. Len(queue) \in Nat /\ \A i \in 1..Len(queue) : queue[i] \in Queued
  BY LenProperties, ElementOfSeq
<1>2. InQueue(ZeroedSerial) = f /\ InQueue(ZeroedSize) = g
  BY DEF InQueue
<1>3. ASSUME NEW q \in Queued
      PROVE  /\ zserial(q) \in Queued /\ zserial(q).state.serial = 0
             /\ zsize(q) \in Queued /\ zsize(q).state.serial = q.state.serial
  <2>1. ASSUME NEW c \in Commits
        PROVE  [q EXCEPT !.state = c] \in Queued /\ [q EXCEPT !.state = c].state = c
    BY DEF Queued
  <2>2. q.state \in Commits
    BY DEF Queued
  <2> QED
    BY <2>1, <2>2, ZeroedType
<1> HIDE DEF zserial, zsize
<1>4. f \in [1..Len(queue) -> Queued] /\ g \in [1..Len(queue) -> Queued]
  BY <1>1, <1>3
<1>5. \A i \in 1..Len(queue) : f[i].state.serial = 0 /\ g[i].state.serial = queue[i].state.serial
  BY <1>1, <1>3
<1> HIDE DEF f, g
<1>6. /\ f \in Seq(Queued) /\ g \in Seq(Queued)
      /\ Len(f) = Len(queue) /\ Len(g) = Len(queue)
  BY <1>1, <1>4, FunctionIsSeq
<1> QED
  BY <1>2, <1>5, <1>6

-----------------------------------------------------------------------------
(* The three ways a state is applied: it unmaps the surface, the role       *)
(* handles it otherwise, or no role object hears of it.                     *)
Unmaps(c) ==
    /\ xdg /\ mapped /\ c.attach = "null"
    /\ Reset /\ initialCommit' = FALSE
    /\ failed' = IF initialCommit THEN {"initial_commit"} ELSE {}
    /\ mapped' = (toplevel /\ c.hasbuf)

Updates(c) ==
    /\ xdg /\ (mapped => c.attach # "null")
    /\ initialCommit' = ~initialized /\ initialized' = TRUE
    /\ failed' = IF role = "none" THEN {"role"} ELSE {}
    /\ UNCHANGED <<configured, configures, idle, wanted>>
    /\ mapped' = (mapped \/ (toplevel /\ c.hasbuf))

Unheard(c) ==
    /\ ~xdg
    /\ mapped' = (mapped /\ c.attach # "null")
    /\ UNCHANGED <<handshakeVars, failed>>

LEMMA ApplyCases ==
    ASSUME TypeOK, NEW c \in Commits, Apply(c)
    PROVE  current' = c /\ (Unmaps(c) \/ Updates(c) \/ Unheard(c))
<1> DEFINE unmaps == c.attach = "null" /\ mapped
           still == mapped /\ c.attach # "null"
<1>0. mapped \in BOOLEAN /\ current' = c
  BY DEF TypeOK, Apply
<1>1. CASE xdg /\ unmaps
  <2>1. RoleCommit(c, unmaps, still)
    BY <1>1 DEF Apply
  <2>2. still = FALSE
    BY <1>1
  <2>3. mapped' = (toplevel /\ c.hasbuf)
    BY <2>1, <2>2 DEF RoleCommit
  <2> QED
    BY <1>0, <1>1, <2>1, <2>3 DEF RoleCommit, Unmaps
<1>2. CASE xdg /\ ~unmaps
  <2>1. RoleCommit(c, unmaps, still)
    BY <1>2 DEF Apply
  <2>2. still = mapped
    BY <1>0, <1>2
  <2>3. mapped' = (mapped \/ (toplevel /\ c.hasbuf))
    BY <2>1, <2>2 DEF RoleCommit
  <2> QED
    BY <1>0, <1>2, <2>1, <2>3 DEF RoleCommit, Updates
<1>3. CASE ~xdg
  BY <1>0, <1>3 DEF Apply, Unheard
<1> QED
  BY <1>1, <1>2, <1>3

(* The three ends of a commit. *)
Waits(fenced) ==
    /\ ~Refused /\ Len(queue) < MaxQueue
    /\ pending' = [pending EXCEPT !.attach = "nothing"]
    /\ queue' = Append(queue, [state |-> pending, locked |-> fenced])
    /\ waited' = TRUE
    /\ UNCHANGED <<xdg, role, toplevel, handshakeVars, serial, scheduled, mapped, current,
                   draining, dead, failed, sent>>

Applies ==
    /\ ~Refused /\ queue = <<>>
    /\ pending' = [pending EXCEPT !.attach = "nothing"]
    /\ Apply(pending)
    /\ UNCHANGED <<xdg, role, toplevel, serial, scheduled, queue, draining, dead, sent, waited>>

LEMMA CommitCases ==
    ASSUME NEW fenced, Commit(fenced)
    PROVE  Dispatching /\ (Error \/ Waits(fenced) \/ Applies)
BY DEF Commit, Waits, Applies

(* An error changes no more than dead: everything an invariant speaks of,   *)
(* failed included, stays.                                                  *)
LEMMA ErrorEffect ==
    ASSUME Error
    PROVE  /\ UNCHANGED <<xdg, role, toplevel, configured, initialized, initialCommit, idle,
                          serial, scheduled, configures>>
           /\ UNCHANGED <<mapped, pending, queue, draining, current, failed, wanted, sent, waited>>
           /\ dead' = TRUE
BY DEF Error, handshakeVars, surfaceVars

-----------------------------------------------------------------------------
(* Every step keeps the types. *)
LEMMA ApplyTyped ==
    ASSUME TypeOK, NEW c \in Commits, Apply(c)
    PROVE  /\ current' \in Commits /\ mapped' \in BOOLEAN
           /\ configured' \in BOOLEAN /\ initialized' \in BOOLEAN /\ initialCommit' \in BOOLEAN
           /\ idle' \in BOOLEAN /\ configures' \in Seq(Configures)
           /\ wanted' \subseteq Sizes /\ failed' \subseteq {"initial_commit", "role"}
<1>1. current' = c /\ (Unmaps(c) \/ Updates(c) \/ Unheard(c))
  BY ApplyCases
<1>2. CASE Unmaps(c)
  BY <1>1, <1>2, EmptySeq, Zenon DEF Unmaps, Reset
<1>3. CASE Updates(c)
  BY <1>1, <1>3, Zenon DEF Updates, TypeOK
<1>4. CASE Unheard(c)
  BY <1>1, <1>4, Zenon DEF Unheard, TypeOK, handshakeVars
<1> QED
  BY <1>1, <1>2, <1>3, <1>4

(* An acknowledgement that finds its configure, the i-th. *)
Acks(n, i) ==
    /\ configures[i].serial = n
    /\ configures' = Acked(i)
    /\ configured' = TRUE
    /\ pending' = [pending EXCEPT !.serial = n,
                      !.size = IF toplevel THEN AckedSize(i) ELSE @]
    /\ UNCHANGED <<xdg, role, toplevel, initialized, initialCommit, idle, serial,
                   scheduled, mapped, queue, draining, current, dead, failed,
                   wanted, sent, waited>>

LEMMA AckCases ==
    ASSUME NEW n, AckConfigure(n)
    PROVE  Error \/ \E i \in 1..Len(configures) : Acks(n, i)
BY DEF AckConfigure, Acks

(* What is left once the i-th configure is acknowledged. *)
LEMMA AckedType ==
    ASSUME configures \in Seq(Configures), NEW i \in 1..Len(configures)
    PROVE  /\ Acked(i) \in Seq(Configures)
           /\ Len(Acked(i)) = Len(configures) - i
           /\ \A k \in 1..Len(Acked(i)) : Acked(i)[k] = configures[k + i]
<1>1. Len(configures) \in Nat /\ \A k \in (i + 1)..Len(configures) : configures[k] \in Configures
  BY LenProperties, ElementOfSeq
<1> QED
  BY <1>1, SubSeqProperties DEF Acked

LEMMA AckedPending ==
    ASSUME TypeOK, NEW n \in 1..MaxSerial, NEW i \in 1..Len(configures), Acks(n, i)
    PROVE  /\ pending' \in Commits
           /\ pending'.serial = n /\ configures[i].serial = n
           /\ pending'.attach = pending.attach /\ pending'.hasbuf = pending.hasbuf
           /\ toplevel => [serial |-> pending'.serial, size |-> pending'.size] = configures[i]
<1>1. configures[i] \in Configures
  BY ElementOfSeq DEF TypeOK
<1>2. PICK z \in AnySize :
        /\ pending' = [pending EXCEPT !.serial = n, !.size = z]
        /\ toplevel => z = configures[i].size
  <2>1. CASE toplevel
    <3>1. configures[i].size \in AnySize
      BY <1>1 DEF Configures
    <3>2. pending' = [pending EXCEPT !.serial = n, !.size = configures[i].size]
      BY <2>1 DEF Acks, AckedSize
    <3> QED
      BY <3>1, <3>2
  <2>2. CASE ~toplevel
    <3>1. pending.size \in AnySize
      BY DEF TypeOK, Commits
    <3>2. pending' = [pending EXCEPT !.serial = n, !.size = pending.size]
      BY <2>2 DEF Acks
    <3> QED
      BY <2>2, <3>1, <3>2
  <2> QED
    BY <2>1, <2>2
<1>3. pending \in Commits /\ n \in 0..MaxSerial
  BY ConstantsAssumption DEF TypeOK
<1>4. /\ pending' \in Commits /\ pending'.serial = n /\ pending'.size = z
      /\ pending'.attach = pending.attach /\ pending'.hasbuf = pending.hasbuf
  BY <1>2, <1>3 DEF Commits
<1>5. configures[i].serial = n
  BY DEF Acks
<1>6. toplevel => [serial |-> pending'.serial, size |-> pending'.size] = configures[i]
  BY <1>1, <1>2, <1>4, <1>5 DEF Configures
<1> QED
  BY <1>4, <1>5, <1>6

(* wlr_surface_unlock_cached changes no state of the queue. *)
LEMMA UnlockType ==
    ASSUME queue \in Seq(Queued), NEW i \in 1..Len(queue)
    PROVE  LET q == [queue EXCEPT ![i].locked = FALSE] IN
           /\ q \in Seq(Queued) /\ Len(q) = Len(queue)
           /\ \A k \in 1..Len(queue) : q[k].state = queue[k].state
<1> DEFINE e == [queue[i] EXCEPT !.locked = FALSE]
<1>1. queue[i] \in Queued
  BY ElementOfSeq
<1>2. e \in Queued /\ e.state = queue[i].state
  BY <1>1 DEF Queued
<1>3. [queue EXCEPT ![i].locked = FALSE] = [queue EXCEPT ![i] = e]
  OBVIOUS
<1> HIDE DEF e
<1> DEFINE q == [queue EXCEPT ![i] = e]
<1>4. /\ q \in Seq(Queued) /\ Len(q) = Len(queue)
      /\ \A k \in 1..Len(queue) : q[k] = IF k = i THEN e ELSE queue[k]
  BY <1>2, ExceptSeq
<1>5. \A k \in 1..Len(queue) : q[k].state = queue[k].state
  BY <1>2, <1>4
<1> QED
  BY <1>3, <1>4, <1>5

(* The loop of wlr_surface_unlock_cached has a state to apply. *)
LEMMA FirstCommit ==
    ASSUME IInv, ApplyCached
    PROVE  queue # <<>> /\ queue[1].state \in Commits
<1>1. queue # <<>> /\ queue \in Seq(Queued)
  BY DEF IInv, ApplyCached, Drained, TypeOK
<1>2. queue[1] \in Queued
  BY <1>1, ElementOfSeq, EmptySeq
<1> QED
  BY <1>1, <1>2 DEF Queued

LEMMA TypeStep ==
    ASSUME IInv, [Next]_vars
    PROVE  TypeOK'
<1> USE ConstantsAssumption
<1>t. TypeOK /\ Serials
  BY DEF IInv
<1> USE <1>t
<1>0. ASSUME Error
      PROVE  TypeOK'
  BY <1>0, ErrorEffect, Zenon DEF TypeOK
<1>1. CASE GetXdgSurface
  <2>1. CASE current.hasbuf
    BY <1>0, <1>1, <2>1 DEF GetXdgSurface
  <2>2. CASE ~current.hasbuf
    <3>1. pending' \in Commits /\ current' \in Commits /\ queue' \in Seq(Queued)
      BY <1>1, <2>2, ZeroedType, InQueueType, Zenon DEF GetXdgSurface, TypeOK
    <3> QED
      BY <1>1, <2>2, <3>1, EmptySeq DEF GetXdgSurface, TypeOK, Reset, AnySize
  <2> QED
    BY <2>1, <2>2
<1>2. CASE GetToplevel
  <2>1. CASE toplevel
    BY <1>0, <1>2, <2>1 DEF GetToplevel
  <2>2. CASE ~toplevel
    <3>1. pending' \in Commits /\ current' \in Commits /\ queue' \in Seq(Queued)
      BY <1>2, <2>2, ZeroedType, InQueueType, Zenon DEF GetToplevel, TypeOK
    <3> QED
      BY <1>2, <2>2, <3>1 DEF GetToplevel, TypeOK, handshakeVars, AnySize
  <2> QED
    BY <2>1, <2>2
<1>3. CASE DestroyToplevel
  BY <1>3, EmptySeq DEF DestroyToplevel, TypeOK, Reset
<1>4. CASE DestroyXdgSurface
  <2>1. CASE toplevel
    BY <1>0, <1>4, <2>1 DEF DestroyXdgSurface
  <2>2. CASE ~toplevel
    BY <1>4, <2>2, EmptySeq DEF DestroyXdgSurface, TypeOK, Reset
  <2> QED
    BY <2>1, <2>2
<1>5. ASSUME NEW s \in Sizes, SetSize(s)
      PROVE  TypeOK'
  <2>1. serial' \in 0..MaxSerial /\ idle' \in BOOLEAN
    BY <1>5 DEF SetSize, ScheduleConfigure, TypeOK
  <2> QED
    BY <1>5, <2>1 DEF SetSize, TypeOK, surfaceVars, AnySize
<1>6. CASE SendConfigure
  <2> DEFINE c == [serial |-> serial, size |-> scheduled]
  <2>1. serial \in 1..MaxSerial
    BY <1>6 DEF SendConfigure, Serials, TypeOK, Commits
  <2>2. c \in Configures
    BY <2>1 DEF TypeOK, Configures
  <2> QED
    BY <1>6, <2>2, AppendProperties DEF SendConfigure, TypeOK, surfaceVars
<1>7. ASSUME NEW n \in 1..MaxSerial, AckConfigure(n)
      PROVE  TypeOK'
  <2>1. CASE Error
    BY <1>0, <1>7, <2>1
  <2>2. ASSUME NEW i \in 1..Len(configures), Acks(n, i)
        PROVE  TypeOK'
    <3>1. configures' \in Seq(Configures)
      BY <2>2, AckedType DEF Acks, TypeOK
    <3> QED
      BY <2>2, <3>1, AckedPending, ZenonT(30) DEF Acks, TypeOK
  <2> QED
    BY <1>7, <2>1, <2>2, AckCases
<1>8. ASSUME NEW buffer \in BOOLEAN, Attach(buffer)
      PROVE  TypeOK'
  <2>1. pending' \in Commits
    BY <1>8 DEF Attach, TypeOK, Commits
  <2> QED
    BY <1>8, <2>1, Zenon DEF Attach, TypeOK, handshakeVars
<1>9. ASSUME NEW fenced \in BOOLEAN, Commit(fenced)
      PROVE  TypeOK'
  <2>1. [pending EXCEPT !.attach = "nothing"] \in Commits
    BY DEF TypeOK, Commits
  <2>2. CASE Error
    BY <1>0, <2>2
  <2>3. CASE Waits(fenced)
    <3>1. [state |-> pending, locked |-> fenced] \in Queued
      BY DEF TypeOK, Queued
    <3>2. queue' \in Seq(Queued)
      BY <2>3, <3>1, AppendProperties DEF Waits, TypeOK
    <3> QED
      BY <2>1, <2>3, <3>2, Zenon DEF Waits, TypeOK, handshakeVars
  <2>4. CASE Applies
    BY <2>1, <2>4, ApplyTyped, Zenon DEF Applies, TypeOK
  <2> QED
    BY <1>9, <2>2, <2>3, <2>4, CommitCases
<1>10. ASSUME NEW i \in 1..MaxQueue, FenceSignalled(i)
       PROVE  TypeOK'
  <2>1. queue' \in Seq(Queued) /\ draining' \in BOOLEAN
    BY <1>10, UnlockType DEF FenceSignalled, TypeOK
  <2> QED
    BY <1>10, <2>1, Zenon DEF FenceSignalled, TypeOK, handshakeVars
<1>11. CASE ApplyCached
  <2>1. queue # <<>> /\ queue[1].state \in Commits
    BY <1>11, FirstCommit
  <2>2. queue' \in Seq(Queued) /\ draining' \in BOOLEAN
    BY <1>11, <2>1, HeadTailProperties DEF ApplyCached, TypeOK
  <2> QED
    BY <1>11, <2>1, <2>2, ApplyTyped, Zenon DEF ApplyCached, TypeOK
<1>12. CASE UNCHANGED vars
  BY <1>12 DEF vars, TypeOK
<1> QED
  BY <1>1, <1>2, <1>3, <1>4, <1>5, <1>6, <1>7, <1>8, <1>9, <1>10, <1>11, <1>12 DEF Next

-----------------------------------------------------------------------------
(* The parts of the invariant, one after the other. *)
LEMMA HandshakeStep ==
    ASSUME IInv, [Next]_vars
    PROVE  Handshake'
<1>t. TypeOK /\ Handshake /\ Serials
  BY DEF IInv
<1>0. ASSUME Error
      PROVE  Handshake'
  BY <1>0, <1>t, ErrorEffect DEF Handshake
<1>a. ASSUME NEW c \in Commits, Apply(c), UNCHANGED <<xdg, role, toplevel>>
      PROVE  Handshake'
  <2>1. CASE Unmaps(c)
    BY <1>t, <1>a, <2>1 DEF Unmaps, Reset, Handshake
  <2>2. CASE Updates(c)
    BY <1>t, <1>a, <2>2 DEF Updates, Handshake
  <2>3. CASE Unheard(c)
    BY <1>t, <1>a, <2>3 DEF Unheard, handshakeVars, Handshake
  <2> QED
    BY <1>t, <1>a, <2>1, <2>2, <2>3, ApplyCases
<1>1. CASE GetXdgSurface
  BY <1>t, <1>0, <1>1 DEF GetXdgSurface, Reset, Handshake
<1>2. CASE GetToplevel
  BY <1>t, <1>0, <1>2 DEF GetToplevel, handshakeVars, Handshake
<1>3. CASE DestroyToplevel
  BY <1>t, <1>3 DEF DestroyToplevel, Reset, Handshake
<1>4. CASE DestroyXdgSurface
  BY <1>t, <1>0, <1>4 DEF DestroyXdgSurface, Reset, Handshake
<1>5. ASSUME NEW s \in Sizes, SetSize(s)
      PROVE  Handshake'
  BY <1>t, <1>5 DEF SetSize, Handshake
<1>6. CASE SendConfigure
  BY <1>t, <1>6 DEF SendConfigure, Handshake
<1>7. ASSUME NEW n \in 1..MaxSerial, AckConfigure(n)
      PROVE  Handshake'
  <2>1. ASSUME NEW i \in 1..Len(configures), Acks(n, i)
        PROVE  Handshake'
    <3>1. configures # <<>>
      BY <2>1
    <3> QED
      BY <1>t, <2>1, <3>1 DEF Acks, Handshake
  <2> QED
    BY <1>0, <1>7, <2>1, AckCases
<1>8. ASSUME NEW buffer \in BOOLEAN, Attach(buffer)
      PROVE  Handshake'
  BY <1>t, <1>8 DEF Attach, handshakeVars, Handshake
<1>9. ASSUME NEW fenced \in BOOLEAN, Commit(fenced)
      PROVE  Handshake'
  <2>1. CASE Waits(fenced)
    BY <1>t, <2>1 DEF Waits, handshakeVars, Handshake
  <2>2. CASE Applies
    BY <1>t, <1>a, <2>2 DEF Applies, TypeOK
  <2> QED
    BY <1>0, <1>9, <2>1, <2>2, CommitCases
<1>10. ASSUME NEW i \in 1..MaxQueue, FenceSignalled(i)
       PROVE  Handshake'
  BY <1>t, <1>10 DEF FenceSignalled, handshakeVars, Handshake
<1>11. CASE ApplyCached
  BY <1>a, <1>11, FirstCommit DEF ApplyCached
<1>12. CASE UNCHANGED vars
  BY <1>t, <1>12 DEF vars, Handshake
<1> QED
  BY <1>1, <1>2, <1>3, <1>4, <1>5, <1>6, <1>7, <1>8, <1>9, <1>10, <1>11, <1>12 DEF Next

LEMMA SerialsTyped ==
    ASSUME TypeOK
    PROVE  /\ serial \in Nat /\ pending.serial \in Nat /\ current.serial \in Nat
           /\ \A c \in sent : c.serial \in Nat
           /\ configures \in Seq(Configures) /\ Len(configures) \in Nat
           /\ \A i \in 1..Len(configures) : configures[i].serial \in Nat
           /\ queue \in Seq(Queued) /\ Len(queue) \in Nat
           /\ \A i \in 1..Len(queue) : queue[i].state \in Commits /\ queue[i].state.serial \in Nat
<1>1. serial \in Nat /\ configures \in Seq(Configures) /\ queue \in Seq(Queued)
  BY ConstantsAssumption DEF TypeOK
<1>2. \A c \in Configures : c.serial \in Nat
  BY ConstantsAssumption DEF Configures
<1>3. \A c \in Commits : c.serial \in Nat
  BY ConstantsAssumption DEF Commits
<1>4. \A q \in Queued : q.state \in Commits
  BY DEF Queued
<1>5. /\ Len(configures) \in Nat /\ \A i \in 1..Len(configures) : configures[i] \in Configures
      /\ Len(queue) \in Nat /\ \A i \in 1..Len(queue) : queue[i] \in Queued
  BY <1>1, LenProperties, ElementOfSeq
<1>6. sent \subseteq Configures /\ pending \in Commits /\ current \in Commits
  BY DEF TypeOK
<1> QED
  BY <1>1, <1>2, <1>3, <1>4, <1>5, <1>6

LEMMA SerialsStep ==
    ASSUME IInv, [Next]_vars
    PROVE  Serials'
<1>t. TypeOK /\ Handshake /\ Serials
  BY DEF IInv
<1>n. /\ serial \in Nat /\ pending.serial \in Nat
      /\ \A c \in sent : c.serial \in Nat
      /\ configures \in Seq(Configures) /\ Len(configures) \in Nat
      /\ \A i \in 1..Len(configures) : configures[i].serial \in Nat
  BY <1>t, SerialsTyped
<1>0. ASSUME UNCHANGED <<sent, serial, idle, configures>>, pending'.serial = pending.serial
      PROVE  Serials'
  BY <1>0, <1>t DEF Serials
<1>r. ASSUME UNCHANGED <<sent, serial>>, Reset, pending'.serial \in Nat, pending'.serial <= serial
      PROVE  Serials'
  BY <1>r, <1>t, EmptySeq DEF Serials, Reset
<1>a. ASSUME NEW c \in Commits, Apply(c), UNCHANGED <<sent, serial>>,
             pending'.serial = pending.serial
      PROVE  Serials'
  <2>1. CASE Unmaps(c)
    BY <1>t, <1>n, <1>a, <1>r, <2>1 DEF Unmaps, Serials
  <2>2. CASE Updates(c)
    BY <1>0, <1>a, <2>2 DEF Updates
  <2>3. CASE Unheard(c)
    BY <1>0, <1>a, <2>3 DEF Unheard, handshakeVars
  <2> QED
    BY <1>t, <1>a, <2>1, <2>2, <2>3, ApplyCases
<1>b. ASSUME Error
      PROVE  Serials'
  BY <1>0, <1>b, ErrorEffect
<1>1. CASE GetXdgSurface
  <2>1. CASE current.hasbuf
    BY <1>b, <1>1, <2>1 DEF GetXdgSurface
  <2>2. CASE ~current.hasbuf
    BY <1>t, <1>n, <1>r, <1>1, <2>2, ZeroedType DEF GetXdgSurface, TypeOK
  <2> QED
    BY <2>1, <2>2
<1>2. CASE GetToplevel
  <2>1. CASE toplevel
    BY <1>b, <1>2, <2>1 DEF GetToplevel
  <2>2. CASE ~toplevel
    BY <1>t, <1>0, <1>2, <2>2, ZeroedType DEF GetToplevel, handshakeVars, TypeOK
  <2> QED
    BY <2>1, <2>2
<1>3. CASE DestroyToplevel
  BY <1>t, <1>n, <1>r, <1>3 DEF DestroyToplevel, Serials
<1>4. CASE DestroyXdgSurface
  BY <1>t, <1>n, <1>b, <1>r, <1>4 DEF DestroyXdgSurface, Serials
<1>5. ASSUME NEW s \in Sizes, SetSize(s)
      PROVE  Serials'
  <2>1. UNCHANGED <<sent, configures, pending>>
    BY <1>5 DEF SetSize, surfaceVars
  <2>2. CASE idle
    BY <1>t, <1>0, <1>5, <2>1, <2>2 DEF SetSize, ScheduleConfigure, TypeOK
  <2>3. CASE ~idle
    BY <1>t, <1>n, <1>5, <2>1, <2>3 DEF SetSize, ScheduleConfigure, Serials
  <2> QED
    BY <2>2, <2>3
<1>6. CASE SendConfigure
  <2> DEFINE c == [serial |-> serial, size |-> scheduled]
  <2>1. /\ sent' = sent \cup {c} /\ configures' = Append(configures, c)
        /\ idle' = FALSE /\ idle /\ UNCHANGED <<serial, pending>>
    BY <1>6 DEF SendConfigure, surfaceVars
  <2>2. c \in Configures /\ c.serial = serial
    BY <1>t, <1>n, <2>1 DEF TypeOK, Serials, Configures
  <2> HIDE DEF c
  <2>3. /\ Len(configures') = Len(configures) + 1
        /\ \A i \in 1..Len(configures) : configures'[i] = configures[i]
        /\ configures'[Len(configures) + 1] = c
    BY <1>n, <2>1, <2>2, AppendProperties
  <2>4. \A i \in 1..Len(configures') :
          /\ configures'[i] \in sent' /\ pending'.serial < configures'[i].serial
          /\ i # Len(configures') => configures'[i] \in sent
    BY <1>t, <1>n, <2>1, <2>2, <2>3 DEF Serials
  <2>5. \A i, j \in 1..Len(configures') :
          i < j => configures'[i].serial < configures'[j].serial
    <3> SUFFICES ASSUME NEW i \in 1..Len(configures'), NEW j \in 1..Len(configures'), i < j
                 PROVE  configures'[i].serial < configures'[j].serial
      OBVIOUS
    <3>1. CASE j = Len(configures')
      BY <1>t, <1>n, <2>1, <2>2, <2>3, <2>4, <3>1 DEF Serials
    <3>2. CASE j # Len(configures')
      <4>0. Len(configures) \in Nat /\ Len(configures') = Len(configures) + 1
        BY <1>n, <2>3
      <4>1. i \in 1..Len(configures) /\ j \in 1..Len(configures)
        BY <3>2, <4>0
      <4>2. configures'[i] = configures[i] /\ configures'[j] = configures[j]
        BY <2>3, <4>1
      <4> QED
        BY <1>t, <4>1, <4>2 DEF Serials
    <3> QED
      BY <3>1, <3>2
  <2>6. /\ \A d \in sent' : d.serial <= serial'
        /\ pending'.serial <= serial'
    BY <1>t, <1>n, <2>1, <2>2 DEF Serials
  <2> QED
    BY <2>1, <2>4, <2>5, <2>6 DEF Serials
<1>7. ASSUME NEW n \in 1..MaxSerial, AckConfigure(n)
      PROVE  Serials'
  <2>1. ASSUME NEW k \in 1..Len(configures), Acks(n, k)
        PROVE  Serials'
    <3>1. /\ Len(configures') = Len(configures) - k
          /\ \A i \in 1..Len(configures') : configures'[i] = configures[i + k]
      BY <1>n, <2>1, AckedType DEF Acks
    <3>2. /\ pending'.serial = n /\ configures[k].serial = n /\ configures[k] \in sent
          /\ UNCHANGED <<sent, serial, idle>>
      BY <1>t, <2>1, AckedPending DEF Acks, Serials
    <3>3. \A i \in 1..Len(configures') : i + k \in 1..Len(configures) /\ k < i + k
      BY <1>n, <3>1
    <3>4. \A i \in 1..Len(configures') :
            configures'[i] \in sent' /\ pending'.serial < configures'[i].serial
      BY <1>t, <3>1, <3>2, <3>3 DEF Serials
    <3>5. \A i, j \in 1..Len(configures') :
            i < j => configures'[i].serial < configures'[j].serial
      <4> SUFFICES ASSUME NEW i \in 1..Len(configures'), NEW j \in 1..Len(configures'), i < j
                   PROVE  configures[i + k].serial < configures[j + k].serial
        BY <3>1
      <4>1. i + k \in 1..Len(configures) /\ j + k \in 1..Len(configures) /\ i + k < j + k
        BY <1>n, <3>1, <3>3
      <4> QED
        BY <1>t, <4>1 DEF Serials
    <3> QED
      BY <1>t, <3>2, <3>4, <3>5 DEF Serials
  <2> QED
    BY <1>b, <1>7, <2>1, AckCases
<1>8. ASSUME NEW buffer \in BOOLEAN, Attach(buffer)
      PROVE  Serials'
  <2>1. pending'.serial = pending.serial
    BY <1>t, <1>8 DEF Attach, TypeOK, Commits
  <2> QED
    BY <1>0, <1>8, <2>1 DEF Attach, handshakeVars
<1>9. ASSUME NEW fenced \in BOOLEAN, Commit(fenced)
      PROVE  Serials'
  <2>1. [pending EXCEPT !.attach = "nothing"].serial = pending.serial
    BY <1>t DEF TypeOK, Commits
  <2>2. CASE Waits(fenced)
    BY <1>0, <2>1, <2>2 DEF Waits, handshakeVars
  <2>3. CASE Applies
    BY <1>t, <1>a, <2>1, <2>3 DEF Applies, TypeOK
  <2> QED
    BY <1>b, <1>9, <2>2, <2>3, CommitCases
<1>10. ASSUME NEW i \in 1..MaxQueue, FenceSignalled(i)
       PROVE  Serials'
  BY <1>0, <1>10 DEF FenceSignalled, handshakeVars
<1>11. CASE ApplyCached
  BY <1>a, <1>11, FirstCommit DEF ApplyCached
<1>12. CASE UNCHANGED vars
  BY <1>0, <1>12 DEF vars
<1> QED
  BY <1>1, <1>2, <1>3, <1>4, <1>5, <1>6, <1>7, <1>8, <1>9, <1>10, <1>11, <1>12 DEF Next

LEMMA OrderedStep ==
    ASSUME IInv, [Next]_vars
    PROVE  /\ Ordered'
           /\ xdg /\ xdg' => current'.serial >= current.serial
<1> DEFINE Goal == Ordered' /\ (xdg /\ xdg' => current'.serial >= current.serial)
<1>t. TypeOK /\ Serials /\ Ordered
  BY DEF IInv
<1>n. /\ serial \in Nat /\ pending.serial \in Nat /\ current.serial \in Nat
      /\ configures \in Seq(Configures) /\ Len(configures) \in Nat
      /\ \A i \in 1..Len(configures) : configures[i].serial \in Nat
      /\ queue \in Seq(Queued) /\ Len(queue) \in Nat
      /\ \A i \in 1..Len(queue) : queue[i].state.serial \in Nat
  BY <1>t, SerialsTyped
<1>0. ASSUME UNCHANGED <<queue, current>>, pending'.serial \in Nat,
             pending'.serial >= pending.serial
      PROVE  Goal
  BY <1>0, <1>t, <1>n DEF Ordered
<1>b. ASSUME Error
      PROVE  Goal
  BY <1>0, <1>b, <1>n, ErrorEffect
<1>1. CASE GetXdgSurface
  <2>1. CASE current.hasbuf
    BY <1>b, <1>1, <2>1 DEF GetXdgSurface
  <2>2. CASE ~current.hasbuf
    <3>1. /\ pending'.serial = 0 /\ current'.serial = 0 /\ ~xdg
          /\ Len(queue') = Len(queue)
          /\ \A i \in 1..Len(queue) : queue'[i].state.serial = 0
      BY <1>t, <1>n, <1>1, <2>2, ZeroedType, InQueueType DEF GetXdgSurface, TypeOK
    <3> QED
      BY <3>1 DEF Ordered
  <2> QED
    BY <2>1, <2>2
<1>2. CASE GetToplevel
  <2>1. CASE toplevel
    BY <1>b, <1>2, <2>1 DEF GetToplevel
  <2>2. CASE ~toplevel
    <3>1. /\ pending'.serial = pending.serial /\ current'.serial = current.serial
          /\ Len(queue') = Len(queue)
          /\ \A i \in 1..Len(queue) : queue'[i].state.serial = queue[i].state.serial
      BY <1>t, <1>n, <1>2, <2>2, ZeroedType, InQueueType DEF GetToplevel, TypeOK
    <3>2. current'.serial <= pending'.serial
      BY <1>t, <1>n, <3>1 DEF Ordered
    <3>3. \A i \in 1..Len(queue) :
            /\ current'.serial <= queue'[i].state.serial /\ queue'[i].state.serial <= pending'.serial
            /\ \A j \in 1..Len(queue) : i < j => queue'[i].state.serial <= queue'[j].state.serial
      BY <1>t, <1>n, <3>1 DEF Ordered
    <3> QED
      BY <1>n, <3>1, <3>2, <3>3 DEF Ordered
  <2> QED
    BY <2>1, <2>2
<1>3. CASE DestroyToplevel
  BY <1>0, <1>n, <1>3 DEF DestroyToplevel
<1>4. CASE DestroyXdgSurface
  BY <1>0, <1>n, <1>b, <1>4 DEF DestroyXdgSurface
<1>5. ASSUME NEW s \in Sizes, SetSize(s)
      PROVE  Goal
  BY <1>0, <1>n, <1>5 DEF SetSize, surfaceVars
<1>6. CASE SendConfigure
  BY <1>0, <1>n, <1>6 DEF SendConfigure, surfaceVars
<1>7. ASSUME NEW n \in 1..MaxSerial, AckConfigure(n)
      PROVE  Goal
  <2>1. ASSUME NEW k \in 1..Len(configures), Acks(n, k)
        PROVE  Goal
    <3>1. pending'.serial = configures[k].serial /\ pending.serial < configures[k].serial
      BY <1>t, <2>1, AckedPending DEF Serials
    <3> QED
      BY <1>0, <1>n, <2>1, <3>1 DEF Acks
  <2> QED
    BY <1>b, <1>7, <2>1, AckCases
<1>8. ASSUME NEW buffer \in BOOLEAN, Attach(buffer)
      PROVE  Goal
  <2>1. pending'.serial = pending.serial
    BY <1>t, <1>8 DEF Attach, TypeOK, Commits
  <2> QED
    BY <1>0, <1>n, <1>8, <2>1 DEF Attach
<1>9. ASSUME NEW fenced \in BOOLEAN, Commit(fenced)
      PROVE  Goal
  <2>1. [pending EXCEPT !.attach = "nothing"].serial = pending.serial
    BY <1>t DEF TypeOK, Commits
  <2>2. CASE Waits(fenced)
    <3> DEFINE q == [state |-> pending, locked |-> fenced]
    <3>1. q \in Queued /\ q.state.serial = pending.serial
      BY <1>t DEF TypeOK, Queued
    <3>2. queue' = Append(queue, q) /\ current' = current /\ pending'.serial = pending.serial
      BY <2>1, <2>2 DEF Waits
    <3> HIDE DEF q
    <3>3. /\ Len(queue') = Len(queue) + 1
          /\ \A i \in 1..Len(queue) : queue'[i] = queue[i]
          /\ queue'[Len(queue) + 1] = q
      BY <1>n, <3>1, <3>2, AppendProperties
    <3>4. \A i \in 1..Len(queue') :
            /\ current'.serial <= queue'[i].state.serial
            /\ queue'[i].state.serial <= pending'.serial
      BY <1>t, <1>n, <3>1, <3>2, <3>3 DEF Ordered
    <3>5. \A i, j \in 1..Len(queue') : i < j => queue'[i].state.serial <= queue'[j].state.serial
      <4> SUFFICES ASSUME NEW i \in 1..Len(queue'), NEW j \in 1..Len(queue'), i < j
                   PROVE  queue'[i].state.serial <= queue'[j].state.serial
        OBVIOUS
      <4>1. CASE j = Len(queue')
        BY <1>n, <3>1, <3>2, <3>3, <3>4, <4>1
      <4>2. CASE j # Len(queue')
        <5>0. Len(queue) \in Nat /\ Len(queue') = Len(queue) + 1
          BY <1>n, <3>3
        <5>1. i \in 1..Len(queue) /\ j \in 1..Len(queue)
          BY <4>2, <5>0
        <5>2. queue'[i] = queue[i] /\ queue'[j] = queue[j]
          BY <3>3, <5>1
        <5> QED
          BY <1>t, <5>1, <5>2 DEF Ordered
      <4> QED
        BY <4>1, <4>2
    <3> QED
      BY <1>t, <1>n, <3>2, <3>4, <3>5 DEF Ordered
  <2>3. CASE Applies
    <3>1. current' = pending /\ queue' = <<>> /\ pending'.serial = pending.serial
      BY <1>t, <2>1, <2>3, ApplyCases DEF Applies, TypeOK
    <3> QED
      BY <1>t, <1>n, <3>1, EmptySeq DEF Ordered
  <2> QED
    BY <1>b, <1>9, <2>2, <2>3, CommitCases
<1>10. ASSUME NEW i \in 1..MaxQueue, FenceSignalled(i)
       PROVE  Goal
  <2>1. /\ Len(queue') = Len(queue)
        /\ \A k \in 1..Len(queue) : queue'[k].state = queue[k].state
        /\ UNCHANGED <<current, pending>>
    BY <1>n, <1>10, UnlockType DEF FenceSignalled
  <2>2. \A k \in 1..Len(queue) : queue'[k].state.serial = queue[k].state.serial
    BY <2>1
  <2>3. current' = current /\ pending' = pending /\ Len(queue') = Len(queue)
    BY <2>1
  <2> QED
    BY <1>t, <1>n, <2>2, <2>3 DEF Ordered
<1>11. CASE ApplyCached
  <2>1. queue # <<>> /\ current' = queue[1].state /\ queue' = Tail(queue) /\ UNCHANGED pending
    BY <1>t, <1>11, FirstCommit, ApplyCases DEF ApplyCached
  <2>2. Len(queue') = Len(queue) - 1 /\ \A i \in 1..Len(queue') : queue'[i] = queue[i + 1]
    BY <1>n, <2>1, HeadTailProperties
  <2>3. 1 \in 1..Len(queue) /\ \A i \in 1..Len(queue') : i + 1 \in 1..Len(queue) /\ 1 < i + 1
    BY <1>n, <2>1, <2>2, EmptySeq
  <2>4. /\ current'.serial <= pending'.serial
        /\ current.serial <= current'.serial
        /\ \A i \in 1..Len(queue') :
             current'.serial <= queue'[i].state.serial /\ queue'[i].state.serial <= pending'.serial
    BY <1>t, <2>1, <2>2, <2>3 DEF Ordered
  <2>5. \A i, j \in 1..Len(queue') : i < j => queue'[i].state.serial <= queue'[j].state.serial
    <3> SUFFICES ASSUME NEW i \in 1..Len(queue'), NEW j \in 1..Len(queue'), i < j
                 PROVE  queue[i + 1].state.serial <= queue[j + 1].state.serial
      BY <2>2
    <3>1. i + 1 \in 1..Len(queue) /\ j + 1 \in 1..Len(queue) /\ i + 1 < j + 1
      BY <1>n, <2>2, <2>3
    <3> QED
      BY <1>t, <3>1 DEF Ordered
  <2>6. current'.serial >= current.serial
    BY <1>n, <2>1, <2>3, <2>4
  <2> QED
    BY <2>4, <2>5, <2>6 DEF Ordered
<1>12. CASE UNCHANGED vars
  BY <1>0, <1>n, <1>12 DEF vars
<1> QED
  BY <1>1, <1>2, <1>3, <1>4, <1>5, <1>6, <1>7, <1>8, <1>9, <1>10, <1>11, <1>12 DEF Next

LEMMA WishesStep ==
    ASSUME IInv, [Next]_vars
    PROVE  Wishes'
<1>t. TypeOK /\ Handshake /\ Wishes
  BY DEF IInv
<1>0. ASSUME UNCHANGED <<sent, serial, scheduled, idle, wanted>>
      PROVE  Wishes'
  BY <1>0, <1>t DEF Wishes
<1>r. ASSUME Reset
      PROVE  Wishes'
  BY <1>r DEF Wishes, Reset
<1>a. ASSUME NEW c \in Commits, Apply(c), UNCHANGED <<sent, serial, scheduled>>
      PROVE  Wishes'
  <2>1. CASE Unmaps(c)
    BY <1>r, <2>1 DEF Unmaps
  <2>2. CASE Updates(c)
    BY <1>0, <1>a, <2>2 DEF Updates
  <2>3. CASE Unheard(c)
    BY <1>0, <1>a, <2>3 DEF Unheard, handshakeVars
  <2> QED
    BY <1>t, <1>a, <2>1, <2>2, <2>3, ApplyCases
<1>b. ASSUME Error
      PROVE  Wishes'
  BY <1>0, <1>b, ErrorEffect
<1>1. CASE GetXdgSurface
  BY <1>b, <1>r, <1>1 DEF GetXdgSurface
<1>2. CASE GetToplevel
  <2>1. CASE toplevel
    BY <1>b, <1>2, <2>1 DEF GetToplevel
  <2>2. CASE ~toplevel
    <3>1. wanted = {} /\ wanted' = wanted
      BY <1>t, <1>2, <2>2 DEF GetToplevel, handshakeVars, Handshake
    <3> QED
      BY <3>1 DEF Wishes
  <2> QED
    BY <2>1, <2>2
<1>3. CASE DestroyToplevel
  BY <1>r, <1>3 DEF DestroyToplevel
<1>4. CASE DestroyXdgSurface
  BY <1>b, <1>r, <1>4 DEF DestroyXdgSurface
<1>5. ASSUME NEW s \in Sizes, SetSize(s)
      PROVE  Wishes'
  BY <1>5 DEF SetSize, ScheduleConfigure, Wishes
<1>6. CASE SendConfigure
  BY <1>t, <1>6 DEF SendConfigure, Wishes
<1>7. ASSUME NEW n \in 1..MaxSerial, AckConfigure(n)
      PROVE  Wishes'
  BY <1>0, <1>b, <1>7, AckCases DEF Acks
<1>8. ASSUME NEW buffer \in BOOLEAN, Attach(buffer)
      PROVE  Wishes'
  BY <1>0, <1>8 DEF Attach, handshakeVars
<1>9. ASSUME NEW fenced \in BOOLEAN, Commit(fenced)
      PROVE  Wishes'
  <2>1. CASE Waits(fenced)
    BY <1>0, <2>1 DEF Waits, handshakeVars
  <2>2. CASE Applies
    BY <1>t, <1>a, <2>2 DEF Applies, TypeOK
  <2> QED
    BY <1>b, <1>9, <2>1, <2>2, CommitCases
<1>10. ASSUME NEW i \in 1..MaxQueue, FenceSignalled(i)
       PROVE  Wishes'
  BY <1>0, <1>10 DEF FenceSignalled, handshakeVars
<1>11. CASE ApplyCached
  BY <1>a, <1>11, FirstCommit DEF ApplyCached
<1>12. CASE UNCHANGED vars
  BY <1>0, <1>12 DEF vars
<1> QED
  BY <1>1, <1>2, <1>3, <1>4, <1>5, <1>6, <1>7, <1>8, <1>9, <1>10, <1>11, <1>12 DEF Next

LEMMA CarriedStep ==
    ASSUME IInv, [Next]_vars
    PROVE  Carried'
<1>t. TypeOK /\ Handshake /\ Serials /\ Carried
  BY DEF IInv
<1>0. ASSUME sent \subseteq sent', UNCHANGED <<configured, pending>>
      PROVE  Carried'
  BY <1>0, <1>t DEF Carried
<1>r. ASSUME ~configured', pending'.attach = "null" => ~pending'.hasbuf
      PROVE  Carried'
  BY <1>r DEF Carried
<1>p. pending.attach = "null" => ~pending.hasbuf
  BY <1>t DEF Carried
<1>z. /\ ZeroedSerial(pending).attach = pending.attach /\ ZeroedSize(pending).attach = pending.attach
      /\ ZeroedSerial(pending).hasbuf = pending.hasbuf /\ ZeroedSize(pending).hasbuf = pending.hasbuf
  BY <1>t DEF TypeOK, Commits, ZeroedSerial, ZeroedSize
<1>b. ASSUME Error
      PROVE  Carried'
  BY <1>0, <1>b, ErrorEffect
<1>1. CASE GetXdgSurface
  <2>1. CASE current.hasbuf
    BY <1>b, <1>1, <2>1 DEF GetXdgSurface
  <2>2. CASE ~current.hasbuf
    BY <1>p, <1>z, <1>r, <1>1, <2>2 DEF GetXdgSurface, Reset
  <2> QED
    BY <2>1, <2>2
<1>2. CASE GetToplevel
  <2>1. CASE toplevel
    BY <1>b, <1>2, <2>1 DEF GetToplevel
  <2>2. CASE ~toplevel
    <3>1. ~configured /\ configured' = configured
      BY <1>t, <1>2, <2>2 DEF GetToplevel, handshakeVars, Handshake
    <3> QED
      BY <1>p, <1>z, <1>r, <1>2, <2>2, <3>1 DEF GetToplevel
  <2> QED
    BY <2>1, <2>2
<1>3. CASE DestroyToplevel
  BY <1>p, <1>r, <1>3 DEF DestroyToplevel, Reset
<1>4. CASE DestroyXdgSurface
  BY <1>b, <1>p, <1>r, <1>4 DEF DestroyXdgSurface, Reset
<1>5. ASSUME NEW s \in Sizes, SetSize(s)
      PROVE  Carried'
  BY <1>0, <1>5 DEF SetSize, surfaceVars
<1>6. CASE SendConfigure
  BY <1>0, <1>6 DEF SendConfigure, surfaceVars
<1>7. ASSUME NEW n \in 1..MaxSerial, AckConfigure(n)
      PROVE  Carried'
  <2>1. ASSUME NEW k \in 1..Len(configures), Acks(n, k)
        PROVE  Carried'
    <3>1. toplevel
      BY <1>t, <2>1 DEF Handshake
    <3>2. /\ [serial |-> pending'.serial, size |-> pending'.size] = configures[k]
          /\ pending'.attach = pending.attach /\ pending'.hasbuf = pending.hasbuf
      BY <1>t, <2>1, <3>1, AckedPending
    <3>3. configures[k] \in sent /\ sent' = sent
      BY <1>t, <2>1 DEF Serials, Acks
    <3> QED
      BY <1>p, <3>2, <3>3 DEF Carried
  <2> QED
    BY <1>b, <1>7, <2>1, AckCases
<1>8. ASSUME NEW buffer \in BOOLEAN, Attach(buffer)
      PROVE  Carried'
  <2>1. /\ pending'.serial = pending.serial /\ pending'.size = pending.size
        /\ pending'.attach = (IF buffer THEN "buffer" ELSE "null") /\ pending'.hasbuf = buffer
    BY <1>t, <1>8 DEF Attach, TypeOK, Commits
  <2>2. pending'.attach = "null" => ~pending'.hasbuf
    BY <2>1
  <2>3. configured' = configured /\ sent' = sent
    BY <1>8 DEF Attach, handshakeVars
  <2> QED
    BY <1>t, <2>1, <2>2, <2>3 DEF Carried
<1>9. ASSUME NEW fenced \in BOOLEAN, Commit(fenced)
      PROVE  Carried'
  <2> DEFINE p == [pending EXCEPT !.attach = "nothing"]
  <2>1. p.serial = pending.serial /\ p.size = pending.size /\ p.attach # "null"
    BY <1>t DEF TypeOK, Commits
  <2>2. ASSUME pending' = p, sent' = sent, configured' => configured
        PROVE  Carried'
    BY <1>t, <2>1, <2>2 DEF Carried
  <2>3. CASE Waits(fenced)
    BY <2>2, <2>3 DEF Waits, handshakeVars
  <2>4. CASE Applies
    <3>1. Unmaps(pending) \/ Updates(pending) \/ Unheard(pending)
      BY <1>t, <2>4, ApplyCases DEF Applies, TypeOK
    <3>2. configured' => configured
      BY <3>1 DEF Unmaps, Updates, Unheard, Reset, handshakeVars
    <3> QED
      BY <2>2, <2>4, <3>2 DEF Applies
  <2> QED
    BY <1>b, <1>9, <2>3, <2>4, CommitCases
<1>10. ASSUME NEW i \in 1..MaxQueue, FenceSignalled(i)
       PROVE  Carried'
  BY <1>0, <1>10 DEF FenceSignalled, handshakeVars
<1>11. CASE ApplyCached
  <2> DEFINE c == queue[1].state
  <2>1. Unmaps(c) \/ Updates(c) \/ Unheard(c)
    BY <1>t, <1>11, FirstCommit, ApplyCases DEF ApplyCached
  <2>2. configured' = configured \/ ~configured'
    BY <2>1 DEF Unmaps, Updates, Unheard, Reset, handshakeVars
  <2>3. pending' = pending /\ sent' = sent
    BY <1>11 DEF ApplyCached
  <2> QED
    BY <1>0, <1>p, <1>r, <2>2, <2>3
<1>12. CASE UNCHANGED vars
  BY <1>0, <1>12 DEF vars
<1> QED
  BY <1>1, <1>2, <1>3, <1>4, <1>5, <1>6, <1>7, <1>8, <1>9, <1>10, <1>11, <1>12 DEF Next

LEMMA DrainedStep ==
    ASSUME IInv, [Next]_vars
    PROVE  Drained'
<1>t. TypeOK /\ Drained
  BY DEF IInv
<1>n. queue \in Seq(Queued) /\ Len(queue) \in Nat
  BY <1>t, SerialsTyped
<1>0. ASSUME UNCHANGED <<queue, draining, waited>>
      PROVE  Drained'
  BY <1>0, <1>t DEF Drained
<1>d. ASSUME ~draining, UNCHANGED <<draining, waited>>,
             queue' \in Seq(Queued), Len(queue') = Len(queue)
      PROVE  Drained'
  BY <1>d, <1>t, <1>n, EmptySeq DEF Drained
<1>b. ASSUME Error
      PROVE  Drained'
  BY <1>0, <1>b, ErrorEffect
<1>1. CASE GetXdgSurface
  BY <1>b, <1>d, <1>n, <1>1, InQueueType DEF GetXdgSurface, Dispatching
<1>2. CASE GetToplevel
  BY <1>b, <1>d, <1>n, <1>2, InQueueType DEF GetToplevel, Dispatching
<1>3. CASE DestroyToplevel
  BY <1>0, <1>3 DEF DestroyToplevel
<1>4. CASE DestroyXdgSurface
  BY <1>0, <1>b, <1>4 DEF DestroyXdgSurface
<1>5. ASSUME NEW s \in Sizes, SetSize(s)
      PROVE  Drained'
  BY <1>0, <1>5 DEF SetSize, surfaceVars
<1>6. CASE SendConfigure
  BY <1>0, <1>6 DEF SendConfigure, surfaceVars
<1>7. ASSUME NEW n \in 1..MaxSerial, AckConfigure(n)
      PROVE  Drained'
  BY <1>0, <1>b, <1>7, AckCases DEF Acks
<1>8. ASSUME NEW buffer \in BOOLEAN, Attach(buffer)
      PROVE  Drained'
  BY <1>0, <1>8 DEF Attach
<1>9. ASSUME NEW fenced \in BOOLEAN, Commit(fenced)
      PROVE  Drained'
  <2>1. CASE Waits(fenced)
    <3>1. ~draining /\ draining' = draining /\ waited' = TRUE
      BY <1>9, <2>1 DEF Commit, Dispatching, Waits
    <3> QED
      BY <3>1 DEF Drained
  <2>2. CASE Applies
    BY <1>0, <2>2 DEF Applies
  <2> QED
    BY <1>b, <1>9, <2>1, <2>2, CommitCases
<1>10. ASSUME NEW i \in 1..MaxQueue, FenceSignalled(i)
       PROVE  Drained'
  <2>1. i \in 1..Len(queue) /\ waited' = waited
    BY <1>10 DEF FenceSignalled
  <2>2. queue # <<>> /\ waited
    BY <1>t, <1>n, <2>1, EmptySeq DEF Drained
  <2>3. queue' \in Seq(Queued) /\ Len(queue') = Len(queue)
    BY <1>n, <1>10, <2>1, UnlockType DEF FenceSignalled
  <2> QED
    BY <1>n, <2>1, <2>2, <2>3, EmptySeq DEF Drained
<1>11. CASE ApplyCached
  <2>1. queue # <<>> /\ draining /\ waited' = waited
    BY <1>11, FirstCommit DEF ApplyCached
  <2>2. waited
    BY <1>t, <2>1 DEF Drained
  <2>3. queue' \in Seq(Queued) /\ Len(queue') = Len(queue) - 1 /\ (draining' => Len(queue) > 1)
    BY <1>n, <1>11, <2>1, HeadTailProperties DEF ApplyCached
  <2> QED
    BY <1>n, <2>1, <2>2, <2>3, EmptySeq DEF Drained
<1>12. CASE UNCHANGED vars
  BY <1>0, <1>12 DEF vars
<1> QED
  BY <1>1, <1>2, <1>3, <1>4, <1>5, <1>6, <1>7, <1>8, <1>9, <1>10, <1>11, <1>12 DEF Next

LEMMA MappedStep ==
    ASSUME IInv, [Next]_vars
    PROVE  Mapped'
<1>t. TypeOK /\ Handshake /\ Carried /\ Drained /\ Mapped
  BY DEF IInv
<1>w. ASSUME waited'
      PROVE  Mapped'
  BY <1>w DEF Mapped, MappedConfigured
<1>m. waited \/ /\ failed = {}
                /\ mapped => /\ toplevel /\ initialized /\ configured /\ ~initialCommit
                             /\ [serial |-> current.serial, size |-> current.size] \in sent
  BY <1>t DEF Mapped, MappedConfigured
<1>0. ASSUME UNCHANGED <<waited, failed, mapped, toplevel, initialized, initialCommit, current>>,
             configured => configured', sent \subseteq sent'
      PROVE  Mapped'
  BY <1>0, <1>m DEF Mapped, MappedConfigured
<1>u. ASSUME UNCHANGED <<waited, failed>>, ~mapped'
      PROVE  Mapped'
  BY <1>u, <1>m DEF Mapped, MappedConfigured
<1>b. ASSUME Error
      PROVE  Mapped'
  BY <1>0, <1>b, ErrorEffect
<1>1. CASE GetXdgSurface
  <2>1. CASE current.hasbuf
    BY <1>b, <1>1, <2>1 DEF GetXdgSurface
  <2>2. CASE ~current.hasbuf
    <3>1. waited' = waited /\ failed' = failed /\ mapped' = mapped /\ ~toplevel
      BY <1>t, <1>1, <2>2 DEF GetXdgSurface, Handshake
    <3> QED
      BY <1>w, <1>m, <1>u, <3>1
  <2> QED
    BY <2>1, <2>2
<1>2. CASE GetToplevel
  <2>1. CASE toplevel
    BY <1>b, <1>2, <2>1 DEF GetToplevel
  <2>2. CASE ~toplevel
    BY <1>w, <1>m, <1>u, <1>2, <2>2 DEF GetToplevel
  <2> QED
    BY <2>1, <2>2
<1>3. CASE DestroyToplevel
  BY <1>u, <1>3 DEF DestroyToplevel
<1>4. CASE DestroyXdgSurface
  BY <1>b, <1>u, <1>4 DEF DestroyXdgSurface
<1>5. ASSUME NEW s \in Sizes, SetSize(s)
      PROVE  Mapped'
  BY <1>0, <1>5 DEF SetSize, surfaceVars
<1>6. CASE SendConfigure
  BY <1>0, <1>6 DEF SendConfigure, surfaceVars
<1>7. ASSUME NEW n \in 1..MaxSerial, AckConfigure(n)
      PROVE  Mapped'
  BY <1>0, <1>b, <1>7, AckCases DEF Acks
<1>8. ASSUME NEW buffer \in BOOLEAN, Attach(buffer)
      PROVE  Mapped'
  BY <1>0, <1>8 DEF Attach, handshakeVars
<1>9. ASSUME NEW fenced \in BOOLEAN, Commit(fenced)
      PROVE  Mapped'
  <2>1. CASE Waits(fenced)
    BY <1>w, <2>1 DEF Waits
  <2>2. CASE Applies /\ ~waited
    <3>1. /\ current' = pending /\ (Unmaps(pending) \/ Updates(pending) \/ Unheard(pending))
          /\ UNCHANGED <<toplevel, sent, waited>>
      BY <1>t, <2>2, ApplyCases DEF Applies, TypeOK
    <3>2. CASE Unmaps(pending)
      <4>1. ~pending.hasbuf /\ ~initialCommit /\ mapped
        BY <1>t, <1>m, <2>2, <3>2 DEF Unmaps, Carried
      <4>2. failed' = {} /\ ~mapped'
        BY <3>2, <4>1 DEF Unmaps
      <4> QED
        BY <4>2 DEF Mapped, MappedConfigured
    <3>3. CASE Updates(pending)
      <4>1. xdg /\ toplevel /\ (pending.hasbuf => configured) /\ role = "toplevel"
        BY <1>t, <2>2, <3>3 DEF Applies, Updates, Refused, Handshake
      <4>2. failed' = {} /\ initialized' = TRUE /\ configured' = configured
        BY <3>3, <4>1 DEF Updates
      <4>3. mapped' => configured /\ initialized
        BY <1>t, <1>m, <2>2, <3>3, <4>1 DEF Updates, Handshake
      <4>4. initialCommit' = ~initialized
        BY <3>3 DEF Updates
      <4>5. configured => [serial |-> pending.serial, size |-> pending.size] \in sent
        BY <1>t DEF Carried
      <4> QED
        BY <3>1, <4>1, <4>2, <4>3, <4>4, <4>5 DEF Mapped, MappedConfigured
    <3>4. CASE Unheard(pending)
      <4>1. ~mapped /\ ~mapped' /\ failed' = failed
        BY <1>t, <1>m, <2>2, <3>4 DEF Unheard, Handshake
      <4> QED
        BY <1>u, <3>1, <4>1
    <3> QED
      BY <3>1, <3>2, <3>3, <3>4
  <2>3. CASE Applies /\ waited
    BY <1>w, <2>3 DEF Applies
  <2> QED
    BY <1>b, <1>9, <2>1, <2>2, <2>3, CommitCases
<1>10. ASSUME NEW i \in 1..MaxQueue, FenceSignalled(i)
       PROVE  Mapped'
  BY <1>0, <1>10 DEF FenceSignalled, handshakeVars
<1>11. CASE ApplyCached
  BY <1>t, <1>w, <1>11 DEF ApplyCached, Drained
<1>12. CASE UNCHANGED vars
  BY <1>0, <1>12 DEF vars
<1> QED
  BY <1>1, <1>2, <1>3, <1>4, <1>5, <1>6, <1>7, <1>8, <1>9, <1>10, <1>11, <1>12 DEF Next

-----------------------------------------------------------------------------
LEMMA InitIInv == Init => IInv
<1> SUFFICES ASSUME Init
             PROVE  IInv
  OBVIOUS
<1>1. NewCommit \in Commits /\ NewCommit.serial = 0 /\ NewCommit.attach = "nothing"
  BY ConstantsAssumption DEF NewCommit, Commits, AnySize
<1>2. TypeOK
  <2>1. 0 \in 0..MaxSerial /\ 0 \in AnySize
    BY ConstantsAssumption DEF AnySize
  <2>2. configures \in Seq(Configures) /\ queue \in Seq(Queued)
    BY EmptySeq DEF Init
  <2> QED
    BY <1>1, <2>1, <2>2 DEF Init, TypeOK
<1>3. Handshake /\ Wishes /\ Drained
  BY DEF Init, Handshake, Wishes, Drained
<1>4. Serials /\ Ordered
  BY <1>1, EmptySeq DEF Init, Serials, Ordered
<1>5. Carried /\ Mapped
  BY <1>1 DEF Init, Carried, Mapped, MappedConfigured
<1> QED
  BY <1>2, <1>3, <1>4, <1>5 DEF IInv

LEMMA NextIInv == IInv /\ [Next]_vars => IInv'
BY TypeStep, HandshakeStep, SerialsStep, OrderedStep, WishesStep, CarriedStep, DrainedStep,
   MappedStep DEF IInv

LEMMA Invariant == Spec => []IInv
BY InitIInv, NextIInv, PTL DEF Spec

(* The types of the xdg_surface's fields and of the states on their way.    *)
THEOREM TypeCorrect == Spec => []TypeOK
<1>1. IInv => TypeOK
  BY DEF IInv
<1> QED
  BY <1>1, Invariant, PTL

(* However often the toplevel and the xdg_surface are destroyed and made    *)
(* again, a surface that maps without a commit having waited went through   *)
(* the handshake, and no assertion of xdg_surface_role_commit fails.        *)
THEOREM MappedIsConfigured == Spec => []MappedConfigured
<1>1. IInv => MappedConfigured
  BY DEF IInv, Mapped
<1> QED
  BY <1>1, Invariant, PTL

(* No wish of the compositor is lost between wlr_xdg_toplevel_set_size and  *)
(* the idle callback that sends the configure.                              *)
THEOREM WishesAreSent == Spec => []WishesSent
<1>1. ASSUME IInv
      PROVE  WishesSent
  <2> SUFFICES ASSUME ~idle, NEW size \in wanted
               PROVE  \E c \in sent : c.size = size /\ \A d \in sent : d.serial <= c.serial
    BY DEF WishesSent
  <2> DEFINE c == [serial |-> serial, size |-> scheduled]
  <2>1. c \in sent /\ size = scheduled
    BY <1>1 DEF IInv, Wishes
  <2>2. \A d \in sent : d.serial <= c.serial
    BY <1>1 DEF IInv, Serials
  <2> QED
    BY <2>1, <2>2
<1> QED
  BY <1>1, Invariant, PTL

(* What is applied never goes back to an older acknowledged configure, as   *)
(* long as the xdg_surface lives, however many commits wait.                *)
THEOREM AcksAreMonotonic == Spec => AckMonotonic
<1>1. IInv /\ [Next]_vars => [xdg /\ xdg' => current'.serial >= current.serial]_vars
  BY OrderedStep
<1> QED
  BY <1>1, Invariant, PTL DEF Spec, AckMonotonic

-----------------------------------------------------------------------------
(***************************************************************************)
(* Layer surfaces.                                                         *)
(***************************************************************************)

Attaches == {"keep", "buffer", "null"}
LayerStates == [fields : [LayerFields -> {0, 1}], committed : SUBSET LayerFields,
                serial : Nat, actual : Nat]
LayerCommits == [attach : Attaches, state : LayerStates]
LayerConfigures == [serial : Nat, size : Nat]

(* The shape of a layer surface's state. *)
LayerShape ==
  [obj : BOOLEAN, init : BOOLEAN, conf : BOOLEAN, mapped : BOOLEAN,
   pbuf : BOOLEAN, buf : BOOLEAN, pending : LayerStates, current : LayerStates,
   queue : Seq(LayerCommits), confs : Seq(LayerConfigures), sent : Seq(Nat),
   popup : {"none", "orphan", "child"}, alive : BOOLEAN]
LayerTypeOK == layer \in LayerShape

(* A state that carries a serial carries the size sent under that serial.  *)
ToldBy(told, s) == s.serial > 0 => s.serial <= Len(told) /\ s.actual = told[s.serial]
RulesKept(s) == s.serial > 0 => ValidFields(s.fields)

LayerSizesAgree ==
  /\ ToldBy(layer.sent, layer.pending) /\ ToldBy(layer.sent, layer.current)
  /\ \A i \in 1..Len(layer.queue) : ToldBy(layer.sent, layer.queue[i].state)
  /\ \A i \in 1..Len(layer.confs) :
       /\ layer.confs[i].serial \in 1..Len(layer.sent)
       /\ layer.confs[i].size = layer.sent[layer.confs[i].serial]

(* What left the pending state was checked. *)
LayerRules ==
  /\ RulesKept(layer.current)
  /\ \A i \in 1..Len(layer.queue) : RulesKept(layer.queue[i].state)

(* A field in which a state differs from the one before it is flagged.     *)
Flagged(a, b) == \A f \in LayerFields : b.fields[f] # a.fields[f] => f \in b.committed
LayerChain ==
  /\ layer.queue = <<>> => Flagged(layer.current, layer.pending)
  /\ layer.queue # <<>> => /\ Flagged(layer.current, layer.queue[1].state)
                           /\ Flagged(layer.queue[Len(layer.queue)].state, layer.pending)
  /\ \A i \in 1..Len(layer.queue) : i > 1 =>
       Flagged(layer.queue[i - 1].state, layer.queue[i].state)

(* Without a layer surface nothing is left of an earlier one. *)
LayerGone ==
  ~layer.obj => /\ layer.pending = LayerUnset /\ layer.current = LayerUnset
                /\ \A i \in 1..Len(layer.queue) : layer.queue[i].state = LayerUnset
                /\ layer.confs = <<>> /\ ~layer.init /\ ~layer.mapped /\ layer.popup # "child"

LayerLife ==
  /\ layer.mapped => layer.buf
  /\ layer.confs # <<>> => layer.init

LayerInv == LayerTypeOK /\ LayerSizesAgree /\ LayerRules /\ LayerChain /\ LayerGone /\ LayerLife

-----------------------------------------------------------------------


-----------------------------------------------------------------------
LEMMA UnsetType == LayerUnset \in LayerStates /\ LayerUnset.serial = 0
BY DEF LayerUnset, LayerState, LayerStates, NoFields

LEMMA UnsetFacts ==
  /\ \A told : ToldBy(told, LayerUnset)
  /\ RulesKept(LayerUnset)
  /\ \A s \in LayerStates : s.fields = LayerUnset.fields => Flagged(LayerUnset, s)
  /\ Flagged(LayerUnset, LayerUnset)
BY UnsetType DEF ToldBy, RulesKept, Flagged, LayerUnset, LayerState, LayerStates, NoFields

LEMMA LayerTyped ==
  ASSUME LayerTypeOK
  PROVE  /\ layer.queue \in Seq(LayerCommits) /\ Len(layer.queue) \in Nat
         /\ layer.confs \in Seq(LayerConfigures) /\ layer.sent \in Seq(Nat)
         /\ Len(layer.confs) \in Nat /\ Len(layer.sent) \in Nat
         /\ \A i \in 1..Len(layer.queue) : /\ layer.queue[i] \in LayerCommits
                                          /\ layer.queue[i].state \in LayerStates
         /\ layer.queue # <<>> => /\ Len(layer.queue) > 0
                                  /\ layer.queue[1].state \in LayerStates
                                  /\ layer.queue[Len(layer.queue)].state \in LayerStates
<1>1. /\ layer.queue \in Seq(LayerCommits) /\ layer.confs \in Seq(LayerConfigures)
      /\ layer.sent \in Seq(Nat)
  BY DEF LayerTypeOK, LayerShape
<1>2. \A i \in 1..Len(layer.queue) : layer.queue[i] \in LayerCommits
  BY <1>1, SeqElements
<1>3. \A c \in LayerCommits : c.state \in LayerStates
  BY DEF LayerCommits
<1>4. layer.queue # <<>> => /\ Len(layer.queue) > 0 /\ 1 \in 1..Len(layer.queue)
                            /\ Len(layer.queue) \in 1..Len(layer.queue)
  BY <1>1, SeqElements
<1> QED
  BY <1>1, <1>2, <1>3, <1>4, LenProperties

LEMMA LayerStarts == LayerInit => LayerInv
<1> SUFFICES ASSUME LayerInit PROVE LayerInv
  OBVIOUS
<1> USE UnsetType, UnsetFacts
<1>1. LayerTypeOK
  BY DEF LayerInit, LayerTypeOK, LayerShape
<1>2. LayerSizesAgree /\ LayerRules
  BY DEF LayerInit, LayerSizesAgree, LayerRules
<1>3. LayerChain /\ LayerGone /\ LayerLife
  BY DEF LayerInit, LayerChain, LayerGone, LayerLife
<1> QED
  BY <1>1, <1>2, <1>3 DEF LayerInv

LEMMA LayerGets ==
  ASSUME LayerInv, layer_shell_handle_get_layer_surface
  PROVE  LayerInv'
<1>0. LayerTypeOK
  BY DEF LayerInv
<1>1. layer' = [layer EXCEPT !.obj = TRUE] /\ ~layer.obj
  BY DEF layer_shell_handle_get_layer_surface
<1>2. LayerTypeOK'
  BY <1>0, <1>1 DEF LayerTypeOK, LayerShape
<1>3. LayerSizesAgree' /\ LayerRules'
  BY <1>0, <1>1 DEF LayerInv, LayerTypeOK, LayerShape, LayerSizesAgree, LayerRules
<1>4. LayerChain' /\ LayerGone' /\ LayerLife'
  BY <1>0, <1>1 DEF LayerInv, LayerTypeOK, LayerShape, LayerChain, LayerGone, LayerLife
<1> QED
  BY <1>2, <1>3, <1>4 DEF LayerInv

LEMMA LayerSets ==
  ASSUME LayerInv, NEW f \in LayerFields, NEW v \in {0, 1}, layer_surface_handle_set(f, v)
  PROVE  LayerInv'
<1> DEFINE p == [layer.pending EXCEPT !.fields[f] = v, !.committed = @ \cup {f}]
<1>0. LayerTypeOK
  BY DEF LayerInv
<1>1. layer' = [layer EXCEPT !.pending = p] /\ layer.obj
  BY <1>0 DEF layer_surface_handle_set, LayerTypeOK, LayerShape, LayerStates
<1>2. /\ p \in LayerStates /\ p.serial = layer.pending.serial /\ p.actual = layer.pending.actual
      /\ \A g \in LayerFields : p.fields[g] # layer.pending.fields[g] => g = f
      /\ f \in p.committed /\ layer.pending.committed \subseteq p.committed
  BY <1>0 DEF LayerTypeOK, LayerShape, LayerStates
<1>3. \A s \in LayerStates : Flagged(s, layer.pending) => Flagged(s, p)
  BY <1>0, <1>2 DEF Flagged, LayerTypeOK, LayerShape, LayerStates
<1> HIDE DEF p
<1>4. LayerTypeOK'
  BY <1>0, <1>1, <1>2 DEF LayerTypeOK, LayerShape
<1>5. LayerSizesAgree' /\ LayerRules'
  BY <1>0, <1>1, <1>2 DEF LayerInv, LayerTypeOK, LayerShape, LayerSizesAgree, LayerRules, ToldBy
<1>6. LayerChain'
  <2>1. layer.queue # <<>> => layer.queue[Len(layer.queue)].state \in LayerStates
    BY <1>0, LayerTyped
  <2> QED
    BY <1>0, <1>1, <1>3, <2>1 DEF LayerInv, LayerTypeOK, LayerShape, LayerChain
<1>7. LayerGone' /\ LayerLife'
  BY <1>0, <1>1 DEF LayerInv, LayerTypeOK, LayerShape, LayerGone, LayerLife
<1> QED
  BY <1>4, <1>5, <1>6, <1>7 DEF LayerInv

LEMMA LayerAcks ==
  ASSUME LayerInv, NEW i \in 1..MaxLayerSerial, layer_surface_handle_ack_configure(i)
  PROVE  LayerInv'
<1> DEFINE c == layer.confs[i]
           p == [layer.pending EXCEPT !.serial = c.serial, !.actual = c.size]
           left == SubSeq(layer.confs, i + 1, Len(layer.confs))
<1>0. LayerTypeOK /\ MaxLayerSerial \in Nat
  BY LayerAssumption DEF LayerInv
<1>a. layer.confs \in Seq(LayerConfigures) /\ i \in 1..Len(layer.confs) /\ c \in LayerConfigures
  BY <1>0 DEF LayerTypeOK, LayerShape, layer_surface_handle_ack_configure
<1>b. /\ left \in Seq(LayerConfigures) /\ Len(left) = Len(layer.confs) - i
      /\ \A j \in 1..Len(left) : left[j] = layer.confs[j + i] /\ j + i \in 1..Len(layer.confs)
      /\ layer.confs # <<>>
  BY <1>a, DropFirst, SeqElements
<1>1. layer' = [layer EXCEPT !.confs = left, !.conf = TRUE, !.pending = p] /\ layer.obj
  BY <1>0 DEF layer_surface_handle_ack_configure, LayerTypeOK, LayerShape, LayerStates
<1>2. /\ p \in LayerStates /\ p.serial = c.serial /\ p.actual = c.size
      /\ p.fields = layer.pending.fields /\ p.committed = layer.pending.committed
  BY <1>0, <1>a DEF LayerTypeOK, LayerShape, LayerStates, LayerConfigures
<1>3. \A s \in LayerStates : Flagged(s, layer.pending) => Flagged(s, p)
  BY <1>2 DEF Flagged
<1>c. c.serial \in 1..Len(layer.sent) /\ c.size = layer.sent[c.serial]
  BY <1>a DEF LayerInv, LayerSizesAgree
<1>d. ToldBy(layer.sent, p)
  BY <1>c, <1>2 DEF ToldBy
<1> HIDE DEF p, left, c
<1>4. LayerTypeOK'
  BY <1>0, <1>1, <1>2, <1>b DEF LayerTypeOK, LayerShape
<1>5. LayerSizesAgree' /\ LayerRules'
  <2>1. \A j \in 1..Len(left) : /\ left[j].serial \in 1..Len(layer.sent)
                                /\ left[j].size = layer.sent[left[j].serial]
    BY <1>b DEF LayerInv, LayerSizesAgree
  <2> QED
    BY <1>0, <1>1, <1>d, <2>1 DEF LayerInv, LayerTypeOK, LayerShape, LayerSizesAgree, LayerRules
<1>6. LayerChain'
  <2>1. layer.queue # <<>> => layer.queue[Len(layer.queue)].state \in LayerStates
    BY <1>0, LayerTyped
  <2> QED
    BY <1>0, <1>1, <1>3, <2>1 DEF LayerInv, LayerTypeOK, LayerShape, LayerChain
<1>7. LayerGone' /\ LayerLife'
  BY <1>0, <1>1, <1>b DEF LayerInv, LayerTypeOK, LayerShape, LayerGone, LayerLife
<1> QED
  BY <1>4, <1>5, <1>6, <1>7 DEF LayerInv

LEMMA LayerPopups ==
  ASSUME LayerInv, layer_surface_handle_get_popup \/ create_popup \/ close_popup
  PROVE  LayerInv'
<1>0. LayerTypeOK
  BY DEF LayerInv
<1>1. PICK q \in {"none", "orphan", "child"} :
        layer' = [layer EXCEPT !.popup = q] /\ (q = "child" => layer.obj)
  BY <1>0 DEF layer_surface_handle_get_popup, create_popup, close_popup, LayerTypeOK, LayerShape
<1>2. LayerTypeOK'
  BY <1>0, <1>1 DEF LayerTypeOK, LayerShape
<1>3. LayerSizesAgree' /\ LayerRules'
  BY <1>0, <1>1 DEF LayerInv, LayerTypeOK, LayerShape, LayerSizesAgree, LayerRules
<1>4. LayerChain' /\ LayerGone' /\ LayerLife'
  BY <1>0, <1>1 DEF LayerInv, LayerTypeOK, LayerShape, LayerChain, LayerGone, LayerLife
<1> QED
  BY <1>2, <1>3, <1>4 DEF LayerInv

LEMMA LayerCommitsQueued ==
  ASSUME LayerInv, NEW a \in Attaches, layer_surface_commit(a)
  PROVE  LayerInv'
<1> DEFINE b == IF a = "keep" THEN layer.pbuf ELSE a = "buffer"
           c == [attach |-> a, state |-> layer.pending]
           p == [layer.pending EXCEPT !.committed = {}]
           q == Append(layer.queue, c)
           n == Len(layer.queue)
<1>0. LayerTypeOK
  BY DEF LayerInv
<1>a. b \in BOOLEAN /\ layer.pending \in LayerStates
  BY <1>0 DEF LayerTypeOK, LayerShape
<1>b. c \in LayerCommits /\ c.state = layer.pending
  BY <1>a DEF LayerCommits
<1>c. /\ p \in LayerStates /\ p.serial = layer.pending.serial /\ p.actual = layer.pending.actual
      /\ p.fields = layer.pending.fields
  BY <1>a DEF LayerStates
<1>d. Flagged(layer.pending, p)
  BY <1>c DEF Flagged
<1>1. /\ layer' = [layer EXCEPT !.pbuf = b, !.pending = p, !.queue = q]
      /\ layer.obj => ValidFields(layer.pending.fields)
  BY <1>0 DEF layer_surface_commit, LayerTypeOK, LayerShape, LayerStates
<1> HIDE DEF b, c, p
<1>e. n \in Nat /\ layer.queue \in Seq(LayerCommits) /\ (layer.queue = <<>> <=> n = 0)
  BY <1>0, LayerTyped, EmptySeq
<1>f. /\ q \in Seq(LayerCommits) /\ Len(q) = n + 1 /\ q # <<>>
      /\ \A i \in 1..n : q[i] = layer.queue[i]
      /\ q[n + 1] = c
  BY <1>b, <1>e, AppendElements
<1>g. RulesKept(layer.pending) /\ (~layer.obj => p = LayerUnset /\ layer.pending = LayerUnset)
  <2>1. CASE layer.obj
    BY <1>1, <2>1 DEF RulesKept
  <2>2. CASE ~layer.obj
    <3>1. layer.pending = LayerUnset
      BY <2>2 DEF LayerInv, LayerGone
    <3>2. p = LayerUnset
      BY <3>1, UnsetType DEF p, LayerUnset, LayerState
    <3> QED
      BY <2>2, <3>1, <3>2, UnsetFacts
  <2> QED
    BY <2>1, <2>2
<1> HIDE DEF q
<1>2. LayerTypeOK'
  BY <1>0, <1>1, <1>a, <1>c, <1>f DEF LayerTypeOK, LayerShape
<1>h. layer'.pending = p /\ layer'.queue = q /\ layer'.current = layer.current
      /\ layer'.sent = layer.sent /\ layer'.confs = layer.confs /\ layer'.obj = layer.obj
      /\ layer'.mapped = layer.mapped /\ layer'.init = layer.init /\ layer'.buf = layer.buf
      /\ layer'.popup = layer.popup
  BY <1>0, <1>1 DEF LayerTypeOK, LayerShape
<1> HIDE DEF n
<1>i. \A i \in 1..(n + 1) : \/ i \in 1..n /\ q[i] = layer.queue[i]
                            \/ i = n + 1 /\ q[i] = c
  BY <1>e, <1>f
<1>3. LayerSizesAgree'
  <2>1. ToldBy(layer.sent, p) /\ ToldBy(layer.sent, c.state)
    BY <1>b, <1>c DEF ToldBy, LayerInv, LayerSizesAgree
  <2>2. \A i \in 1..Len(q) : ToldBy(layer.sent, q[i].state)
    BY <1>f, <1>i, <2>1 DEF LayerInv, LayerSizesAgree, n
  <2> QED
    BY <1>h, <2>1, <2>2 DEF LayerInv, LayerSizesAgree
<1>4. LayerRules'
  <2>1. \A i \in 1..Len(q) : RulesKept(q[i].state)
    BY <1>f, <1>i, <1>b, <1>g DEF LayerInv, LayerRules, n
  <2> QED
    BY <1>h, <2>1 DEF LayerInv, LayerRules
<1>5. LayerChain'
  <2>1. Flagged(q[Len(q)].state, p)
    BY <1>b, <1>d, <1>f
  <2>2. CASE n = 0
    <3>1. Flagged(layer.current, q[1].state)
      BY <1>e, <1>f, <1>b, <2>2 DEF LayerInv, LayerChain
    <3> QED
      BY <1>h, <1>f, <2>1, <2>2, <3>1 DEF LayerChain
  <2>3. CASE n > 0
    <3>1. Flagged(layer.current, q[1].state)
      BY <1>e, <1>f, <2>3 DEF LayerInv, LayerChain
    <3>2. \A i \in 1..Len(q) : i > 1 => Flagged(q[i - 1].state, q[i].state)
      <4> SUFFICES ASSUME NEW i \in 1..(n + 1), i > 1
                   PROVE  Flagged(q[i - 1].state, q[i].state)
        BY <1>f
      <4>1. CASE i = n + 1
        BY <1>e, <1>f, <1>b, <2>3, <4>1 DEF LayerInv, LayerChain, n
      <4>2. CASE i \in 1..n
        <5>1. i - 1 \in 1..n
          BY <1>e, <4>2
        <5> QED
          BY <1>f, <4>2, <5>1 DEF LayerInv, LayerChain, n
      <4> QED
        BY <1>i, <4>1, <4>2
    <3> QED
      BY <1>h, <1>f, <2>1, <3>1, <3>2 DEF LayerChain
  <2> QED
    BY <1>e, <2>2, <2>3
<1>6. LayerGone'
  <2>1. ~layer.obj => \A i \in 1..Len(q) : q[i].state = LayerUnset
    BY <1>f, <1>i, <1>b, <1>g DEF LayerInv, LayerGone, n
  <2> QED
    BY <1>h, <1>g, <2>1 DEF LayerInv, LayerGone
<1>7. LayerLife'
  BY <1>h DEF LayerInv, LayerLife
<1> QED
  BY <1>2, <1>3, <1>4, <1>5, <1>6, <1>7 DEF LayerInv

LEMMA LayerConfigured ==
  ASSUME LayerInv, NEW size \in LayerSizes, wlr_layer_surface_v1_configure(size)
  PROVE  LayerInv'
<1> DEFINE n == Len(layer.sent)
           m == Len(layer.confs)
           e == [serial |-> n + 1, size |-> size]
           s == Append(layer.sent, size)
           c == Append(layer.confs, e)
<1>0. LayerTypeOK /\ size \in Nat
  BY LayerAssumption DEF LayerInv
<1>1. layer' = [layer EXCEPT !.sent = s, !.confs = c] /\ layer.obj /\ layer.init
  BY DEF wlr_layer_surface_v1_configure
<1>a. n \in Nat /\ m \in Nat /\ layer.sent \in Seq(Nat) /\ layer.confs \in Seq(LayerConfigures)
  BY <1>0, LayerTyped
<1>b. e \in LayerConfigures /\ e.serial = n + 1 /\ e.size = size
  BY <1>0, <1>a DEF LayerConfigures
<1> HIDE DEF e
<1>c. /\ s \in Seq(Nat) /\ Len(s) = n + 1 /\ \A i \in 1..n : s[i] = layer.sent[i]
      /\ s[n + 1] = size
  BY <1>0, <1>a, AppendElements
<1>d. /\ c \in Seq(LayerConfigures) /\ Len(c) = m + 1 /\ \A i \in 1..m : c[i] = layer.confs[i]
      /\ c[m + 1] = e
  BY <1>b, <1>a, AppendElements
<1> HIDE DEF s, c
<1>e. \A t \in LayerStates : ToldBy(layer.sent, t) => ToldBy(s, t)
  BY <1>a, <1>c, SMTT(30) DEF ToldBy, LayerStates
<1>2. LayerTypeOK'
  BY <1>0, <1>1, <1>c, <1>d DEF LayerTypeOK, LayerShape
<1>3. LayerSizesAgree'
  <2>1. /\ layer.pending \in LayerStates /\ layer.current \in LayerStates
        /\ \A i \in 1..Len(layer.queue) : layer.queue[i].state \in LayerStates
    BY <1>0, LayerTyped DEF LayerTypeOK, LayerShape
  <2>2. /\ ToldBy(s, layer.pending) /\ ToldBy(s, layer.current)
        /\ \A i \in 1..Len(layer.queue) : ToldBy(s, layer.queue[i].state)
    BY <1>e, <2>1 DEF LayerInv, LayerSizesAgree
  <2>3. \A i \in 1..Len(c) : c[i].serial \in 1..Len(s) /\ c[i].size = s[c[i].serial]
    <3> SUFFICES ASSUME NEW i \in 1..(m + 1)
                 PROVE  c[i].serial \in 1..Len(s) /\ c[i].size = s[c[i].serial]
      BY <1>d
    <3>1. CASE i = m + 1
      BY <1>a, <1>b, <1>c, <1>d, <3>1
    <3>2. CASE i \in 1..m
      <4>1. c[i].serial \in 1..n /\ c[i].size = layer.sent[c[i].serial]
        BY <1>d, <3>2, SMTT(30) DEF LayerInv, LayerSizesAgree
      <4> DEFINE k == c[i].serial
      <4>2. k \in 1..n /\ c[i].size = layer.sent[k]
        BY <4>1
      <4> HIDE DEF k
      <4>3. s[k] = layer.sent[k] /\ k \in 1..Len(s)
        BY <1>a, <1>c, <4>2, SMTT(30)
      <4> QED
        BY <4>2, <4>3 DEF k
    <3> QED
      BY <1>a, <3>1, <3>2
  <2>4. /\ layer'.pending = layer.pending /\ layer'.current = layer.current
        /\ layer'.queue = layer.queue /\ layer'.sent = s /\ layer'.confs = c
    BY <1>0, <1>1 DEF LayerTypeOK, LayerShape
  <2> QED
    BY <2>2, <2>3, <2>4 DEF LayerSizesAgree
<1>4. LayerRules' /\ LayerChain' /\ LayerGone' /\ LayerLife'
  BY <1>0, <1>1 DEF LayerInv, LayerTypeOK, LayerShape, LayerRules, LayerChain, LayerGone, LayerLife
<1> QED
  BY <1>2, <1>3, <1>4 DEF LayerInv

(* What a reset leaves: the life of the layer surface starts again.        *)
LEMMA LayerDestroyed ==
  ASSUME LayerInv, layer.obj
  PROVE  LET d == layer_surface_destroy(layer) IN
         /\ ~d.obj /\ ~d.init /\ ~d.conf /\ ~d.mapped
         /\ d.pending = LayerUnset /\ d.current = LayerUnset
         /\ d.confs = <<>> /\ d.sent = <<>> /\ d.popup \in {"none", "orphan"}
         /\ d.queue \in Seq(LayerCommits) /\ \A i \in 1..Len(d.queue) : d.queue[i].state = LayerUnset
         /\ d.alive = layer.alive /\ d.buf = layer.buf /\ d.pbuf = layer.pbuf
         /\ d \in LayerShape
<1> DEFINE n == Len(layer.queue)
           q == [i \in DOMAIN layer.queue |-> [layer.queue[i] EXCEPT !.state = LayerUnset]]
           u == IF layer.popup = "child" THEN "none" ELSE layer.popup
           d == [layer EXCEPT !.mapped = FALSE, !.conf = FALSE, !.init = FALSE, !.confs = <<>>,
                   !.popup = u, !.obj = FALSE, !.pending = LayerUnset, !.current = LayerUnset,
                   !.sent = <<>>, !.queue = q]
<1>0. LayerTypeOK
  BY DEF LayerInv
<1>1. layer_surface_destroy(layer) = d
  BY <1>0 DEF layer_surface_destroy, layer_surface_reset, LayerTypeOK, LayerShape
<1>2. n \in Nat /\ DOMAIN layer.queue = 1..n /\ \A i \in 1..n : layer.queue[i] \in LayerCommits
  BY <1>0, LayerTyped, SeqElements
<1>3. \A i \in 1..n : q[i] \in LayerCommits /\ q[i].state = LayerUnset
  BY <1>2, UnsetType DEF LayerCommits
<1>4. q \in [1..n -> LayerCommits]
  BY <1>2, <1>3
<1>5. q \in Seq(LayerCommits) /\ Len(q) = n
  BY <1>2, <1>4, FunctionIsSeq
<1>6. u \in {"none", "orphan"}
  BY <1>0 DEF LayerTypeOK, LayerShape
<1>7. \A i \in 1..Len(q) : q[i].state = LayerUnset
  BY <1>3, <1>5
<1>8. <<>> \in Seq(LayerConfigures) /\ <<>> \in Seq(Nat)
  OBVIOUS
<1> HIDE DEF q, u
<1>9. d \in LayerShape
  BY <1>0, <1>5, <1>6, <1>8, UnsetType DEF LayerTypeOK, LayerShape
<1>10. /\ ~d.obj /\ ~d.init /\ ~d.conf /\ ~d.mapped
       /\ d.pending = LayerUnset /\ d.current = LayerUnset
       /\ d.confs = <<>> /\ d.sent = <<>> /\ d.popup = u /\ d.queue = q
       /\ d.alive = layer.alive /\ d.buf = layer.buf /\ d.pbuf = layer.pbuf
  BY <1>0 DEF LayerTypeOK, LayerShape
<1> HIDE DEF d
<1> QED
  BY <1>1, <1>5, <1>6, <1>7, <1>9, <1>10

LEMMA LayerDestroys ==
  ASSUME LayerInv, wlr_layer_surface_v1_destroy \/ layer_surface_role_destroy
  PROVE  LayerInv'
<1>0. LayerTypeOK
  BY DEF LayerInv
<1> DEFINE d == IF layer.obj THEN layer_surface_destroy(layer) ELSE layer
<1>1. /\ ~d.obj /\ ~d.init /\ ~d.mapped
      /\ d.pending = LayerUnset /\ d.current = LayerUnset
      /\ d.confs = <<>> /\ d.popup # "child"
      /\ \A i \in 1..Len(d.queue) : d.queue[i].state = LayerUnset
  <2>1. CASE layer.obj
    BY <2>1, LayerDestroyed
  <2>2. CASE ~layer.obj
    BY <2>2 DEF LayerInv, LayerGone
  <2> QED
    BY <2>1, <2>2
<1>2. d \in LayerShape
  <2>1. CASE layer.obj
    BY <2>1, LayerDestroyed
  <2>2. CASE ~layer.obj
    BY <1>0, <2>2 DEF LayerTypeOK, LayerShape
  <2> QED
    BY <2>1, <2>2
<1>3. \/ layer' = d
      \/ layer' = [d EXCEPT !.alive = FALSE, !.queue = <<>>, !.buf = FALSE, !.pbuf = FALSE]
  BY DEF wlr_layer_surface_v1_destroy, layer_surface_role_destroy
<1> HIDE DEF d
<1> DEFINE e == [d EXCEPT !.alive = FALSE, !.queue = <<>>, !.buf = FALSE, !.pbuf = FALSE]
<1>a. e \in LayerShape
  <2>1. <<>> \in Seq(LayerCommits)
    OBVIOUS
  <2> QED
    BY <1>2, <2>1 DEF LayerShape
<1>b. /\ ~e.obj /\ ~e.init /\ ~e.mapped
      /\ e.pending = LayerUnset /\ e.current = LayerUnset
      /\ e.confs = <<>> /\ e.popup # "child" /\ e.queue = <<>>
  BY <1>1, <1>2 DEF LayerShape
<1>c. layer' = d \/ layer' = e
  BY <1>3
<1> HIDE DEF e
<1>4. LayerTypeOK'
  BY <1>2, <1>a, <1>c DEF LayerTypeOK
<1>5. /\ ~layer'.obj /\ ~layer'.init /\ ~layer'.mapped
      /\ layer'.pending = LayerUnset /\ layer'.current = LayerUnset
      /\ layer'.confs = <<>> /\ layer'.popup # "child"
      /\ \A i \in 1..Len(layer'.queue) : layer'.queue[i].state = LayerUnset
  <2>1. CASE layer' = d
    BY <1>1, <2>1
  <2>2. CASE layer' = e
    <3>1. \A i \in 1..Len(e.queue) : e.queue[i].state = LayerUnset
      BY <1>b
    <3> QED
      BY <1>b, <2>2, <3>1
  <2> QED
    BY <1>c, <2>1, <2>2
<1>6. LayerSizesAgree' /\ LayerRules'
  BY <1>5, UnsetFacts DEF LayerSizesAgree, LayerRules
<1>7. LayerChain'
  <2>1. Len(layer'.queue) \in Nat /\ (layer'.queue # <<>> => Len(layer'.queue) > 0)
    <3>1. layer'.queue \in Seq(LayerCommits)
      BY <1>4 DEF LayerTypeOK, LayerShape
    <3> QED
      BY <3>1, SeqElements
  <2>2. \A i \in 1..Len(layer'.queue) : i > 1 => i - 1 \in 1..Len(layer'.queue)
    BY <2>1
  <2> QED
    BY <1>5, <2>1, <2>2, UnsetFacts DEF LayerChain
<1>8. LayerGone' /\ LayerLife'
  BY <1>5 DEF LayerGone, LayerLife
<1> QED
  BY <1>4, <1>6, <1>7, <1>8 DEF LayerInv

LEMMA LayerApplies ==
  ASSUME LayerInv, layer_surface_role_commit
  PROVE  /\ LayerInv'
         /\ layer.obj => Flagged(layer.current, layer'.current)
<1> DEFINE c == Head(layer.queue)
           has == IF c.attach = "keep" THEN layer.buf ELSE c.attach = "buffer"
           unmap == layer.mapped /\ c.attach = "null"
           t == Tail(layer.queue)
           n == Len(layer.queue)
           u == IF layer.popup = "child" THEN "none" ELSE layer.popup
<1>0. LayerTypeOK
  BY DEF LayerInv
<1>a. layer.queue # <<>> /\ layer.queue \in Seq(LayerCommits) /\ n \in Nat /\ n > 0
  BY <1>0, LayerTyped DEF layer_surface_role_commit
<1>b. /\ c = layer.queue[1] /\ c \in LayerCommits /\ c.state \in LayerStates
      /\ t \in Seq(LayerCommits) /\ Len(t) = n - 1
      /\ \A i \in 1..Len(t) : t[i] = layer.queue[i + 1] /\ i + 1 \in 1..n
  <2> HIDE DEF n
  <2>1. \A e \in LayerCommits : e.state \in LayerStates
    BY DEF LayerCommits
  <2> QED
    BY <1>a, TailElements, <2>1 DEF n
<1>c. has \in BOOLEAN /\ u \in {"none", "orphan"}
  BY <1>0 DEF LayerTypeOK, LayerShape
<1>1. \/ ~layer.obj /\ layer' = [layer EXCEPT !.queue = t, !.buf = has]
      \/ /\ layer.obj
         /\ layer' = [layer EXCEPT !.queue = t, !.buf = has, !.current = c.state, !.mapped = has,
                                   !.conf = FALSE, !.init = FALSE, !.confs = <<>>, !.popup = u]
      \/ /\ layer.obj
         /\ layer' = [layer EXCEPT !.queue = t, !.buf = has, !.current = c.state, !.mapped = has,
                                   !.init = TRUE]
  BY <1>0, ZenonT(60) DEF layer_surface_role_commit, layer_surface_reset, LayerTypeOK, LayerShape
<1>d. /\ Flagged(layer.current, c.state)
      /\ ToldBy(layer.sent, c.state) /\ RulesKept(c.state)
      /\ ~layer.obj => c.state = LayerUnset /\ layer.current = LayerUnset
  BY <1>a, <1>b DEF LayerInv, LayerChain, LayerSizesAgree, LayerRules, LayerGone
<1> HIDE DEF c, has, t, u
<1>2. LayerTypeOK'
  <2>0. <<>> \in Seq(LayerConfigures)
    OBVIOUS
  <2> USE <1>0, <1>b, <1>c, <2>0 DEF LayerTypeOK, LayerShape
  <2>1. [layer EXCEPT !.queue = t, !.buf = has] \in LayerShape
    OBVIOUS
  <2>2. [layer EXCEPT !.queue = t, !.buf = has, !.current = c.state, !.mapped = has,
                      !.init = TRUE] \in LayerShape
    OBVIOUS
  <2>3. [layer EXCEPT !.queue = t, !.buf = has, !.current = c.state, !.mapped = has, !.conf = FALSE,
                      !.init = FALSE, !.confs = <<>>, !.popup = u] \in LayerShape
    OBVIOUS
  <2> QED
    BY <1>1, <2>1, <2>2, <2>3
<1>3. /\ layer'.queue = t /\ layer'.pending = layer.pending /\ layer'.sent = layer.sent
      /\ layer'.obj = layer.obj /\ layer'.current = c.state
      /\ layer'.confs = layer.confs \/ layer'.confs = <<>>
  <2>1. CASE layer.obj
    BY <1>0, <1>1, <2>1 DEF LayerTypeOK, LayerShape
  <2>2. CASE ~layer.obj
    BY <1>0, <1>1, <1>d, <2>2 DEF LayerTypeOK, LayerShape
  <2> QED
    BY <2>1, <2>2
<1> HIDE DEF n
<1>4. LayerSizesAgree' /\ LayerRules'
  <2>1. \A i \in 1..Len(t) : ToldBy(layer.sent, t[i].state) /\ RulesKept(t[i].state)
    BY <1>b DEF LayerInv, LayerSizesAgree, LayerRules, n
  <2> QED
    BY <1>3, <1>d, <2>1 DEF LayerInv, LayerSizesAgree, LayerRules
<1>5. LayerChain'
  <2>1. \A i \in 1..n : i > 1 => Flagged(layer.queue[i - 1].state, layer.queue[i].state)
    BY DEF LayerInv, LayerChain, n
  <2>2. Flagged(layer.queue[n].state, layer.pending)
    BY <1>a DEF LayerInv, LayerChain, n
  <2>3. CASE n = 1
    <3>1. t = <<>> /\ Len(t) = 0
      BY <1>b, <2>3, EmptySeq
    <3> QED
      BY <1>3, <1>b, <2>2, <2>3, <3>1 DEF LayerChain
  <2>4. CASE n > 1
    <3>1. t # <<>> /\ t[1] = layer.queue[2] /\ t[Len(t)] = layer.queue[n]
      BY <1>a, <1>b, <2>4
    <3>2. Flagged(c.state, t[1].state)
      BY <1>a, <1>b, <2>1, <2>4, <3>1
    <3>3. \A i \in 1..Len(t) : i > 1 => Flagged(t[i - 1].state, t[i].state)
      <4> SUFFICES ASSUME NEW i \in 1..Len(t), i > 1
                   PROVE  Flagged(t[i - 1].state, t[i].state)
        OBVIOUS
      <4>1. t[i] = layer.queue[i + 1] /\ t[i - 1] = layer.queue[i] /\ i + 1 \in 1..n
        BY <1>a, <1>b
      <4>2. (i + 1) - 1 = i /\ i + 1 > 1
        BY <1>a
      <4> QED
        BY <2>1, <4>1, <4>2
    <3> QED
      BY <1>3, <2>2, <3>1, <3>2, <3>3 DEF LayerChain
  <2> QED
    BY <1>a, <2>3, <2>4
<1>6. LayerGone'
  <2>1. CASE layer.obj
    BY <1>3, <2>1 DEF LayerGone
  <2>2. CASE ~layer.obj
    <3>1. \A i \in 1..Len(t) : t[i].state = LayerUnset
      BY <1>b, <2>2 DEF LayerInv, LayerGone, n
    <3>2. /\ layer'.init = layer.init /\ layer'.mapped = layer.mapped
          /\ layer'.popup = layer.popup /\ layer'.confs = layer.confs
      BY <1>0, <1>1, <2>2 DEF LayerTypeOK, LayerShape
    <3> QED
      BY <1>3, <1>d, <2>2, <3>1, <3>2 DEF LayerInv, LayerGone
  <2> QED
    BY <2>1, <2>2
<1>7. LayerLife'
  <2>1. CASE layer.obj
    BY <1>0, <1>1, <2>1 DEF LayerTypeOK, LayerShape, LayerLife
  <2>2. CASE ~layer.obj
    BY <1>0, <1>1, <2>2 DEF LayerTypeOK, LayerShape, LayerLife, LayerInv, LayerGone
  <2> QED
    BY <2>1, <2>2
<1> QED
  BY <1>2, <1>3, <1>4, <1>5, <1>6, <1>7, <1>d DEF LayerInv

LEMMA LayerKept == ASSUME LayerInv, [LayerNext]_layer PROVE LayerInv'
<1>1. CASE UNCHANGED layer
  BY <1>1 DEF LayerInv, LayerTypeOK, LayerSizesAgree, LayerRules, LayerChain, LayerGone, LayerLife
<1>2. CASE layer_shell_handle_get_layer_surface
  BY <1>2, LayerGets
<1>3. CASE \E f \in LayerFields, v \in {0, 1} : layer_surface_handle_set(f, v)
  BY <1>3, LayerSets
<1>4. CASE \E i \in 1..MaxLayerSerial : layer_surface_handle_ack_configure(i)
  BY <1>4, LayerAcks
<1>5. CASE layer_surface_handle_get_popup \/ create_popup \/ close_popup
  BY <1>5, LayerPopups
<1>6. CASE \E a \in {"keep", "buffer", "null"} : layer_surface_commit(a)
  BY <1>6, LayerCommitsQueued DEF Attaches
<1>7. CASE layer_surface_role_commit
  BY <1>7, LayerApplies
<1>8. CASE \E size \in LayerSizes : wlr_layer_surface_v1_configure(size)
  BY <1>8, LayerConfigured
<1>9. CASE wlr_layer_surface_v1_destroy \/ layer_surface_role_destroy
  BY <1>9, LayerDestroys
<1> QED
  BY <1>1, <1>2, <1>3, <1>4, <1>5, <1>6, <1>7, <1>8, <1>9 DEF LayerNext

LEMMA LayerAgreement == ASSUME LayerInv PROVE LayerStateAgreed
<1>1. layer.current.serial > 0 => /\ ValidFields(layer.current.fields)
                                  /\ layer.current.actual = layer.sent[layer.current.serial]
  BY DEF LayerInv, LayerSizesAgree, LayerRules, ToldBy, RulesKept
<1>2. (layer.popup = "child" => layer.obj) /\ (layer.mapped => layer.obj /\ layer.buf)
  BY DEF LayerInv, LayerGone, LayerLife
<1>3. layer.confs # <<>> => layer.init
  BY DEF LayerInv, LayerLife
<1> QED
  BY <1>1, <1>2, <1>3 DEF LayerStateAgreed

(* A step changes the current state by applying a commit only. *)
LayerStepFlagged == layer.obj /\ layer'.obj => Flagged(layer.current, layer'.current)

LEMMA LayerFlags == ASSUME LayerInv, [LayerNext]_layer PROVE LayerStepFlagged
<1>0. layer \in LayerShape
  BY DEF LayerInv, LayerTypeOK
<1>1. CASE layer_surface_role_commit
  BY <1>1, LayerApplies DEF LayerStepFlagged
<1>2. CASE wlr_layer_surface_v1_destroy \/ layer_surface_role_destroy
  <2>1. LayerInv'
    BY <1>2, LayerDestroys
  <2>2. layer.obj => ~layer'.obj
    <3> SUFFICES ASSUME layer.obj PROVE ~layer'.obj
      OBVIOUS
    <3> DEFINE d == layer_surface_destroy(layer)
    <3>1. ~d.obj /\ d \in LayerShape
      BY LayerDestroyed
    <3>2. \/ layer' = d
          \/ layer' = [d EXCEPT !.alive = FALSE, !.queue = <<>>, !.buf = FALSE, !.pbuf = FALSE]
      BY <1>2 DEF wlr_layer_surface_v1_destroy, layer_surface_role_destroy
    <3> HIDE DEF d
    <3> QED
      BY <3>1, <3>2 DEF LayerShape
  <2> QED
    BY <2>2 DEF LayerStepFlagged
<1>3. ASSUME layer'.current = layer.current PROVE LayerStepFlagged
  BY <1>3 DEF LayerStepFlagged, Flagged
<1>4. CASE UNCHANGED layer \/ layer_shell_handle_get_layer_surface
           \/ layer_surface_handle_get_popup \/ create_popup \/ close_popup
  <2>1. layer'.current = layer.current
    BY <1>0, <1>4 DEF layer_shell_handle_get_layer_surface, layer_surface_handle_get_popup,
                      create_popup, close_popup, LayerShape
  <2> QED
    BY <1>3, <2>1
<1>5. CASE \E f \in LayerFields, v \in {0, 1} : layer_surface_handle_set(f, v)
  <2>1. layer'.current = layer.current
    BY <1>0, <1>5 DEF layer_surface_handle_set, LayerShape
  <2> QED
    BY <1>3, <2>1
<1>6. CASE \E i \in 1..MaxLayerSerial : layer_surface_handle_ack_configure(i)
  <2>1. layer'.current = layer.current
    BY <1>0, <1>6 DEF layer_surface_handle_ack_configure, LayerShape
  <2> QED
    BY <1>3, <2>1
<1>7. CASE \/ \E a \in {"keep", "buffer", "null"} : layer_surface_commit(a)
           \/ \E size \in LayerSizes : wlr_layer_surface_v1_configure(size)
  <2>1. layer'.current = layer.current
    BY <1>0, <1>7 DEF layer_surface_commit, wlr_layer_surface_v1_configure, LayerShape
  <2> QED
    BY <1>3, <2>1
<1> QED
  BY <1>1, <1>2, <1>4, <1>5, <1>6, <1>7 DEF LayerNext

(* Layer surfaces (wlr_layer_shell_v1.c): with any number of configures in  *)
(* flight and commits waiting, a surface that is acknowledged, unmapped,    *)
(* destroyed and created again in any order has the size of the configure   *)
(* its state names and a state that satisfies the protocol's rules, and is  *)
(* mapped only after an acknowledged configure.                             *)
THEOREM LayerSurfacesAgree == LayerSpec => [](LayerTypeOK /\ LayerStateAgreed)
<1>1. LayerInit => LayerInv
  BY LayerStarts
<1>2. LayerInv /\ [LayerNext]_layer => LayerInv'
  BY LayerKept
<1>3. LayerInv => LayerTypeOK /\ LayerStateAgreed
  BY LayerAgreement DEF LayerInv
<1> QED
  BY <1>1, <1>2, <1>3, PTL DEF LayerSpec

(* A field of a layer surface's state never changes without its flag in     *)
(* committed (layer_surface_role_client_commit and the set requests of      *)
(* wlr_layer_shell_v1.c), which is all a compositor looks at to lay out     *)
(* again.                                                                   *)
THEOREM LayerFlagsComplete == LayerSpec => LayerChangesFlagged
<1>1. LayerInit => LayerInv
  BY LayerStarts
<1>2. LayerInv /\ [LayerNext]_layer => LayerInv'
  BY LayerKept
<1>3. LayerInv /\ [LayerNext]_layer =>
        [layer.obj /\ layer'.obj =>
           \A f \in LayerFields : layer'.current.fields[f] # layer.current.fields[f]
                               => f \in layer'.current.committed]_layer
  BY LayerFlags DEF LayerStepFlagged, Flagged
<1> QED
  BY <1>1, <1>2, <1>3, PTL DEF LayerSpec, LayerChangesFlagged

-----------------------------------------------------------------------------
(***************************************************************************)
(* Session locks.                                                          *)
(***************************************************************************)

-----------------------------------------------------------------------------
(* The session lock. *)
LockConfigures == [serial : Nat, size : Nat]
LockWaiting == [size : Nat, state : LockConfigures]
LockRoles ==
  [lock : LockId \cup {NoLock}, output : LockOutput \cup {NoLock}, conf : BOOLEAN,
   confs : Seq(LockConfigures), pending : LockConfigures, current : LockConfigures,
   waiting : Seq(LockWaiting), buf : Nat, mapped : BOOLEAN]

(* The shape of the state. *)
LockTypeOK ==
  lock \in [res : SUBSET LockId, obj : SUBSET LockId, locked : SUBSET LockId,
            outs : SUBSET LockOutput, surf : [LockSurface -> LockRoles], sent : Seq(Nat),
            aborted : BOOLEAN]

(* A configure that was sent, and what follows from it along the way of a   *)
(* surface: acknowledged, committed, shown.  A commit without a serial was  *)
(* made without the role; a surface without it has no other.                *)
WasSent(told, c) == c.serial \in 1..Len(told) /\ c.size = told[c.serial]
Checked(told, w) == w.state.serial > 0 => WasSent(told, w.state) /\ w.size = w.state.size /\ w.size > 0
Unroled(r) ==
  /\ r.pending.serial = 0 /\ r.current.serial = 0 /\ ~r.mapped
  /\ \A i \in 1..Len(r.waiting) : r.waiting[i].state.serial = 0
RoleSound(told, r) ==
  /\ \A i \in 1..Len(r.confs) : WasSent(told, r.confs[i])
  /\ r.conf => WasSent(told, r.pending)
  /\ \A i \in 1..Len(r.waiting) : Checked(told, r.waiting[i])
  /\ r.current.serial > 0 => WasSent(told, r.current) /\ r.buf = r.current.size /\ r.mapped
  /\ r.lock = NoLock => Unroled(r)

(* A surface of a lock belongs to one that is not inert and to an output    *)
(* that exists.                                                             *)
RoleOwned(obj, outs, r) == r.lock # NoLock => r.lock \in obj /\ r.output \in outs

LockSound == \A s \in LockSurface : RoleSound(lock.sent, lock.surf[s])
LockOwned == \A s \in LockSurface : RoleOwned(lock.obj, lock.outs, lock.surf[s])
LockAlone ==
  \A s, t \in LockSurface :
    s # t /\ lock.surf[s].lock # NoLock /\ lock.surf[t].lock = lock.surf[s].lock
      => lock.surf[t].output # lock.surf[s].output

LockInv == LockTypeOK /\ LockSound /\ LockOwned /\ LockAlone
-----------------------------------------------------------------------

LEMMA NoStateType == NoState \in LockConfigures /\ NoState.serial = 0
BY DEF NoState, LockConfigures

LEMMA NoRoleType ==
  /\ NoRole \in LockRoles /\ NoRole.lock = NoLock /\ NoRole.output = NoLock
  /\ NoRole.confs = <<>> /\ NoRole.waiting = <<>> /\ NoRole.conf = FALSE /\ NoRole.buf = 0
  /\ NoRole.pending.serial = 0 /\ NoRole.current.serial = 0 /\ NoRole.mapped = FALSE
<1>2. <<>> \in Seq(LockConfigures) /\ <<>> \in Seq(LockWaiting)
  OBVIOUS
<1> QED
  BY NoStateType, <1>2 DEF NoRole, LockRoles

LEMMA NoRoleSound ==
  /\ \A told : RoleSound(told, NoRole)
  /\ \A obj, outs : RoleOwned(obj, outs, NoRole)
BY NoRoleType DEF RoleSound, RoleOwned, Unroled

(* The commits that wait when the role goes. *)
LEMMA BuffersKept ==
  ASSUME NEW w \in Seq(LockWaiting)
  PROVE  /\ KeepBuffers(w) \in Seq(LockWaiting) /\ Len(KeepBuffers(w)) = Len(w)
         /\ \A i \in 1..Len(w) : KeepBuffers(w)[i].state = NoState
<1> DEFINE e(i) == [size |-> w[i].size, state |-> NoState]
           n == Len(w)
<1>1. n \in Nat /\ \A i \in 1..n : w[i] \in LockWaiting
  BY LenProperties, ElementOfSeq
<1>2. \A i \in 1..n : e(i) \in LockWaiting /\ e(i).state = NoState
  BY <1>1, NoStateType DEF LockWaiting
<1>3. KeepBuffers(w) = [i \in 1..n |-> e(i)]
  BY DEF KeepBuffers
<1> HIDE DEF e, n
<1>4. [i \in 1..n |-> e(i)] \in Seq(LockWaiting) /\ Len([i \in 1..n |-> e(i)]) = n
  BY <1>1, <1>2, IsASeq
<1> QED
  BY <1>2, <1>3, <1>4 DEF n

(* A surface that lost its role. *)
LEMMA RoleLost ==
  ASSUME NEW r \in LockRoles
  PROVE  LET n == lock_surface_destroy(r) IN
         /\ n \in LockRoles /\ n.lock = NoLock
         /\ \A told : RoleSound(told, n)
         /\ \A obj, outs : RoleOwned(obj, outs, n)
<1> DEFINE w == KeepBuffers(r.waiting)
           b == r.buf
           n == [NoRole EXCEPT !.waiting = w, !.buf = b]
<1>1. lock_surface_destroy(r) = n
  BY DEF lock_surface_destroy
<1>2. /\ w \in Seq(LockWaiting) /\ b \in Nat
      /\ \A i \in 1..Len(w) : w[i].state.serial = 0
  BY BuffersKept, NoStateType DEF LockRoles
<1> HIDE DEF w, b
<1>3. /\ n \in LockRoles /\ n.lock = NoLock /\ n.confs = <<>> /\ n.conf = FALSE /\ n.waiting = w
      /\ n.pending.serial = 0 /\ n.current.serial = 0 /\ n.mapped = FALSE
  BY <1>2, NoRoleType DEF LockRoles
<1> HIDE DEF n
<1>4. \A told : \A i \in 1..Len(w) : Checked(told, w[i])
  BY <1>2 DEF Checked
<1>5. Unroled(n)
  BY <1>2, <1>3 DEF Unroled
<1>6. ASSUME NEW told PROVE RoleSound(told, n)
  <2>1. \A i \in 1..Len(n.waiting) : Checked(told, n.waiting[i])
    BY <1>3, <1>4
  <2>2. \A i \in 1..Len(n.confs) : WasSent(told, n.confs[i])
    BY <1>3
  <2> QED
    BY <1>3, <1>5, <2>1, <2>2 DEF RoleSound
<1>7. \A obj, outs : RoleOwned(obj, outs, n)
  BY <1>3 DEF RoleOwned
<1> QED
  BY <1>1, <1>3, <1>6, <1>7

LEMMA LockTyped ==
  ASSUME LockTypeOK
  PROVE  /\ lock.sent \in Seq(Nat) /\ Len(lock.sent) \in Nat
         /\ lock.surf \in [LockSurface -> LockRoles]
         /\ \A s \in LockSurface : /\ lock.surf[s] \in LockRoles
                                   /\ lock.surf[s].confs \in Seq(LockConfigures)
                                   /\ lock.surf[s].waiting \in Seq(LockWaiting)
<1>1. lock.sent \in Seq(Nat) /\ lock.surf \in [LockSurface -> LockRoles]
  BY DEF LockTypeOK
<1>2. \A s \in LockSurface : lock.surf[s] \in LockRoles
  BY <1>1
<1>3. \A r \in LockRoles : r.confs \in Seq(LockConfigures) /\ r.waiting \in Seq(LockWaiting)
  BY DEF LockRoles
<1> QED
  BY <1>1, <1>2, <1>3, LenProperties

LEMMA LockStarts == LockInit => LockInv
<1> SUFFICES ASSUME LockInit PROVE LockInv
  OBVIOUS
<1>1. LockTypeOK
  BY NoRoleType DEF LockInit, LockTypeOK
<1>2. \A s \in LockSurface : lock.surf[s] = NoRole
  BY DEF LockInit
<1>3. LockSound /\ LockOwned
  BY <1>2, NoRoleSound DEF LockSound, LockOwned
<1>4. LockAlone
  BY <1>2, NoRoleType DEF LockAlone
<1> QED
  BY <1>1, <1>3, <1>4 DEF LockInv

(* Locks come, are granted and refused: no surface changes. *)
LEMMA LockListChanges ==
  ASSUME LockInv, NEW R \in SUBSET LockId, NEW O \in SUBSET LockId, NEW G \in SUBSET LockId,
         lock.obj \subseteq O, lock' = [lock EXCEPT !.res = R, !.obj = O, !.locked = G]
  PROVE  LockInv'
<1>0. LockTypeOK
  BY DEF LockInv
<1>1. LockTypeOK'
  BY <1>0 DEF LockTypeOK
<1>2. /\ lock'.surf = lock.surf /\ lock'.sent = lock.sent /\ lock'.outs = lock.outs
      /\ lock'.obj = O
  BY <1>0 DEF LockTypeOK
<1>3. LockSound' /\ LockAlone'
  BY <1>2 DEF LockInv, LockSound, LockAlone
<1>4. LockOwned'
  BY <1>2 DEF LockInv, LockOwned, RoleOwned
<1> QED
  BY <1>1, <1>3, <1>4 DEF LockInv

SurfacesGone(ss, R, O, G, U) ==
  lock' = [lock EXCEPT !.res = R, !.obj = O, !.locked = G, !.outs = U,
             !.surf = [s \in LockSurface |-> IF s \in ss THEN lock_surface_destroy(lock.surf[s]) ELSE lock.surf[s]]]

(* Surfaces lose their role, with all that belong to a lock or an output.   *)
LEMMA LockSurfacesGo ==
  ASSUME LockInv, NEW ss \in SUBSET LockSurface,
         NEW R \in SUBSET LockId, NEW O \in SUBSET LockId, NEW G \in SUBSET LockId,
         NEW U \in SUBSET LockOutput,
         SurfacesGone(ss, R, O, G, U),
         \A s \in LockSurface \ ss : RoleOwned(O, U, lock.surf[s])
  PROVE  LockInv'
<1> DEFINE f == [s \in LockSurface |-> IF s \in ss THEN lock_surface_destroy(lock.surf[s]) ELSE lock.surf[s]]
<1>0. LockTypeOK
  BY DEF LockInv
<1> DEFINE Lost(n) == /\ n.lock = NoLock /\ (\A told : RoleSound(told, n))
                     /\ \A obj, outs : RoleOwned(obj, outs, n)
<1>1. \A s \in LockSurface : f[s] \in LockRoles /\ (Lost(f[s]) \/ (s \notin ss /\ f[s] = lock.surf[s]))
  BY <1>0, LockTyped, RoleLost
<1>2. f \in [LockSurface -> LockRoles]
  BY <1>1
<1>3. lock' = [lock EXCEPT !.res = R, !.obj = O, !.locked = G, !.outs = U, !.surf = f]
  BY DEF SurfacesGone
<1> HIDE DEF f
<1>4. LockTypeOK'
  BY <1>0, <1>2, <1>3 DEF LockTypeOK
<1>5. lock'.surf = f /\ lock'.sent = lock.sent /\ lock'.outs = U /\ lock'.obj = O
  BY <1>0, <1>3 DEF LockTypeOK
<1>6. LockSound'
  BY <1>1, <1>5 DEF LockInv, LockSound
<1>7. LockOwned'
  BY <1>1, <1>5 DEF LockOwned
<1>8. LockAlone'
  BY <1>1, <1>5 DEF LockInv, LockAlone
<1> QED
  BY <1>4, <1>6, <1>7, <1>8 DEF LockInv

(* One surface changes; what it belongs to stays, or is new and alone.      *)
LEMMA LockSurfaceChanges ==
  ASSUME LockInv, NEW s \in LockSurface, NEW r \in LockRoles, NEW told \in Seq(Nat),
         lock' = [lock EXCEPT !.surf[s] = r, !.sent = told],
         RoleSound(told, r), RoleOwned(lock.obj, lock.outs, r),
         \A t \in LockSurface : RoleSound(told, lock.surf[t]),
         \A t \in LockSurface \ {s} : r.lock # NoLock /\ lock.surf[t].lock = r.lock
                                       => lock.surf[t].output # r.output
  PROVE  LockInv'
<1> DEFINE f == [lock.surf EXCEPT ![s] = r]
<1>0. LockTypeOK
  BY DEF LockInv
<1>1. f \in [LockSurface -> LockRoles] /\ f[s] = r /\ \A t \in LockSurface : t # s => f[t] = lock.surf[t]
  BY <1>0, LockTyped
<1>3. lock' = [lock EXCEPT !.surf = f, !.sent = told]
  BY <1>0 DEF LockTypeOK
<1> HIDE DEF f
<1>4. LockTypeOK'
  BY <1>0, <1>1, <1>3 DEF LockTypeOK
<1>5. lock'.surf = f /\ lock'.sent = told /\ lock'.outs = lock.outs /\ lock'.obj = lock.obj
  BY <1>0, <1>3 DEF LockTypeOK
<1>6. LockSound'
  BY <1>1, <1>5 DEF LockSound
<1>7. LockOwned'
  BY <1>1, <1>5 DEF LockInv, LockOwned
<1>8. LockAlone'
  BY <1>1, <1>5 DEF LockInv, LockAlone
<1> QED
  BY <1>4, <1>6, <1>7, <1>8 DEF LockInv

(* A lock that goes takes its surfaces along. *)
LEMMA LockGoes ==
  ASSUME LockInv, NEW l \in LockId, NEW R \in SUBSET LockId,
         lock' = [lock_destroy(lock, l) EXCEPT !.res = R]
  PROVE  LockInv'
<1> DEFINE ss == {s \in LockSurface : lock.surf[s].lock = l}
           f == [s \in LockSurface |-> IF s \in ss THEN lock_surface_destroy(lock.surf[s]) ELSE lock.surf[s]]
<1>0. LockTypeOK
  BY DEF LockInv
<1>1. lock_destroy(lock, l) = [lock EXCEPT !.surf = f, !.obj = @ \ {l}, !.locked = @ \ {l}]
  BY <1>0 DEF lock_destroy, DestroySurfaces, LockTypeOK
<1> DEFINE O == lock.obj \ {l}
           G == lock.locked \ {l}
<1>2. lock' = [lock EXCEPT !.res = R, !.obj = O, !.locked = G, !.outs = lock.outs, !.surf = f]
  <2> HIDE DEF f
  <2> QED
    BY <1>0, <1>1 DEF LockTypeOK
<1>3. \A s \in LockSurface \ ss : RoleOwned(O, lock.outs, lock.surf[s])
  BY DEF LockInv, LockOwned, RoleOwned
<1>4. /\ ss \in SUBSET LockSurface /\ O \in SUBSET LockId
      /\ G \in SUBSET LockId /\ lock.outs \in SUBSET LockOutput
  BY <1>0 DEF LockTypeOK
<1> HIDE DEF ss, O, G
<1>5. SurfacesGone(ss, R, O, G, lock.outs)
  BY <1>2 DEF SurfacesGone
<1> QED
  BY <1>3, <1>4, <1>5, LockSurfacesGo

LEMMA LockResources ==
  ASSUME LockInv, NEW l \in LockId,
         \/ lock_manager_handle_lock(l) \/ wlr_session_lock_v1_send_locked(l)
         \/ wlr_session_lock_v1_destroy(l) \/ lock_handle_unlock_and_destroy(l)
         \/ lock_handle_destroy(l) \/ lock_resource_destroy(l)
  PROVE  LockInv'
<1>0. LockTypeOK
  BY DEF LockInv
<1>t. lock.res \in SUBSET LockId /\ lock.obj \in SUBSET LockId /\ lock.locked \in SUBSET LockId
  BY <1>0 DEF LockTypeOK
<1>1. CASE lock_manager_handle_lock(l)
  <2>1. lock' = [lock EXCEPT !.res = lock.res \cup {l}, !.obj = lock.obj \cup {l},
                             !.locked = lock.locked]
    BY <1>0, <1>1 DEF lock_manager_handle_lock, LockTypeOK
  <2>2. /\ lock.res \cup {l} \in SUBSET LockId /\ lock.obj \cup {l} \in SUBSET LockId
        /\ lock.obj \subseteq lock.obj \cup {l}
    BY <1>t
  <2> QED
    BY <1>t, <2>1, <2>2, LockListChanges
<1>2. CASE wlr_session_lock_v1_send_locked(l)
  <2>1. lock' = [lock EXCEPT !.res = lock.res, !.obj = lock.obj, !.locked = lock.locked \cup {l}]
    BY <1>0, <1>2 DEF wlr_session_lock_v1_send_locked, LockTypeOK
  <2>2. lock.locked \cup {l} \in SUBSET LockId
    BY <1>t
  <2> QED
    BY <1>t, <2>1, <2>2, LockListChanges
<1>3. ASSUME lock' = [lock EXCEPT !.res = @ \ {l}] PROVE LockInv'
  <2>1. lock' = [lock EXCEPT !.res = lock.res \ {l}, !.obj = lock.obj, !.locked = lock.locked]
    BY <1>0, <1>3 DEF LockTypeOK
  <2>2. lock.res \ {l} \in SUBSET LockId
    BY <1>t
  <2> QED
    BY <1>t, <2>1, <2>2, LockListChanges
<1> DEFINE d == lock_destroy(lock, l)
<1>4. d.res = lock.res
  BY <1>0 DEF lock_destroy, DestroySurfaces, LockTypeOK
<1>5. CASE wlr_session_lock_v1_destroy(l)
  <2>1. lock' = d
    BY <1>5 DEF wlr_session_lock_v1_destroy
  <2>2. d = [d EXCEPT !.res = lock.res]
    BY <1>0 DEF lock_destroy, DestroySurfaces, LockTypeOK
  <2> QED
    BY <1>t, <2>1, <2>2, LockGoes
<1>6. ASSUME lock' = [d EXCEPT !.res = @ \ {l}] PROVE LockInv'
  <2>1. lock' = [d EXCEPT !.res = lock.res \ {l}] /\ lock.res \ {l} \in SUBSET LockId
    BY <1>t, <1>4, <1>6
  <2> QED
    BY <2>1, LockGoes
<1>7. CASE lock_handle_unlock_and_destroy(l)
  BY <1>3, <1>6, <1>7 DEF lock_handle_unlock_and_destroy
<1>8. CASE lock_handle_destroy(l)
  BY <1>3, <1>8 DEF lock_handle_destroy
<1>9. CASE lock_resource_destroy(l)
  BY <1>6, <1>9 DEF lock_resource_destroy
<1> QED
  BY <1>1, <1>2, <1>5, <1>7, <1>8, <1>9

LEMMA LockSurfaceMade ==
  ASSUME LockInv, NEW l \in LockId, NEW s \in LockSurface, NEW o \in LockOutput,
         lock_handle_get_lock_surface(l, s, o)
  PROVE  LockInv'
<1> DEFINE old == lock.surf[s]
           r == [old EXCEPT !.lock = l, !.output = o]
<1>0. LockTypeOK
  BY DEF LockInv
<1>a. old \in LockRoles
  BY <1>0, LockTyped
<1>2. lock' = [lock EXCEPT !.surf[s] = r, !.sent = lock.sent] /\ l \in lock.obj /\ o \in lock.outs
  BY <1>0 DEF lock_handle_get_lock_surface, LockTypeOK, LockRoles
<1>b. RoleSound(lock.sent, old)
  BY DEF LockInv, LockSound
<1> HIDE DEF old
<1>1. /\ r \in LockRoles /\ r.lock = l /\ r.output = o /\ l # NoLock
      /\ r.confs = old.confs /\ r.waiting = old.waiting /\ r.conf = old.conf /\ r.buf = old.buf
      /\ r.pending = old.pending /\ r.current = old.current /\ r.mapped = old.mapped
  BY <1>a, LockAssumption DEF LockRoles
<1> HIDE DEF r
<1>3. RoleSound(lock.sent, r) /\ RoleOwned(lock.obj, lock.outs, r)
  BY <1>1, <1>2, <1>b DEF RoleSound, RoleOwned
<1>4. \A t \in LockSurface \ {s} : r.lock # NoLock /\ lock.surf[t].lock = r.lock
                                    => lock.surf[t].output # r.output
  BY <1>1 DEF lock_handle_get_lock_surface
<1>5. lock.sent \in Seq(Nat) /\ \A t \in LockSurface : RoleSound(lock.sent, lock.surf[t])
  BY <1>0, LockTyped DEF LockInv, LockSound
<1> QED
  BY <1>1, <1>2, <1>3, <1>4, <1>5, LockSurfaceChanges

LEMMA LockOutputGoes ==
  ASSUME LockInv, NEW o \in LockOutput, lock_surface_handle_output_destroy(o)
  PROVE  LockInv'
<1> DEFINE ss == {s \in LockSurface : lock.surf[s].output = o}
           f == [s \in LockSurface |-> IF s \in ss THEN lock_surface_destroy(lock.surf[s]) ELSE lock.surf[s]]
<1>0. LockTypeOK
  BY DEF LockInv
<1>1. lock' = [lock EXCEPT !.surf = f, !.outs = @ \ {o}]
  BY <1>0 DEF lock_surface_handle_output_destroy, DestroySurfaces, LockTypeOK
<1>2. lock' = [lock EXCEPT !.res = lock.res, !.obj = lock.obj, !.locked = lock.locked,
                           !.outs = lock.outs \ {o}, !.surf = f]
  <2> HIDE DEF f
  <2> QED
    BY <1>0, <1>1 DEF LockTypeOK
<1>3. \A s \in LockSurface \ ss : RoleOwned(lock.obj, lock.outs \ {o}, lock.surf[s])
  BY DEF LockInv, LockOwned, RoleOwned
<1>4. /\ ss \in SUBSET LockSurface /\ lock.obj \in SUBSET LockId /\ lock.res \in SUBSET LockId
      /\ lock.locked \in SUBSET LockId /\ lock.outs \ {o} \in SUBSET LockOutput
  BY <1>0 DEF LockTypeOK
<1>5. SurfacesGone(ss, lock.res, lock.obj, lock.locked, lock.outs \ {o})
  BY <1>2 DEF SurfacesGone
<1> HIDE DEF ss
<1> QED
  BY <1>3, <1>4, <1>5, LockSurfacesGo

LEMMA LockRoleGoes ==
  ASSUME LockInv, NEW s \in LockSurface, lock_surface_role_destroy(s)
  PROVE  LockInv'
<1> DEFINE f == [t \in LockSurface |-> IF t \in {s} THEN lock_surface_destroy(lock.surf[t]) ELSE lock.surf[t]]
<1>0. LockTypeOK
  BY DEF LockInv
<1>1. lock' = [lock EXCEPT !.surf = f]
  BY <1>0 DEF lock_surface_role_destroy, DestroySurfaces, LockTypeOK
<1>2. lock' = [lock EXCEPT !.res = lock.res, !.obj = lock.obj, !.locked = lock.locked,
                           !.outs = lock.outs, !.surf = f]
  <2> HIDE DEF f
  <2> QED
    BY <1>0, <1>1 DEF LockTypeOK
<1>3. \A t \in LockSurface \ {s} : RoleOwned(lock.obj, lock.outs, lock.surf[t])
  BY DEF LockInv, LockOwned
<1>4. /\ {s} \in SUBSET LockSurface /\ lock.obj \in SUBSET LockId /\ lock.res \in SUBSET LockId
      /\ lock.locked \in SUBSET LockId /\ lock.outs \in SUBSET LockOutput
  BY <1>0 DEF LockTypeOK
<1>5. SurfacesGone({s}, lock.res, lock.obj, lock.locked, lock.outs)
  BY <1>2 DEF SurfacesGone
<1> QED
  BY <1>3, <1>4, <1>5, LockSurfacesGo

LEMMA LockSurfaceGone ==
  ASSUME LockInv, NEW s \in LockSurface, SurfaceGone(s)
  PROVE  LockInv'
<1>0. LockTypeOK
  BY DEF LockInv
<1>1. lock' = [lock EXCEPT !.surf[s] = NoRole, !.sent = lock.sent]
  BY <1>0 DEF SurfaceGone, LockTypeOK
<1>2. lock.sent \in Seq(Nat) /\ \A t \in LockSurface : RoleSound(lock.sent, lock.surf[t])
  BY <1>0, LockTyped DEF LockInv, LockSound
<1> QED
  BY <1>1, <1>2, NoRoleType, NoRoleSound, LockSurfaceChanges

(* The surface keeps its lock and output in the rest of the handshake. *)
LEMMA LockHandshake ==
  ASSUME LockInv, NEW s \in LockSurface, NEW r \in LockRoles, NEW told \in Seq(Nat),
         lock' = [lock EXCEPT !.surf[s] = r, !.sent = told],
         r.lock = lock.surf[s].lock, r.output = lock.surf[s].output, RoleSound(told, r),
         \A t \in LockSurface : RoleSound(told, lock.surf[t])
  PROVE  LockInv'
<1>1. RoleOwned(lock.obj, lock.outs, r)
  BY DEF LockInv, LockOwned, RoleOwned
<1>2. \A t \in LockSurface \ {s} : r.lock # NoLock /\ lock.surf[t].lock = r.lock
                                    => lock.surf[t].output # r.output
  BY DEF LockInv, LockAlone
<1> QED
  BY <1>1, <1>2, LockSurfaceChanges

LEMMA LockConfigured ==
  ASSUME LockInv, NEW s \in LockSurface, NEW size \in LockSizes,
         wlr_session_lock_surface_v1_configure(s, size)
  PROVE  LockInv'
<1> DEFINE n == Len(lock.sent)
           told == Append(lock.sent, size)
           e == [serial |-> n + 1, size |-> size]
           c == Append(lock.surf[s].confs, e)
           r == [lock.surf[s] EXCEPT !.confs = c]
           m == Len(lock.surf[s].confs)
<1>0. LockTypeOK /\ size \in Nat
  BY LockAssumption DEF LockInv
<1>1. lock' = [lock EXCEPT !.surf[s] = r, !.sent = told]
  BY <1>0 DEF wlr_session_lock_surface_v1_configure, LockTypeOK
<1>2. /\ n \in Nat /\ lock.sent \in Seq(Nat) /\ lock.surf[s] \in LockRoles
      /\ lock.surf[s].confs \in Seq(LockConfigures)
  BY <1>0, LockTyped
<1>3. /\ told \in Seq(Nat) /\ Len(told) = n + 1 /\ told[n + 1] = size
      /\ \A i \in 1..n : told[i] = lock.sent[i]
  BY <1>0, <1>2, AppendElements
<1>4. e \in LockConfigures /\ e.serial = n + 1 /\ e.size = size
  BY <1>0, <1>2 DEF LockConfigures
<1> HIDE DEF e
<1>5. /\ c \in Seq(LockConfigures) /\ Len(c) = m + 1 /\ c[m + 1] = e /\ m \in Nat
      /\ \A i \in 1..m : c[i] = lock.surf[s].confs[i]
  BY <1>2, <1>4, AppendElements, LenProperties
<1> HIDE DEF told, c
<1>6. \A d : WasSent(lock.sent, d) => WasSent(told, d)
  <2> SUFFICES ASSUME NEW d, WasSent(lock.sent, d) PROVE WasSent(told, d)
    OBVIOUS
  <2> DEFINE k == d.serial
  <2>1. k \in 1..n /\ d.size = lock.sent[k]
    BY DEF WasSent
  <2> HIDE DEF k
  <2>2. told[k] = lock.sent[k] /\ k \in 1..Len(told)
    BY <1>2, <1>3, <2>1
  <2> QED
    BY <2>1, <2>2 DEF k, WasSent
<1>7. \A t \in LockSurface : RoleSound(told, lock.surf[t])
  BY <1>6 DEF LockInv, LockSound, RoleSound, Checked
<1>8. /\ r \in LockRoles /\ r.lock = lock.surf[s].lock /\ r.output = lock.surf[s].output
      /\ r.confs = c /\ r.conf = lock.surf[s].conf /\ r.pending = lock.surf[s].pending
      /\ r.current = lock.surf[s].current /\ r.waiting = lock.surf[s].waiting
      /\ r.buf = lock.surf[s].buf /\ r.mapped = lock.surf[s].mapped
  BY <1>2, <1>5 DEF LockRoles
<1> HIDE DEF r, m
<1>9. RoleSound(told, r)
  <2>1. WasSent(told, e)
    BY <1>2, <1>3, <1>4 DEF WasSent
  <2>2. \A i \in 1..Len(c) : WasSent(told, c[i])
    <3> SUFFICES ASSUME NEW i \in 1..(m + 1) PROVE WasSent(told, c[i])
      BY <1>5
    <3>1. i \in 1..m \/ i = m + 1
      BY <1>5
    <3>2. i \in 1..m => WasSent(told, lock.surf[s].confs[i])
      BY <1>7 DEF RoleSound, m
    <3> QED
      BY <1>5, <2>1, <3>1, <3>2
  <2> QED
    BY <1>7, <1>8, <2>2 DEF RoleSound, Unroled
<1> QED
  BY <1>1, <1>3, <1>7, <1>8, <1>9, LockHandshake

LEMMA LockAcked ==
  ASSUME LockInv, NEW s \in LockSurface, NEW i \in 1..MaxLockSerial,
         lock_surface_handle_ack_configure(s, i)
  PROVE  LockInv'
<1> DEFINE old == lock.surf[s]
           c == SubSeq(old.confs, i + 1, Len(old.confs))
           e == old.confs[i]
           r == [old EXCEPT !.confs = c, !.conf = TRUE, !.pending = e]
<1>0. LockTypeOK
  BY DEF LockInv
<1>1. lock' = [lock EXCEPT !.surf[s] = r, !.sent = lock.sent]
  BY <1>0 DEF lock_surface_handle_ack_configure, LockTypeOK, LockRoles
<1>2. /\ lock.sent \in Seq(Nat) /\ old \in LockRoles /\ old.confs \in Seq(LockConfigures)
      /\ i \in 1..Len(old.confs) /\ old.lock # NoLock
  BY <1>0, LockTyped, SeqElements DEF lock_surface_handle_ack_configure, HasRole
<1>3. e \in LockConfigures
  BY <1>2, SeqElements
<1> HIDE DEF old
<1>4. /\ c \in Seq(LockConfigures) /\ Len(c) = Len(old.confs) - i
      /\ \A j \in 1..(Len(old.confs) - i) : c[j] = old.confs[j + i] /\ j + i \in 1..Len(old.confs)
  BY <1>2, DropFirst
<1>5. RoleSound(lock.sent, old)
  BY DEF LockInv, LockSound, old
<1>6. WasSent(lock.sent, e)
  BY <1>2, <1>5 DEF RoleSound
<1> HIDE DEF c, e
<1>7. /\ r \in LockRoles /\ r.lock = old.lock /\ r.output = old.output
      /\ r.confs = c /\ r.pending = e /\ r.current = old.current /\ r.waiting = old.waiting
      /\ r.buf = old.buf /\ r.mapped = old.mapped /\ old.lock # NoLock
  BY <1>2, <1>3, <1>4 DEF LockRoles
<1> HIDE DEF r
<1>8. \A j \in 1..Len(c) : WasSent(lock.sent, c[j])
  BY <1>4, <1>5 DEF RoleSound
<1>9. RoleSound(lock.sent, r)
  BY <1>5, <1>6, <1>7, <1>8 DEF RoleSound
<1>10. \A t \in LockSurface : RoleSound(lock.sent, lock.surf[t])
  BY DEF LockInv, LockSound
<1> QED
  BY <1>1, <1>2, <1>7, <1>9, <1>10, LockHandshake DEF old

LEMMA LockCommitted ==
  ASSUME LockInv, NEW s \in LockSurface, NEW size \in LockSizes \cup {0}, LockCommit(s, size)
  PROVE  LockInv'
<1> DEFINE old == lock.surf[s]
           m == Len(old.waiting)
           e == [size |-> size, state |-> old.pending]
           w == Append(old.waiting, e)
           r == [old EXCEPT !.waiting = w]
<1>0. LockTypeOK /\ size \in Nat
  BY LockAssumption DEF LockInv
<1>1. lock' = [lock EXCEPT !.surf[s] = r, !.sent = lock.sent]
  BY <1>0 DEF LockCommit, LockTypeOK, LockRoles
<1>2. /\ lock.sent \in Seq(Nat) /\ old \in LockRoles /\ old.pending \in LockConfigures
      /\ old.waiting \in Seq(LockWaiting) /\ m \in Nat
  BY <1>0, LockTyped, LenProperties DEF LockRoles
<1>a. old.lock # NoLock => old.conf /\ size > 0 /\ size = old.pending.size
  BY DEF LockCommit, lock_surface_role_client_commit, HasRole
<1> HIDE DEF old
<1>3. e \in LockWaiting /\ e.size = size /\ e.state = old.pending
  BY <1>0, <1>2 DEF LockWaiting
<1> HIDE DEF e
<1>4. /\ w \in Seq(LockWaiting) /\ Len(w) = m + 1 /\ w[m + 1] = e
      /\ \A i \in 1..m : w[i] = old.waiting[i]
  BY <1>2, <1>3, AppendElements
<1>5. RoleSound(lock.sent, old)
  BY DEF LockInv, LockSound, old
<1>b. (old.lock = NoLock => old.pending.serial = 0) /\ (old.conf => WasSent(lock.sent, old.pending))
  BY <1>5 DEF RoleSound, Unroled
<1>6. Checked(lock.sent, e)
  BY <1>3, <1>a, <1>b DEF Checked
<1>c. \A j \in 1..m : Checked(lock.sent, old.waiting[j])
  BY <1>5 DEF RoleSound
<1> HIDE DEF w
<1>7. /\ r \in LockRoles /\ r.lock = old.lock /\ r.output = old.output /\ r.conf = old.conf
      /\ r.confs = old.confs /\ r.pending = old.pending /\ r.current = old.current
      /\ r.waiting = w /\ r.buf = old.buf /\ r.mapped = old.mapped
  BY <1>2, <1>4 DEF LockRoles
<1> HIDE DEF r, m
<1>8. \A j \in 1..(m + 1) : j \in 1..m \/ j = m + 1
  BY <1>2
<1>d. \A j \in 1..Len(w) : Checked(lock.sent, w[j])
  BY <1>4, <1>6, <1>8, <1>c
<1>e. old.lock = NoLock => \A j \in 1..Len(w) : w[j].state.serial = 0
  <2>1. old.lock = NoLock => \A j \in 1..m : old.waiting[j].state.serial = 0
    BY <1>5 DEF RoleSound, Unroled, m
  <2> QED
    BY <1>3, <1>4, <1>8, <1>b, <2>1
<1>f. r.lock = NoLock => Unroled(r)
  BY <1>5, <1>7, <1>e DEF RoleSound, Unroled
<1>9. RoleSound(lock.sent, r)
  BY <1>5, <1>7, <1>d, <1>f DEF RoleSound
<1>10. \A t \in LockSurface : RoleSound(lock.sent, lock.surf[t])
  BY DEF LockInv, LockSound
<1> QED
  BY <1>1, <1>2, <1>7, <1>9, <1>10, LockHandshake DEF old

LEMMA LockApplied ==
  ASSUME LockInv, NEW s \in LockSurface, LockApply(s)
  PROVE  LockInv'
<1> DEFINE old == lock.surf[s]
           e == Head(old.waiting)
           w == Tail(old.waiting)
           fails == e.size = 0 /\ ~old.mapped
           up == IF old.lock # NoLock /\ ~fails THEN TRUE ELSE old.mapped
           ab == IF old.lock # NoLock /\ fails THEN TRUE ELSE lock.aborted
           r == [old EXCEPT !.waiting = w, !.current = e.state, !.buf = e.size, !.mapped = up]
           st == [lock EXCEPT !.surf[s].waiting = Tail(@), !.surf[s].current = e.state,
                              !.surf[s].buf = e.size]
<1>0. LockTypeOK
  BY DEF LockInv
<1>2. /\ lock.sent \in Seq(Nat) /\ old \in LockRoles /\ old.waiting \in Seq(LockWaiting)
      /\ old.waiting # <<>> /\ lock.surf \in [LockSurface -> LockRoles]
  BY <1>0, LockTyped DEF LockApply
<1>a. lock' = IF old.lock # NoLock THEN lock_surface_role_commit(st, s) ELSE st
  BY DEF LockApply, HasRole
<1>b. /\ st.surf[s].buf = e.size /\ st.surf[s].mapped = old.mapped
      /\ st.surf = [lock.surf EXCEPT ![s] = [old EXCEPT !.waiting = w, !.current = e.state, !.buf = e.size]]
      /\ st = [lock EXCEPT !.surf = st.surf] /\ st.aborted = lock.aborted
  <2>1. st = [lock EXCEPT !.surf = [lock.surf EXCEPT ![s] =
                [old EXCEPT !.waiting = w, !.current = e.state, !.buf = e.size]]]
    BY <1>0, <1>2 DEF LockTypeOK, LockRoles
  <2> QED
    BY <1>0, <1>2, <2>1 DEF LockTypeOK, LockRoles
<1>1. lock' = [lock EXCEPT !.surf = [lock.surf EXCEPT ![s] = r], !.aborted = ab]
  <2> DEFINE q == [old EXCEPT !.waiting = w, !.current = e.state, !.buf = e.size]
             f == [lock.surf EXCEPT ![s] = q]
             g == [lock.surf EXCEPT ![s] = r]
  <2>1. r = [q EXCEPT !.mapped = up] /\ (up = old.mapped => r = q)
    BY <1>2 DEF LockRoles
  <2>2. st = [lock EXCEPT !.surf = f] /\ st.surf = f /\ f[s] = q
    BY <1>0, <1>2, <1>b DEF LockTypeOK
  <2>a. f = g \/ up # old.mapped
    BY <2>1
  <2>b. [f EXCEPT ![s].mapped = up] = g
    <3> HIDE DEF r, q
    <3> QED
      BY <1>2, <2>1
  <2>c. lock.aborted = ab \/ (old.lock # NoLock /\ fails)
    OBVIOUS
  <2> HIDE DEF f, g, st, r
  <2>3. CASE old.lock = NoLock
    <3>1. lock' = [lock EXCEPT !.surf = g] /\ ab = lock.aborted
      BY <1>a, <2>2, <2>3, <2>a
    <3> HIDE DEF ab
    <3> QED
      BY <1>0, <3>1 DEF LockTypeOK, g
  <2>4. CASE old.lock # NoLock /\ fails
    <3>1. lock' = [st EXCEPT !.aborted = TRUE] /\ ab = TRUE /\ f = g
      BY <1>a, <1>b, <2>4, <2>a DEF lock_surface_role_commit
    <3> HIDE DEF ab
    <3> QED
      BY <1>0, <2>2, <3>1 DEF LockTypeOK, g
  <2>5. CASE old.lock # NoLock /\ ~fails
    <3>1. lock' = [st EXCEPT !.surf[s].mapped = TRUE] /\ ab = lock.aborted /\ up = TRUE
      BY <1>a, <1>b, <2>5 DEF lock_surface_role_commit
    <3> HIDE DEF ab, up
    <3>2. lock' = [lock EXCEPT !.surf = g]
      BY <1>0, <2>2, <2>b, <3>1 DEF LockTypeOK
    <3> QED
      BY <1>0, <3>1, <3>2 DEF LockTypeOK, g
  <2> QED
    BY <2>3, <2>4, <2>5
<1> HIDE DEF old
<1>3. /\ e \in LockWaiting /\ e = old.waiting[1] /\ 1 \in 1..Len(old.waiting)
      /\ w \in Seq(LockWaiting)
      /\ \A i \in 1..Len(w) : w[i] = old.waiting[i + 1] /\ i + 1 \in 1..Len(old.waiting)
  BY <1>2, TailElements, SeqElements
<1>4. e.state \in LockConfigures /\ e.size \in Nat /\ up \in BOOLEAN /\ ab \in BOOLEAN
  BY <1>0, <1>2, <1>3 DEF LockWaiting, LockRoles, LockTypeOK
<1>5. RoleSound(lock.sent, old)
  BY DEF LockInv, LockSound, old
<1>6. Checked(lock.sent, e) /\ \A i \in 1..Len(w) : Checked(lock.sent, w[i])
  BY <1>3, <1>5 DEF RoleSound
<1>c. old.lock = NoLock => /\ old.pending.serial = 0 /\ e.state.serial = 0 /\ ~up
                           /\ \A i \in 1..Len(w) : w[i].state.serial = 0
  BY <1>3, <1>5 DEF RoleSound, Unroled
<1>d. e.state.serial > 0 => WasSent(lock.sent, e.state) /\ e.size = e.state.size /\ up
  BY <1>4, <1>6, <1>c DEF Checked, LockConfigures
<1> HIDE DEF e, w, up, ab
<1>7. /\ r \in LockRoles /\ r.lock = old.lock /\ r.output = old.output /\ r.conf = old.conf
      /\ r.confs = old.confs /\ r.pending = old.pending /\ r.current = e.state
      /\ r.waiting = w /\ r.buf = e.size /\ r.mapped = up
  BY <1>2, <1>3, <1>4 DEF LockRoles
<1> HIDE DEF r
<1>8. r.lock = NoLock => Unroled(r)
  BY <1>7, <1>c DEF Unroled
<1>9. RoleSound(lock.sent, r)
  BY <1>5, <1>6, <1>7, <1>8, <1>d DEF RoleSound
<1> DEFINE f == [lock.surf EXCEPT ![s] = r]
<1>11. f \in [LockSurface -> LockRoles] /\ f[s] = r /\ \A t \in LockSurface : t # s => f[t] = lock.surf[t]
  BY <1>2, <1>7
<1>12. lock' = [lock EXCEPT !.surf = f, !.aborted = ab]
  BY <1>1
<1> HIDE DEF f
<1>13. LockTypeOK'
  BY <1>0, <1>4, <1>11, <1>12 DEF LockTypeOK
<1>14. lock'.surf = f /\ lock'.sent = lock.sent /\ lock'.outs = lock.outs /\ lock'.obj = lock.obj
  BY <1>0, <1>12 DEF LockTypeOK
<1>15. LockSound'
  BY <1>9, <1>11, <1>14 DEF LockInv, LockSound
<1>16. \A t \in LockSurface : f[t].lock = lock.surf[t].lock /\ f[t].output = lock.surf[t].output
  BY <1>7, <1>11 DEF old
<1>17. LockOwned'
  BY <1>14, <1>16 DEF LockInv, LockOwned, RoleOwned
<1>18. LockAlone'
  BY <1>14, <1>16 DEF LockInv, LockAlone
<1> QED
  BY <1>13, <1>15, <1>17, <1>18 DEF LockInv

LEMMA LockKept == ASSUME LockInv, [LockNext]_lock PROVE LockInv'
<1>1. CASE UNCHANGED lock
  BY <1>1 DEF LockInv, LockTypeOK, LockSound, LockOwned, LockAlone
<1>2. ASSUME NEW l \in LockId,
             \/ lock_manager_handle_lock(l) \/ wlr_session_lock_v1_send_locked(l)
             \/ wlr_session_lock_v1_destroy(l) \/ lock_handle_unlock_and_destroy(l)
             \/ lock_handle_destroy(l) \/ lock_resource_destroy(l)
      PROVE  LockInv'
  BY <1>2, LockResources
<1>3. ASSUME NEW l \in LockId, NEW s \in LockSurface, NEW o \in LockOutput,
             lock_handle_get_lock_surface(l, s, o)
      PROVE  LockInv'
  BY <1>3, LockSurfaceMade
<1>4. ASSUME NEW o \in LockOutput, lock_surface_handle_output_destroy(o)
      PROVE  LockInv'
  BY <1>4, LockOutputGoes
<1>5. ASSUME NEW s \in LockSurface,
             \/ lock_surface_role_destroy(s) \/ SurfaceGone(s) \/ LockApply(s)
             \/ \E size \in LockSizes : wlr_session_lock_surface_v1_configure(s, size)
             \/ \E i \in 1..MaxLockSerial : lock_surface_handle_ack_configure(s, i)
             \/ \E size \in LockSizes \cup {0} : LockCommit(s, size)
      PROVE  LockInv'
  BY <1>5, LockRoleGoes, LockSurfaceGone, LockApplied, LockConfigured, LockAcked, LockCommitted
<1> QED
  BY <1>1, <1>2, <1>3, <1>4, <1>5 DEF LockNext

LEMMA LockMatch == ASSUME LockInv PROVE LockSurfacesMatch
<1> SUFFICES ASSUME NEW s \in LockSurface
             PROVE  LET r == lock.surf[s] IN
                    /\ r.mapped \/ r.current.serial > 0 => r.lock # NoLock
                    /\ r.lock # NoLock =>
                         /\ r.lock \in lock.obj /\ r.output \in lock.outs
                         /\ r.current.serial > 0 => /\ r.mapped /\ r.buf = r.current.size
                                                    /\ r.buf = lock.sent[r.current.serial]
                         /\ \A t \in LockSurface : t # s /\ lock.surf[t].lock = r.lock
                              => lock.surf[t].output # r.output
  BY DEF LockSurfacesMatch, HasRole
<1> DEFINE r == lock.surf[s]
<1>1. RoleSound(lock.sent, r) /\ RoleOwned(lock.obj, lock.outs, r)
  BY DEF LockInv, LockSound, LockOwned
<1>2. /\ r.current.serial > 0 => /\ r.mapped /\ r.buf = r.current.size
                                 /\ r.buf = lock.sent[r.current.serial]
      /\ r.lock = NoLock => ~r.mapped /\ ~(r.current.serial > 0)
  BY <1>1 DEF RoleSound, WasSent, Unroled
<1>3. r.lock # NoLock => \A t \in LockSurface : t # s /\ lock.surf[t].lock = r.lock
                         => lock.surf[t].output # r.output
  BY DEF LockInv, LockAlone
<1> QED
  BY <1>1, <1>2, <1>3 DEF RoleOwned

(* Session locks (wlr_session_lock_v1.c): whatever goes first, the lock,    *)
(* the output, the surface or the client, a lock surface belongs to a live  *)
(* lock and a live output, no two surfaces of a lock cover the same output, *)
(* and what is shown has the size of the configure it acknowledged, unless  *)
(* its commit was waiting when the role was given.                          *)
THEOREM LockedScreensCovered == LockSpec => [](LockTypeOK /\ LockSurfacesMatch)
<1>1. LockInit => LockInv
  BY LockStarts
<1>2. LockInv /\ [LockNext]_lock => LockInv'
  BY LockKept
<1>3. LockInv => LockTypeOK /\ LockSurfacesMatch
  BY LockMatch DEF LockInv
<1> QED
  BY <1>1, <1>2, <1>3, PTL DEF LockSpec

-----------------------------------------------------------------------------
(***************************************************************************)
(* Popups.                                                                 *)
(***************************************************************************)

(* The shape of the state. *)
PopShape ==
  [res : SUBSET PopSurface, obj : SUBSET PopSurface,
   parent : [PopSurface -> PopSurface \cup {PopRoot, NoPop}],
   init : SUBSET PopSurface, conf : SUBSET PopSurface, mapped : SUBSET PopSurface,
   idle : SUBSET PopSurface, token : SUBSET PopSurface, asked : SUBSET PopSurface,
   flight : SUBSET PopSurface, list : SUBSET PopSurface, grabs : SUBSET GrabKinds,
   torn : BOOLEAN, root : BOOLEAN, client : BOOLEAN]
PopTypeOK == pop \in PopShape

(* The parts of the invariant are about any state st, as the handlers are   *)
(* functions of states.                                                     *)
Standing(st, s) == st.parent[s] \in st.res \cup (IF st.root THEN {PopRoot} ELSE {})
PopGrab(st) ==
  /\ st.mapped \subseteq st.obj
  /\ ~st.torn => st.list \subseteq st.obj /\ (st.grabs # {} => st.list # {})
PopAsked(st) ==
  /\ st.asked \subseteq st.token \cap st.obj
  /\ st.asked \cap st.init \subseteq st.idle
PopSound(st) == /\ st \in PopShape /\ PopGrab(st) /\ PopAsked(st)
                /\ \A s \in st.obj : Standing(st, s)
PopInv == PopSound(pop)

-----------------------------------------------------------------------------
LEMMA PopStarts == PopInit => PopInv
<1> SUFFICES ASSUME PopInit PROVE PopInv
  OBVIOUS
<1>1. pop \in PopShape
  BY DEF PopInit, PopShape
<1>2. PopGrab(pop) /\ PopAsked(pop) /\ pop.obj = {}
  BY DEF PopInit, PopGrab, PopAsked
<1> QED
  BY <1>1, <1>2 DEF PopInv, PopSound

(* Popups that leave the grab. *)
LEMMA ResetPopups ==
  ASSUME NEW st \in PopShape, NEW ps \in SUBSET PopSurface,
         ~st.torn => (st.grabs # {} => st.list # {})
  PROVE  LET n == reset_xdg_popup(st, ps) IN
         /\ n \in PopShape /\ n.torn = st.torn
         /\ ~n.torn => n.list = st.list \ ps /\ (n.grabs # {} => n.list # {})
         /\ n.res = st.res /\ n.obj = st.obj /\ n.parent = st.parent /\ n.init = st.init
         /\ n.conf = st.conf /\ n.mapped = st.mapped /\ n.idle = st.idle /\ n.token = st.token
         /\ n.asked = st.asked /\ n.flight = st.flight /\ n.root = st.root /\ n.client = st.client
<1>1. CASE st.torn \/ ps \cap st.list = {}
  <2>1. reset_xdg_popup(st, ps) = st
    BY <1>1 DEF reset_xdg_popup
  <2>2. ~st.torn => st.list \ ps = st.list
    BY <1>1
  <2> QED
    BY <2>1, <2>2
<1>2. CASE ~(st.torn \/ ps \cap st.list = {})
  <2> DEFINE g == IF st.list \subseteq ps THEN {} ELSE st.grabs
             l == st.list \ ps
             n == [st EXCEPT !.list = l, !.grabs = g]
  <2>1. reset_xdg_popup(st, ps) = n
    BY <1>2 DEF reset_xdg_popup, PopShape
  <2>2. g \in SUBSET GrabKinds /\ l \in SUBSET PopSurface /\ (g # {} => l # {})
    BY DEF PopShape
  <2> HIDE DEF g, l
  <2>3. n \in PopShape /\ n.list = l /\ n.grabs = g /\ n.torn = st.torn
    BY <2>2 DEF PopShape
  <2>4. /\ n.res = st.res /\ n.obj = st.obj /\ n.parent = st.parent /\ n.init = st.init
        /\ n.conf = st.conf /\ n.mapped = st.mapped /\ n.idle = st.idle /\ n.token = st.token
        /\ n.asked = st.asked /\ n.flight = st.flight /\ n.root = st.root /\ n.client = st.client
    BY DEF PopShape
  <2> HIDE DEF n
  <2> QED
    BY <2>1, <2>2, <2>3, <2>4 DEF l
<1> QED
  BY <1>1, <1>2

Destroyed(st, ps, d) ==
  /\ d \in PopShape /\ PopGrab(d) /\ PopAsked(d)
  /\ d.obj = st.obj \ ps /\ \A s \in d.obj : d.parent[s] = st.parent[s]
  /\ d.res = st.res /\ d.root = st.root /\ d.client = st.client
  /\ d.mapped = st.mapped \ ps /\ d.init = st.init /\ d.idle = st.idle
  /\ d.conf = st.conf /\ d.flight = st.flight

(* Popups that are destroyed. *)
LEMMA DestroyPopups ==
  ASSUME NEW st \in PopShape, PopGrab(st), PopAsked(st), NEW ps \in SUBSET PopSurface
  PROVE  Destroyed(st, ps, destroy_xdg_popup(st, ps))
<1> DEFINE u == [st EXCEPT !.mapped = @ \ ps]
           n == reset_xdg_popup(u, ps)
           f == [s \in PopSurface |-> IF s \in ps THEN NoPop ELSE n.parent[s]]
           o == n.obj \ ps
           t == n.token \ ps
           a == n.asked \ ps
           d == [n EXCEPT !.obj = o, !.parent = f, !.token = t, !.asked = a]
<1>1. /\ u \in PopShape /\ u.mapped = st.mapped \ ps /\ u.list = st.list /\ u.torn = st.torn /\ u.grabs = st.grabs
      /\ u.res = st.res /\ u.obj = st.obj /\ u.parent = st.parent /\ u.init = st.init
      /\ u.conf = st.conf /\ u.idle = st.idle /\ u.token = st.token
      /\ u.asked = st.asked /\ u.flight = st.flight /\ u.root = st.root /\ u.client = st.client
  BY DEF PopShape
<1>2. ~u.torn => (u.grabs # {} => u.list # {})
  BY <1>1 DEF PopGrab
<1> HIDE DEF u
<1>3. /\ n \in PopShape /\ n.torn = u.torn
      /\ ~n.torn => n.list = u.list \ ps /\ (n.grabs # {} => n.list # {})
      /\ n.res = u.res /\ n.obj = u.obj /\ n.parent = u.parent /\ n.init = u.init
      /\ n.conf = u.conf /\ n.mapped = u.mapped /\ n.idle = u.idle /\ n.token = u.token
      /\ n.asked = u.asked /\ n.flight = u.flight /\ n.root = u.root /\ n.client = u.client
  BY <1>1, <1>2, ResetPopups
<1>4. destroy_xdg_popup(st, ps) = d
  <2>1. destroy_xdg_popup(st, ps) =
          [n EXCEPT !.obj = @ \ ps, !.parent = [s \in PopSurface |-> IF s \in ps THEN NoPop ELSE @[s]],
                    !.token = @ \ ps, !.asked = @ \ ps]
    BY DEF destroy_xdg_popup, u
  <2> HIDE DEF n
  <2> QED
    BY <2>1, <1>3 DEF PopShape
<1> HIDE DEF n
<1>5. /\ f \in [PopSurface -> PopSurface \cup {PopRoot, NoPop}]
      /\ \A s \in PopSurface \ ps : f[s] = n.parent[s]
      /\ o \in SUBSET PopSurface /\ t \in SUBSET PopSurface /\ a \in SUBSET PopSurface
  BY <1>3 DEF PopShape
<1> HIDE DEF f
<1>6. o = st.obj \ ps /\ t = st.token \ ps /\ a = st.asked \ ps
  BY <1>1, <1>3
<1> HIDE DEF o, t, a
<1>7. /\ d \in PopShape /\ d.obj = o /\ d.parent = f /\ d.token = t /\ d.asked = a
      /\ d.list = n.list /\ d.torn = n.torn /\ d.grabs = n.grabs /\ d.mapped = n.mapped
      /\ d.res = n.res /\ d.init = n.init /\ d.conf = n.conf /\ d.idle = n.idle
      /\ d.flight = n.flight /\ d.root = n.root /\ d.client = n.client
  BY <1>3, <1>5 DEF PopShape
<1> HIDE DEF d
<1>8. PopGrab(d)
  BY <1>1, <1>3, <1>6, <1>7 DEF PopGrab
<1>9. PopAsked(d)
  BY <1>1, <1>3, <1>6, <1>7 DEF PopAsked
<1>10. \A s \in d.obj : d.parent[s] = st.parent[s]
  BY <1>1, <1>3, <1>5, <1>6, <1>7 DEF PopShape
<1> QED
  BY <1>1, <1>3, <1>4, <1>6, <1>7, <1>8, <1>9, <1>10 DEF Destroyed

LEMMA BelowItself == \A st, s : s \in Below(st, s)
BY DEF Below

(* What a surface that is reset leaves: none of the popups on it.           *)
WithoutPopups(st, s, r) ==
  /\ r \in PopShape /\ PopGrab(r) /\ PopAsked(r)
  /\ r.obj \subseteq st.obj /\ \A c \in r.obj : r.parent[c] = st.parent[c] /\ r.parent[c] # s
  /\ r.res = st.res /\ r.root = st.root /\ r.client = st.client
  /\ r.mapped \subseteq st.mapped

LEMMA ResetSurface ==
  ASSUME NEW st \in PopShape, PopGrab(st), PopAsked(st), NEW s
  PROVE  WithoutPopups(st, s, reset_xdg_surface(st, s))
<1> DEFINE kids == Children(st, s)
           all == UNION {Below(st, c) : c \in kids}
           ps == all \cap PopSurface
           d == destroy_xdg_popup(st, all)
           r == [d EXCEPT !.init = d.init \ {s}, !.conf = d.conf \ {s}, !.idle = d.idle \ {s},
                          !.flight = d.flight \ {s}]
<1>1. kids \subseteq all /\ kids \subseteq st.obj
  BY BelowItself DEF Children
<1>2. all \in SUBSET PopSurface
  <2>1. \A c \in kids : Below(st, c) \subseteq PopSurface
    BY <1>1 DEF Below, PopShape
  <2> QED
    BY <2>1
<1> HIDE DEF all, kids
<1>3. Destroyed(st, all, d)
  BY <1>2, DestroyPopups
<1>4. reset_xdg_surface(st, s) = r
  <2>1. reset_xdg_surface(st, s) = [d EXCEPT !.init = @ \ {s}, !.conf = @ \ {s}, !.idle = @ \ {s},
                                             !.flight = @ \ {s}]
    BY DEF reset_xdg_surface, all, kids
  <2> HIDE DEF d
  <2> QED
    BY <1>3, <2>1 DEF Destroyed, PopShape
<1> HIDE DEF d
<1>5. /\ r \in PopShape /\ r.obj = d.obj /\ r.parent = d.parent /\ r.res = d.res /\ r.root = d.root
      /\ r.client = d.client /\ r.mapped = d.mapped /\ r.list = d.list /\ r.torn = d.torn /\ r.grabs = d.grabs
      /\ r.asked = d.asked /\ r.token = d.token /\ r.init = d.init \ {s} /\ r.idle = d.idle \ {s}
  BY <1>3 DEF Destroyed, PopShape
<1> HIDE DEF r
<1>6. PopGrab(r) /\ PopAsked(r)
  BY <1>3, <1>5 DEF Destroyed, PopGrab, PopAsked
<1>7. \A c \in r.obj : c \in st.obj /\ r.parent[c] = st.parent[c] /\ c \notin kids
  BY <1>1, <1>3, <1>5 DEF Destroyed
<1>8. \A c \in r.obj : r.parent[c] # s
  BY <1>7 DEF kids, Children
<1> QED
  BY <1>3, <1>4, <1>5, <1>6, <1>7, <1>8 DEF Destroyed, WithoutPopups

LEMMA PopCreate ==
  ASSUME PopInv, NEW s \in PopSurface, NEW p \in PopSurface \cup {PopRoot}, create_xdg_popup(s, p)
  PROVE  PopInv'
<1> DEFINE f == [pop.parent EXCEPT ![s] = p]
           o == pop.obj \cup {s}
           r == pop.res \cup {s}
<1>0. pop \in PopShape
  BY DEF PopInv, PopSound
<1>1. pop' = [pop EXCEPT !.res = r, !.obj = o, !.parent = f]
      /\ p \in pop.res \cup (IF pop.root THEN {PopRoot} ELSE {})
  BY <1>0 DEF create_xdg_popup, PopShape
<1>2. /\ f \in [PopSurface -> PopSurface \cup {PopRoot, NoPop}] /\ f[s] = p
      /\ \A t \in PopSurface \ {s} : f[t] = pop.parent[t]
      /\ o \in SUBSET PopSurface /\ r \in SUBSET PopSurface
  BY <1>0 DEF PopShape
<1> HIDE DEF f
<1>3. /\ pop' \in PopShape /\ pop'.res = r /\ pop'.obj = o /\ pop'.parent = f
      /\ pop'.root = pop.root /\ pop'.mapped = pop.mapped /\ pop'.list = pop.list /\ pop'.torn = pop.torn
      /\ pop'.grabs = pop.grabs /\ pop'.asked = pop.asked /\ pop'.token = pop.token
      /\ pop'.init = pop.init /\ pop'.idle = pop.idle
  <2> HIDE DEF o, r
  <2> QED
    BY <1>0, <1>1, <1>2 DEF PopShape
<1>4. PopGrab(pop')
  BY <1>3 DEF PopInv, PopSound, PopGrab
<1>5. PopAsked(pop')
  BY <1>3 DEF PopInv, PopSound, PopAsked
<1>6. \A t \in o : Standing(pop', t)
  <2> SUFFICES ASSUME NEW t \in o PROVE f[t] \in r \cup (IF pop.root THEN {PopRoot} ELSE {})
    BY <1>3 DEF Standing
  <2>1. CASE t = s
    BY <1>1, <1>2, <2>1
  <2>2. CASE t # s
    BY <1>0, <1>2, <2>2 DEF PopInv, PopSound, Standing, PopShape
  <2> QED
    BY <2>1, <2>2
<1> QED
  BY <1>3, <1>4, <1>5, <1>6 DEF PopInv, PopSound

(* Steps that create and destroy nothing. *)
LEMMA PopStays ==
  ASSUME PopInv, pop' \in PopShape, PopGrab(pop'), PopAsked(pop'),
         pop'.obj = pop.obj, pop'.parent = pop.parent, pop'.res = pop.res, pop'.root = pop.root
  PROVE  PopInv'
BY DEF PopInv, PopSound, Standing

LEMMA PopCommitInitial ==
  ASSUME PopInv, NEW s \in PopSurface, CommitInitial(s) PROVE PopInv'
<1> DEFINE i == pop.init \cup {s}
           d == IF s \in pop.obj THEN pop.idle \cup {s} ELSE pop.idle
<1>0. pop \in PopShape /\ PopGrab(pop) /\ PopAsked(pop)
  BY DEF PopInv, PopSound
<1>1. pop' = [pop EXCEPT !.init = i, !.idle = d]
  BY <1>0 DEF CommitInitial, PopShape
<1>2. i \in SUBSET PopSurface /\ d \in SUBSET PopSurface
  BY <1>0 DEF PopShape
<1>3. pop.asked \cap i \subseteq d
  BY <1>0 DEF PopAsked
<1> HIDE DEF i, d
<1>4. /\ pop' \in PopShape /\ pop'.init = i /\ pop'.idle = d
      /\ pop'.obj = pop.obj /\ pop'.parent = pop.parent /\ pop'.res = pop.res /\ pop'.root = pop.root
      /\ pop'.mapped = pop.mapped /\ pop'.list = pop.list /\ pop'.torn = pop.torn /\ pop'.grabs = pop.grabs
      /\ pop'.asked = pop.asked /\ pop'.token = pop.token
  BY <1>0, <1>1, <1>2 DEF PopShape
<1>5. PopGrab(pop') /\ PopAsked(pop')
  BY <1>0, <1>3, <1>4 DEF PopGrab, PopAsked
<1> QED
  BY <1>4, <1>5, PopStays

LEMMA PopCommitBuffer ==
  ASSUME PopInv, NEW s \in PopSurface, CommitBuffer(s) PROVE PopInv'
<1> DEFINE m == pop.mapped \cup {s}
<1>0. pop \in PopShape /\ PopGrab(pop) /\ PopAsked(pop)
  BY DEF PopInv, PopSound
<1>1. pop' = [pop EXCEPT !.mapped = m] /\ s \in pop.obj
  BY <1>0 DEF CommitBuffer, PopShape
<1>2. m \in SUBSET PopSurface /\ m \subseteq pop.obj
  BY <1>0, <1>1 DEF PopShape, PopGrab
<1> HIDE DEF m
<1>4. /\ pop' \in PopShape /\ pop'.mapped = m
      /\ pop'.obj = pop.obj /\ pop'.parent = pop.parent /\ pop'.res = pop.res /\ pop'.root = pop.root
      /\ pop'.init = pop.init /\ pop'.list = pop.list /\ pop'.torn = pop.torn /\ pop'.grabs = pop.grabs
      /\ pop'.asked = pop.asked /\ pop'.token = pop.token /\ pop'.idle = pop.idle
  BY <1>0, <1>1, <1>2 DEF PopShape
<1>5. PopGrab(pop') /\ PopAsked(pop')
  BY <1>0, <1>2, <1>4 DEF PopGrab, PopAsked
<1> QED
  BY <1>4, <1>5, PopStays

LEMMA PopTakeGrab ==
  ASSUME PopInv, NEW s \in PopSurface, xdg_popup_handle_grab(s) PROVE PopInv'
<1> DEFINE l == pop.list \cup {s}
           b == pop.torn \/ s \in pop.list
<1>0. pop \in PopShape /\ PopGrab(pop) /\ PopAsked(pop)
  BY DEF PopInv, PopSound
<1>1. pop' = [pop EXCEPT !.list = l, !.grabs = GrabKinds, !.torn = b] /\ s \in pop.obj
  BY <1>0 DEF xdg_popup_handle_grab, PopShape
<1>2. l \in SUBSET PopSurface /\ (~b => l \subseteq pop.obj) /\ l # {} /\ b \in BOOLEAN
  BY <1>0, <1>1 DEF PopShape, PopGrab
<1> HIDE DEF l, b
<1>4. /\ pop' \in PopShape /\ pop'.list = l /\ pop'.grabs = GrabKinds /\ pop'.torn = b
      /\ pop'.obj = pop.obj /\ pop'.parent = pop.parent /\ pop'.res = pop.res /\ pop'.root = pop.root
      /\ pop'.init = pop.init /\ pop'.mapped = pop.mapped
      /\ pop'.asked = pop.asked /\ pop'.token = pop.token /\ pop'.idle = pop.idle
  BY <1>0, <1>1, <1>2 DEF PopShape
<1>5. PopGrab(pop') /\ PopAsked(pop')
  BY <1>0, <1>2, <1>4 DEF PopGrab, PopAsked
<1> QED
  BY <1>4, <1>5, PopStays

LEMMA PopReposition ==
  ASSUME PopInv, NEW s \in PopSurface, xdg_popup_handle_reposition(s) PROVE PopInv'
<1> DEFINE t == pop.token \cup {s}
           a == pop.asked \cup {s}
           d == pop.idle \cup {s}
<1>0. pop \in PopShape /\ PopGrab(pop) /\ PopAsked(pop)
  BY DEF PopInv, PopSound
<1>1. pop' = [pop EXCEPT !.token = t, !.asked = a, !.idle = d] /\ s \in pop.obj
  BY <1>0 DEF xdg_popup_handle_reposition, PopShape
<1>2. t \in SUBSET PopSurface /\ a \in SUBSET PopSurface /\ d \in SUBSET PopSurface
  BY <1>0 DEF PopShape
<1>3. a \subseteq t \cap pop.obj /\ a \cap pop.init \subseteq d
  BY <1>0, <1>1 DEF PopAsked
<1> HIDE DEF t, a, d
<1>4. /\ pop' \in PopShape /\ pop'.token = t /\ pop'.asked = a /\ pop'.idle = d
      /\ pop'.obj = pop.obj /\ pop'.parent = pop.parent /\ pop'.res = pop.res /\ pop'.root = pop.root
      /\ pop'.init = pop.init /\ pop'.mapped = pop.mapped /\ pop'.list = pop.list /\ pop'.torn = pop.torn
      /\ pop'.grabs = pop.grabs
  BY <1>0, <1>1, <1>2 DEF PopShape
<1>5. PopGrab(pop') /\ PopAsked(pop')
  BY <1>0, <1>3, <1>4 DEF PopGrab, PopAsked
<1> QED
  BY <1>4, <1>5, PopStays

LEMMA PopConfigure ==
  ASSUME PopInv, NEW s \in PopSurface, send_xdg_popup_configure(s) PROVE PopInv'
<1> DEFINE t == pop.token \ {s}
           a == pop.asked \ (pop.token \cap {s})
           d == pop.idle \ {s}
           f == pop.flight \cup {s}
<1>0. pop \in PopShape /\ PopGrab(pop) /\ PopAsked(pop)
  BY DEF PopInv, PopSound
<1>1. pop' = [pop EXCEPT !.idle = d, !.flight = f, !.token = t, !.asked = a]
  BY <1>0 DEF send_xdg_popup_configure, PopShape
<1>2. /\ t \in SUBSET PopSurface /\ a \in SUBSET PopSurface /\ d \in SUBSET PopSurface
      /\ f \in SUBSET PopSurface
  BY <1>0 DEF PopShape
<1>3. a \subseteq t \cap pop.obj /\ a \cap pop.init \subseteq d
  BY <1>0 DEF PopAsked
<1> HIDE DEF t, a, d, f
<1>4. /\ pop' \in PopShape /\ pop'.token = t /\ pop'.asked = a /\ pop'.idle = d
      /\ pop'.obj = pop.obj /\ pop'.parent = pop.parent /\ pop'.res = pop.res /\ pop'.root = pop.root
      /\ pop'.init = pop.init /\ pop'.mapped = pop.mapped /\ pop'.list = pop.list /\ pop'.torn = pop.torn
      /\ pop'.grabs = pop.grabs
  BY <1>0, <1>1, <1>2 DEF PopShape
<1>5. PopGrab(pop') /\ PopAsked(pop')
  BY <1>0, <1>3, <1>4 DEF PopGrab, PopAsked
<1> QED
  BY <1>4, <1>5, PopStays

(* Acknowledged and scheduled configures. *)
LEMMA PopQuiet ==
  ASSUME PopInv, NEW s \in PopSurface,
         \/ handle_xdg_popup_ack_configure(s) \/ wlr_xdg_surface_schedule_configure(s)
  PROVE  PopInv'
<1>0. pop \in PopShape /\ PopGrab(pop) /\ PopAsked(pop)
  BY DEF PopInv, PopSound
<1> DEFINE f == pop.flight \ {s}
           c == pop.conf \cup {s}
           d == pop.idle \cup {s}
<1>1. f \in SUBSET PopSurface /\ c \in SUBSET PopSurface /\ d \in SUBSET PopSurface
      /\ pop.idle \subseteq d
  BY <1>0 DEF PopShape
<1>2. \/ pop' = [pop EXCEPT !.flight = f, !.conf = c]
      \/ pop' = [pop EXCEPT !.idle = d]
  BY <1>0 DEF handle_xdg_popup_ack_configure, wlr_xdg_surface_schedule_configure, PopShape
<1> HIDE DEF f, c, d
<1> DEFINE Fine == /\ pop' \in PopShape /\ pop.idle \subseteq pop'.idle
      /\ pop'.obj = pop.obj /\ pop'.parent = pop.parent /\ pop'.res = pop.res /\ pop'.root = pop.root
      /\ pop'.init = pop.init /\ pop'.mapped = pop.mapped /\ pop'.list = pop.list /\ pop'.torn = pop.torn
      /\ pop'.grabs = pop.grabs /\ pop'.asked = pop.asked /\ pop'.token = pop.token
<1>3. CASE pop' = [pop EXCEPT !.flight = f, !.conf = c]
  <2>1. Fine
    BY <1>0, <1>1, <1>3 DEF PopShape
  <2> QED
    BY <1>0, <2>1, PopStays DEF PopGrab, PopAsked
<1>4. CASE pop' = [pop EXCEPT !.idle = d]
  <2>1. Fine
    BY <1>0, <1>1, <1>4 DEF PopShape
  <2> QED
    BY <1>0, <2>1, PopStays DEF PopGrab, PopAsked
<1> QED
  BY <1>2, <1>3, <1>4

LEMMA PopGrabEnds ==
  ASSUME PopInv, ClickOutside \/ StartOtherGrab PROVE PopInv'
<1>0. pop \in PopShape /\ PopGrab(pop) /\ PopAsked(pop)
  BY DEF PopInv, PopSound
<1>1. pop' = [pop EXCEPT !.grabs = {}]
  BY DEF ClickOutside, StartOtherGrab, xdg_popup_grab_end
<1>4. /\ pop' \in PopShape /\ pop'.grabs = {}
      /\ pop'.obj = pop.obj /\ pop'.parent = pop.parent /\ pop'.res = pop.res /\ pop'.root = pop.root
      /\ pop'.init = pop.init /\ pop'.mapped = pop.mapped /\ pop'.list = pop.list /\ pop'.torn = pop.torn
      /\ pop'.idle = pop.idle /\ pop'.asked = pop.asked /\ pop'.token = pop.token
  BY <1>0, <1>1 DEF PopShape
<1>5. PopGrab(pop') /\ PopAsked(pop')
  BY <1>0, <1>4 DEF PopGrab, PopAsked
<1> QED
  BY <1>4, <1>5, PopStays

LEMMA PopCommitNull ==
  ASSUME PopInv, NEW s \in PopSurface, CommitNull(s) PROVE PopInv'
<1> DEFINE m == pop.mapped \ {s}
           u == [pop EXCEPT !.mapped = m]
           n == reset_xdg_popup(u, {s})
           r == reset_xdg_surface(n, s)
<1>0. pop \in PopShape /\ PopGrab(pop) /\ PopAsked(pop)
  BY DEF PopInv, PopSound
<1>1. pop' = r
  BY <1>0 DEF CommitNull, PopShape
<1>2. m \in SUBSET PopSurface /\ m \subseteq pop.obj
  BY <1>0 DEF PopShape, PopGrab
<1> HIDE DEF m
<1>3. /\ u \in PopShape /\ u.mapped = m /\ u.list = pop.list /\ u.torn = pop.torn /\ u.grabs = pop.grabs
      /\ u.res = pop.res /\ u.obj = pop.obj /\ u.parent = pop.parent /\ u.init = pop.init
      /\ u.idle = pop.idle /\ u.token = pop.token /\ u.asked = pop.asked /\ u.root = pop.root
  BY <1>0, <1>2 DEF PopShape
<1> HIDE DEF u
<1>4. ~u.torn => (u.grabs # {} => u.list # {})
  BY <1>0, <1>3 DEF PopGrab
<1>5. /\ n \in PopShape /\ n.torn = u.torn
      /\ ~n.torn => n.list = u.list \ {s} /\ (n.grabs # {} => n.list # {})
      /\ n.res = u.res /\ n.obj = u.obj /\ n.parent = u.parent /\ n.init = u.init
      /\ n.mapped = u.mapped /\ n.idle = u.idle /\ n.token = u.token
      /\ n.asked = u.asked /\ n.root = u.root
  BY <1>3, <1>4, ResetPopups
<1> HIDE DEF n
<1>6. PopGrab(n) /\ PopAsked(n)
  BY <1>0, <1>2, <1>3, <1>5 DEF PopGrab, PopAsked
<1>7. WithoutPopups(n, s, r)
  BY <1>5, <1>6, ResetSurface
<1> HIDE DEF r
<1>8. \A c \in r.obj : c \in pop.obj /\ r.parent[c] = pop.parent[c] /\ r.res = pop.res /\ r.root = pop.root
  BY <1>3, <1>5, <1>7 DEF WithoutPopups
<1> QED
  BY <1>1, <1>7, <1>8 DEF WithoutPopups, PopInv, PopSound, Standing

LEMMA PopDismiss ==
  ASSUME PopInv, NEW s \in PopSurface, Dismiss(s) PROVE PopInv'
<1> DEFINE ps == Below(pop, s) \cap pop.obj
           d == destroy_xdg_popup(pop, ps)
<1>0. pop \in PopShape /\ PopGrab(pop) /\ PopAsked(pop)
  BY DEF PopInv, PopSound
<1>1. pop' = d /\ ps \in SUBSET PopSurface
  BY <1>0 DEF Dismiss, wlr_xdg_popup_destroy, PopShape
<1> HIDE DEF ps
<1>2. Destroyed(pop, ps, d)
  BY <1>0, <1>1, DestroyPopups
<1> HIDE DEF d
<1> QED
  BY <1>1, <1>2 DEF Destroyed, PopInv, PopSound, Standing

LEMMA PopResetRoot ==
  ASSUME PopInv, ResetRoot PROVE PopInv'
<1> DEFINE r == reset_xdg_surface(pop, PopRoot)
<1>0. pop \in PopShape /\ PopGrab(pop) /\ PopAsked(pop)
  BY DEF PopInv, PopSound
<1>1. pop' = [r EXCEPT !.root = pop.client]
  BY DEF ResetRoot
<1>2. WithoutPopups(pop, PopRoot, r)
  BY <1>0, ResetSurface
<1> HIDE DEF r
<1>3. r \in PopShape /\ PopGrab(r) /\ PopAsked(r) /\ r.res = pop.res
  BY <1>2 DEF WithoutPopups
<1>4. pop.client \in BOOLEAN
  BY <1>0 DEF PopShape
<1>5. /\ pop' \in PopShape /\ pop'.obj = r.obj /\ pop'.parent = r.parent /\ pop'.res = r.res
      /\ pop'.mapped = r.mapped /\ pop'.list = r.list /\ pop'.torn = r.torn /\ pop'.grabs = r.grabs
      /\ pop'.asked = r.asked /\ pop'.token = r.token /\ pop'.init = r.init /\ pop'.idle = r.idle
  BY <1>1, <1>3, <1>4 DEF PopShape
<1>6. PopGrab(pop') /\ PopAsked(pop')
  BY <1>3, <1>5 DEF PopGrab, PopAsked
<1>7. \A c \in r.obj : c \in pop.obj /\ r.parent[c] = pop.parent[c] /\ r.parent[c] # PopRoot
  BY <1>2 DEF WithoutPopups
<1>8. \A c \in r.obj : r.parent[c] \in r.res
  BY <1>3, <1>7 DEF PopInv, PopSound, Standing
<1> QED
  BY <1>5, <1>6, <1>8 DEF PopInv, PopSound, Standing

LEMMA PopDestroy ==
  ASSUME PopInv, NEW s \in PopSurface, xdg_popup_handle_destroy(s) PROVE PopInv'
<1> DEFINE d == IF s \in pop.obj THEN destroy_xdg_popup(pop, {s}) ELSE pop
           r == reset_xdg_surface(d, s)
           w == r.res \ {s}
<1>0. pop \in PopShape /\ PopGrab(pop) /\ PopAsked(pop)
  BY DEF PopInv, PopSound
<1>1. pop' = [r EXCEPT !.res = @ \ {s}]
  BY DEF xdg_popup_handle_destroy
<1>2. /\ d \in PopShape /\ PopGrab(d) /\ PopAsked(d) /\ d.res = pop.res /\ d.root = pop.root
      /\ d.obj \subseteq pop.obj /\ \A c \in d.obj : d.parent[c] = pop.parent[c]
  <2>1. CASE s \in pop.obj
    <3> DEFINE e == destroy_xdg_popup(pop, {s})
    <3>1. Destroyed(pop, {s}, e)
      BY <1>0, DestroyPopups
    <3> HIDE DEF e
    <3>2. d = e
      BY <2>1 DEF e
    <3> QED
      BY <3>1, <3>2 DEF Destroyed
  <2>2. CASE s \notin pop.obj
    BY <1>0, <2>2
  <2> QED
    BY <2>1, <2>2
<1> HIDE DEF d
<1>3. WithoutPopups(d, s, r)
  BY <1>2, ResetSurface
<1> HIDE DEF r
<1>4. /\ r \in PopShape /\ PopGrab(r) /\ PopAsked(r) /\ r.res = pop.res /\ r.root = pop.root
      /\ \A c \in r.obj : c \in pop.obj /\ r.parent[c] = pop.parent[c] /\ r.parent[c] # s
  BY <1>2, <1>3 DEF WithoutPopups
<1>5. pop' = [r EXCEPT !.res = w] /\ w \in SUBSET PopSurface
  BY <1>1, <1>4 DEF PopShape
<1>6. w = pop.res \ {s}
  BY <1>4
<1> HIDE DEF w
<1>7. /\ pop' \in PopShape /\ pop'.obj = r.obj /\ pop'.parent = r.parent /\ pop'.res = w
      /\ pop'.mapped = r.mapped /\ pop'.list = r.list /\ pop'.torn = r.torn /\ pop'.grabs = r.grabs /\ pop'.root = r.root
      /\ pop'.asked = r.asked /\ pop'.token = r.token /\ pop'.init = r.init /\ pop'.idle = r.idle
  BY <1>4, <1>5 DEF PopShape
<1>8. PopGrab(pop') /\ PopAsked(pop')
  BY <1>4, <1>7 DEF PopGrab, PopAsked
<1>9. \A c \in r.obj : r.parent[c] \in w \cup (IF pop.root THEN {PopRoot} ELSE {})
  BY <1>4, <1>6 DEF PopInv, PopSound, Standing
<1> QED
  BY <1>4, <1>7, <1>8, <1>9 DEF PopInv, PopSound, Standing

LEMMA PopKept == PopInv /\ [PopNext]_pop => PopInv'
<1> SUFFICES ASSUME PopInv, [PopNext]_pop PROVE PopInv'
  OBVIOUS
<1>1. CASE UNCHANGED pop
  BY <1>1 DEF PopInv, PopSound, PopGrab, PopAsked, Standing
<1>2. ASSUME NEW s \in PopSurface,
             \/ \E p \in PopSurface \cup {PopRoot} : create_xdg_popup(s, p)
             \/ xdg_surface_role_commit(s)
             \/ xdg_popup_handle_grab(s)
             \/ xdg_popup_handle_reposition(s)
             \/ send_xdg_popup_configure(s)
             \/ handle_xdg_popup_ack_configure(s)
             \/ xdg_popup_handle_destroy(s)
             \/ Dismiss(s)
             \/ wlr_xdg_surface_schedule_configure(s)
      PROVE  PopInv'
  BY <1>2, PopCreate, PopCommitInitial, PopCommitBuffer, PopCommitNull, PopTakeGrab, PopReposition,
     PopConfigure, PopQuiet, PopDestroy, PopDismiss DEF xdg_surface_role_commit
<1>3. CASE Disconnect
  <2>0. pop \in PopShape /\ PopGrab(pop) /\ PopAsked(pop)
    BY DEF PopInv, PopSound
  <2>1. pop' = [pop EXCEPT !.client = FALSE]
    BY <1>3 DEF Disconnect
  <2>2. /\ pop' \in PopShape /\ pop'.idle = pop.idle
        /\ pop'.obj = pop.obj /\ pop'.parent = pop.parent /\ pop'.res = pop.res /\ pop'.root = pop.root
        /\ pop'.init = pop.init /\ pop'.mapped = pop.mapped /\ pop'.list = pop.list /\ pop'.torn = pop.torn
        /\ pop'.grabs = pop.grabs /\ pop'.asked = pop.asked /\ pop'.token = pop.token
    BY <2>0, <2>1 DEF PopShape
  <2> QED
    BY <2>0, <2>2, PopStays DEF PopGrab, PopAsked
<1> QED
  BY <1>1, <1>2, <1>3, PopResetRoot, PopGrabEnds DEF PopNext

LEMMA PopMeans == PopInv => PopTypeOK /\ PopupsOwned /\ RepositionAnswered
BY DEF PopInv, PopSound, PopTypeOK, PopupsOwned, RepositionAnswered, PopGrab, PopAsked, Standing

(* Popups go with what they stand on (wlr_xdg_popup.c, wlr_xdg_surface.c):  *)
(* whatever the order in which a client creates, grabs, unmaps and destroys *)
(* popups on popups, and the compositor dismisses them, no popup object     *)
(* outlives the surface below it, and a client that asked for a new         *)
(* position has the configure with the repositioned event on its way; the   *)
(* shell's grabs of the seat never outlive their last popup as long as no   *)
(* client asked for the grab of one popup twice, which corrupts the list.   *)
THEOREM PopupsStand == PopSpec => [](PopTypeOK /\ PopupsOwned /\ RepositionAnswered)
<1>1. PopInit => PopInv
  BY PopStarts
<1>2. PopInv /\ [PopNext]_pop => PopInv'
  BY PopKept
<1>3. PopInv => PopTypeOK /\ PopupsOwned /\ RepositionAnswered
  BY PopMeans
<1> QED
  BY <1>1, <1>2, <1>3, PTL DEF PopSpec

-----------------------------------------------------------------------------
(***************************************************************************)
(* The positioner.                                                         *)
(***************************************************************************)

(* Boxes and offsets on both axes, measured against the area. *)
PlaceBox == [pos : Int, len : Int]
PlaceRules(rules) == rules \in [Axes -> Rules]
Measured(st) == /\ st.box \in [Axes -> PlaceBox]
                /\ st.offs = [a \in Axes |-> get_constrained_box_offsets(st.box[a])]

LEMMA GeometryLength ==
  ASSUME NEW r \in Rules
  PROVE  /\ wlr_xdg_positioner_rules_get_geometry(r) \in PlaceBox
         /\ wlr_xdg_positioner_rules_get_geometry(r).len = r.len /\ r.len \in Int /\ r.len > 0
<1> DEFINE at == r.rect.pos + (CASE r.anchor = -1 -> 0 [] r.anchor = 1 -> r.rect.len
                                 [] OTHER -> r.rect.len \div 2)
           back == CASE r.gravity = -1 -> r.len [] r.gravity = 1 -> 0 [] OTHER -> r.len \div 2
<1>1. r.rect.pos \in Int /\ r.rect.len \in Int /\ r.len \in Int /\ r.len > 0
  <2>1. r.rect \in [pos : AnchorPos, len : RectLen] /\ r.len \in PopupLen
    BY DEF Rules
  <2>2. r.rect.pos \in AnchorPos /\ r.rect.len \in RectLen
    BY <2>1
  <2>3. r.rect.pos \in Int
    BY <2>2, PositionerAssumption
  <2>4. r.rect.len \in Nat \ {0} /\ r.len \in Nat \ {0}
    BY <2>1, <2>2, PositionerAssumption, Zenon
  <2> QED
    BY <2>3, <2>4
<1>2. r.rect.len \div 2 \in Int /\ r.len \div 2 \in Int
  BY <1>1
<1>3. at \in Int /\ back \in Int
  BY <1>1, <1>2
<1>4. wlr_xdg_positioner_rules_get_geometry(r) = [pos |-> at - back, len |-> r.len]
  BY DEF wlr_xdg_positioner_rules_get_geometry
<1> HIDE DEF at, back
<1> QED
  BY <1>1, <1>3, <1>4 DEF PlaceBox

LEMMA InvertedRules == \A r \in Rules : xdg_positioner_anchor_invert(r) \in Rules
<1> SUFFICES ASSUME NEW r \in Rules PROVE xdg_positioner_anchor_invert(r) \in Rules
  OBVIOUS
<1> DEFINE a == -r.anchor
           g == -r.gravity
<1>1. r.anchor \in Sides /\ r.gravity \in Sides
  BY DEF Rules
<1>2. a \in Sides /\ g \in Sides
  BY <1>1 DEF Sides
<1>3. xdg_positioner_anchor_invert(r) = [r EXCEPT !.anchor = a, !.gravity = g]
  BY DEF xdg_positioner_anchor_invert
<1> HIDE DEF a, g
<1> QED
  BY <1>2, <1>3 DEF Rules

LEMMA FreeInside ==
  ASSUME NEW b \in PlaceBox
  PROVE  /\ AxisFree(get_constrained_box_offsets(b)) <=> Inside(b)
         /\ get_constrained_box_offsets(b) = [lo |-> -b.pos, hi |-> b.pos + b.len - AreaLen]
         /\ get_constrained_box_offsets(b).lo \in Int /\ get_constrained_box_offsets(b).hi \in Int
<1>1. AreaLen \in Int /\ b.pos \in Int /\ b.len \in Int
  BY PositionerAssumption DEF PlaceBox
<1>2. Area.pos = 0 /\ Area.len = AreaLen
  BY DEF Area
<1>3. Area.pos - b.pos = -b.pos /\ b.pos + b.len - Area.pos - Area.len = b.pos + b.len - AreaLen
  BY <1>1, <1>2
<1>4. get_constrained_box_offsets(b) = [lo |-> -b.pos, hi |-> b.pos + b.len - AreaLen]
  BY <1>3 DEF get_constrained_box_offsets
<1> QED
  BY <1>1, <1>2, <1>4 DEF AxisFree, Inside

(* Flipping keeps the length, an axis that may not flip as it is, and a box *)
(* that sticks out nowhere.                                                 *)
Flipped(st, adj, n) ==
  /\ Measured(n)
  /\ is_unconstrained(st.offs) => n = st
  /\ \A a \in Axes : /\ n.box[a].len = st.box[a].len
                     /\ <<"flip", a>> \notin adj => n.box[a] = st.box[a]

LEMMA FlipPlaces ==
  ASSUME NEW rules, NEW adj, NEW st, PlaceRules(rules), Measured(st),
         \A a \in Axes : st.box[a] = wlr_xdg_positioner_rules_get_geometry(rules[a])
  PROVE  Flipped(st, adj, xdg_positioner_rules_unconstrain_by_flip(rules, adj, st))
<1> DEFINE flips == {a \in Axes : /\ (st.offs[a].lo > 0) # (st.offs[a].hi > 0)
                                  /\ <<"flip", a>> \in adj}
           flipped == [a \in Axes |-> wlr_xdg_positioner_rules_get_geometry(
                         IF a \in flips THEN xdg_positioner_anchor_invert(rules[a]) ELSE rules[a])]
           offs == [a \in Axes |-> get_constrained_box_offsets(flipped[a])]
           nb == [a \in Axes |-> IF AxisFree(offs[a]) THEN [st.box[a] EXCEPT !.pos = flipped[a].pos]
                                 ELSE st.box[a]]
           no == [a \in Axes |-> IF AxisFree(offs[a]) THEN offs[a] ELSE st.offs[a]]
           n == xdg_positioner_rules_unconstrain_by_flip(rules, adj, st)
<1>1. n = IF flips = {} THEN st ELSE [box |-> nb, offs |-> no]
  BY DEF xdg_positioner_rules_unconstrain_by_flip
<1>2. \A a \in Axes : /\ flipped[a] \in PlaceBox /\ flipped[a].len = st.box[a].len
                      /\ <<"flip", a>> \notin adj => flipped[a] = st.box[a]
  <2> SUFFICES ASSUME NEW a \in Axes
               PROVE  /\ flipped[a] \in PlaceBox /\ flipped[a].len = st.box[a].len
                      /\ <<"flip", a>> \notin adj => flipped[a] = st.box[a]
    OBVIOUS
  <2> DEFINE i == xdg_positioner_anchor_invert(rules[a])
  <2>1. rules[a] \in Rules /\ i \in Rules /\ i.len = rules[a].len
    BY InvertedRules DEF PlaceRules, xdg_positioner_anchor_invert, Rules
  <2>2. a \in flips => <<"flip", a>> \in adj
    OBVIOUS
  <2>3. /\ wlr_xdg_positioner_rules_get_geometry(i) \in PlaceBox
        /\ wlr_xdg_positioner_rules_get_geometry(i).len = i.len
        /\ wlr_xdg_positioner_rules_get_geometry(rules[a]) \in PlaceBox
        /\ wlr_xdg_positioner_rules_get_geometry(rules[a]).len = rules[a].len
    <3> HIDE DEF i
    <3> QED
      BY <2>1, GeometryLength
  <2>4. flipped[a] = IF a \in flips THEN wlr_xdg_positioner_rules_get_geometry(i)
                     ELSE wlr_xdg_positioner_rules_get_geometry(rules[a])
    OBVIOUS
  <2> HIDE DEF flips, i, flipped
  <2> QED
    BY <2>1, <2>2, <2>3, <2>4
<1>u. is_unconstrained(st.offs) => flips = {}
  <2>1. \A a \in Axes : st.box[a] \in PlaceBox /\ st.offs[a] = get_constrained_box_offsets(st.box[a])
    BY DEF Measured
  <2>2. \A a \in Axes : st.offs[a].lo \in Int /\ st.offs[a].hi \in Int
    BY <2>1, FreeInside
  <2>3. \A a \in Axes : AxisFree(st.offs[a]) => ~(st.offs[a].lo > 0) /\ ~(st.offs[a].hi > 0)
    BY <2>2 DEF AxisFree
  <2> QED
    BY <2>3 DEF is_unconstrained
<1> HIDE DEF flips, flipped
<1>3. \A a \in Axes : offs[a] = get_constrained_box_offsets(flipped[a])
  OBVIOUS
<1>4. \A a \in Axes : st.box[a] \in PlaceBox /\ st.offs[a] = get_constrained_box_offsets(st.box[a])
  BY DEF Measured
<1> HIDE DEF offs
<1>5. \A a \in Axes : nb[a] = IF AxisFree(offs[a]) THEN flipped[a] ELSE st.box[a]
  <2> SUFFICES ASSUME NEW a \in Axes, AxisFree(offs[a])
               PROVE  [st.box[a] EXCEPT !.pos = flipped[a].pos] = flipped[a]
    OBVIOUS
  <2> QED
    BY <1>2, <1>4 DEF PlaceBox
<1>6. \A a \in Axes : no[a] = IF AxisFree(offs[a]) THEN offs[a] ELSE st.offs[a]
  OBVIOUS
<1>7. no = [a \in Axes |-> get_constrained_box_offsets(nb[a])]
  <2>1. \A a \in Axes : no[a] = get_constrained_box_offsets(nb[a])
    <3> HIDE DEF nb, no
    <3> QED
      BY <1>3, <1>4, <1>5, <1>6
  <2> QED
    BY <2>1
<1>8. nb \in [Axes -> PlaceBox]
  BY <1>2, <1>4, <1>5
<1>9. \A a \in Axes : /\ nb[a].len = st.box[a].len
                      /\ <<"flip", a>> \notin adj => nb[a] = st.box[a]
  <2> HIDE DEF nb
  <2> QED
    BY <1>2, <1>5
<1> HIDE DEF nb, no, n
<1>10. flips = {} => Flipped(st, adj, n)
  BY <1>1 DEF Flipped
<1>11. ASSUME flips # {} PROVE Flipped(st, adj, n)
  <2>1. n.box = nb /\ n.offs = no
    BY <1>1, <1>11
  <2> QED
    BY <2>1, <1>u, <1>7, <1>8, <1>9, <1>11 DEF Flipped, Measured
<1> QED
  BY <1>10, <1>11 DEF n

(* Sliding keeps the length, and an axis that may not slide as it is; a     *)
(* popup that is no longer than the area ends up inside it, and no place    *)
(* inside is nearer.                                                        *)
Slid(st, adj, n) ==
  /\ Measured(n)
  /\ \A a \in Axes :
       /\ n.box[a].len = st.box[a].len
       /\ <<"slide", a>> \notin adj => n.box[a] = st.box[a]
       /\ <<"slide", a>> \in adj /\ st.box[a].len <= AreaLen =>
            /\ Inside(n.box[a])
            /\ \A p \in 0 .. AreaLen - st.box[a].len :
                 Abs(n.box[a].pos - st.box[a].pos) <= Abs(p - st.box[a].pos)

LEMMA InsideNear ==
  ASSUME NEW b \in PlaceBox, Inside(b), NEW p \in Int
  PROVE  Abs(b.pos - b.pos) <= Abs(p - b.pos)
BY DEF PlaceBox, Abs

LEMMA SlideNear ==
  ASSUME NEW r, NEW b \in PlaceBox, NEW o, o = get_constrained_box_offsets(b),
         ~AxisFree(o)
  PROVE  /\ SlideBy(r, o) \in Int
         /\ b.len <= AreaLen =>
              /\ b.pos + SlideBy(r, o) >= 0 /\ b.pos + SlideBy(r, o) + b.len <= AreaLen
              /\ \A p \in 0 .. AreaLen - b.len : Abs(SlideBy(r, o)) <= Abs(p - b.pos)
<1>1. AreaLen \in Int /\ b.pos \in Int /\ b.len \in Int
  BY PositionerAssumption DEF PlaceBox
<1>2. o.lo = -b.pos /\ o.hi = b.pos + b.len - AreaLen
  BY FreeInside
<1> DEFINE d == SlideBy(r, o)
<1>3. d \in {o.lo, -o.hi}
  BY DEF SlideBy
<1>4. d \in Int
  BY <1>1, <1>2, <1>3
<1>5. ASSUME b.len <= AreaLen
      PROVE  (o.lo > 0 /\ d = o.lo /\ o.hi <= 0) \/ (o.hi > 0 /\ d = -o.hi /\ o.lo <= 0)
  <2>1. ~(o.lo > 0 /\ o.hi > 0) /\ (o.lo > 0 \/ o.hi > 0)
    BY <1>1, <1>2, <1>5 DEF AxisFree
  <2>2. d = IF Abs(o.lo) < Abs(o.hi) THEN o.lo ELSE -o.hi
    BY <2>1 DEF SlideBy
  <2>3. CASE o.lo > 0
    <3>1. o.hi <= 0 /\ o.lo + o.hi <= 0
      BY <1>1, <1>2, <1>5, <2>3
    <3>2. Abs(o.lo) = o.lo /\ Abs(o.hi) = -o.hi
      BY <1>1, <1>2, <2>3, <3>1 DEF Abs
    <3> QED
      BY <1>1, <1>2, <2>2, <2>3, <3>1, <3>2
  <2>4. CASE o.hi > 0
    <3>1. o.lo <= 0 /\ o.lo + o.hi <= 0
      BY <1>1, <1>2, <1>5, <2>4
    <3>2. Abs(o.lo) = -o.lo /\ Abs(o.hi) = o.hi
      BY <1>1, <1>2, <2>4, <3>1 DEF Abs
    <3> QED
      BY <1>1, <1>2, <2>2, <2>4, <3>1, <3>2
  <2> QED
    BY <2>1, <2>3, <2>4
<1> HIDE DEF d
<1>6. ASSUME b.len <= AreaLen
      PROVE  /\ b.pos + d >= 0 /\ b.pos + d + b.len <= AreaLen
             /\ \A p \in 0 .. AreaLen - b.len : Abs(d) <= Abs(p - b.pos)
  <2>1. CASE o.lo > 0 /\ d = o.lo /\ o.hi <= 0
    BY <1>1, <1>2, <1>6, <2>1 DEF Abs
  <2>2. CASE o.hi > 0 /\ d = -o.hi /\ o.lo <= 0
    BY <1>1, <1>2, <1>6, <2>2 DEF Abs
  <2> QED
    BY <1>5, <1>6, <2>1, <2>2
<1> QED
  BY <1>4, <1>6 DEF d

LEMMA SlidePlaces ==
  ASSUME NEW rules, NEW adj, NEW st, Measured(st)
  PROVE  Slid(st, adj, xdg_positioner_rules_unconstrain_by_slide(rules, adj, st))
<1> DEFINE slides == {a \in Axes : ~AxisFree(st.offs[a]) /\ <<"slide", a>> \in adj}
           nb == [a \in Axes |-> IF a \in slides
                                 THEN [st.box[a] EXCEPT !.pos = @ + SlideBy(rules[a], st.offs[a])]
                                 ELSE st.box[a]]
           no == [a \in Axes |-> get_constrained_box_offsets(nb[a])]
           n == xdg_positioner_rules_unconstrain_by_slide(rules, adj, st)
<1>1. n = IF slides = {} THEN st ELSE [box |-> nb, offs |-> no]
  BY DEF xdg_positioner_rules_unconstrain_by_slide
<1>2. \A a \in Axes : st.box[a] \in PlaceBox /\ st.offs[a] = get_constrained_box_offsets(st.box[a])
  BY DEF Measured
<1>3. AreaLen \in Int /\ Area.pos = 0 /\ Area.len = AreaLen
  BY PositionerAssumption DEF Area
<1> DEFINE OK(a, b) ==
       /\ b \in PlaceBox /\ b.len = st.box[a].len
       /\ <<"slide", a>> \notin adj => b = st.box[a]
       /\ <<"slide", a>> \in adj /\ st.box[a].len <= AreaLen =>
            /\ Inside(b)
            /\ \A p \in 0 .. AreaLen - st.box[a].len :
                 Abs(b.pos - st.box[a].pos) <= Abs(p - st.box[a].pos)
<1>4. ASSUME NEW a \in Axes, a \notin slides PROVE OK(a, st.box[a])
  <2>1. <<"slide", a>> \in adj => Inside(st.box[a])
    BY <1>2, <1>4, FreeInside
  <2>2. ASSUME <<"slide", a>> \in adj, st.box[a].len <= AreaLen, NEW p \in 0 .. AreaLen - st.box[a].len
        PROVE  Abs(st.box[a].pos - st.box[a].pos) <= Abs(p - st.box[a].pos)
    BY <1>2, <1>3, <2>1, <2>2, InsideNear DEF PlaceBox
  <2> QED
    BY <1>2, <2>1, <2>2
<1>5. ASSUME NEW a \in Axes, a \in slides PROVE OK(a, nb[a])
  <2> DEFINE b == st.box[a]
             o == st.offs[a]
             d == SlideBy(rules[a], o)
             q == b.pos + d
  <2>1. b \in PlaceBox /\ o = get_constrained_box_offsets(b) /\ ~AxisFree(o) /\ <<"slide", a>> \in adj
    BY <1>2, <1>5
  <2>2. nb[a] = [b EXCEPT !.pos = q]
    BY <1>5
  <2> HIDE DEF b, o
  <2>3. /\ d \in Int
        /\ b.len <= AreaLen =>
              /\ b.pos + d >= 0 /\ b.pos + d + b.len <= AreaLen
              /\ \A p \in 0 .. AreaLen - b.len : Abs(d) <= Abs(p - b.pos)
    BY <2>1, SlideNear
  <2> HIDE DEF d
  <2>4. q \in Int /\ b.pos \in Int /\ b.len \in Int /\ q - b.pos = d
    BY <2>1, <2>3 DEF PlaceBox
  <2> HIDE DEF nb
  <2>5. nb[a] \in PlaceBox /\ nb[a].pos = q /\ nb[a].len = b.len
    <3> HIDE DEF q
    <3> QED
      BY <2>1, <2>2, <2>4 DEF PlaceBox
  <2>6. b.len <= AreaLen => /\ Inside(nb[a])
                            /\ \A p \in 0 .. AreaLen - b.len : Abs(nb[a].pos - b.pos) <= Abs(p - b.pos)
    BY <1>3, <2>3, <2>4, <2>5 DEF Inside
  <2> QED
    BY <2>1, <2>5, <2>6 DEF b
<1>6. \A a \in Axes : a \notin slides => nb[a] = st.box[a]
  OBVIOUS
<1>7. \A a \in Axes : OK(a, nb[a])
  <2> HIDE DEF nb, slides, OK
  <2> QED
    BY <1>4, <1>5, <1>6
<1>8. nb = [a \in Axes |-> nb[a]]
  OBVIOUS
<1>9. slides # {} => Slid(st, adj, n)
  <2> SUFFICES ASSUME slides # {} PROVE Slid(st, adj, n)
    OBVIOUS
  <2>1. n.box = nb /\ n.offs = no
    <3> HIDE DEF nb, no, n, slides
    <3> QED
      BY <1>1
  <2>2. no = [a \in Axes |-> get_constrained_box_offsets(nb[a])]
    OBVIOUS
  <2> HIDE DEF nb, no, n, slides
  <2>3. nb \in [Axes -> PlaceBox]
    BY <1>7, <1>8
  <2>4. Measured(n)
    BY <2>1, <2>2, <2>3 DEF Measured
  <2> QED
    BY <2>1, <2>4, <1>7 DEF Slid
<1>10. slides = {} => Slid(st, adj, n)
  <2> SUFFICES ASSUME slides = {} PROVE Slid(st, adj, n)
    OBVIOUS
  <2>1. n = st
    BY <1>1
  <2>2. \A a \in Axes : OK(a, st.box[a])
    <3> HIDE DEF OK
    <3> QED
      BY <1>4
  <2> HIDE DEF n, slides
  <2> QED
    BY <2>1, <2>2 DEF Slid
<1> HIDE DEF slides
<1> QED
  BY <1>9, <1>10

(* Resizing changes only an axis that may be resized and sticks out, and    *)
(* never empties a box.                                                     *)
Resized(st, adj, n) ==
  \A a \in Axes :
    /\ n.box[a].len > 0
    /\ <<"resize", a>> \notin adj \/ Inside(st.box[a]) => n.box[a] = st.box[a]

LEMMA ResizePlaces ==
  ASSUME NEW adj, NEW st, Measured(st), \A a \in Axes : st.box[a].len > 0
  PROVE  Resized(st, adj, xdg_positioner_rules_unconstrain_by_resize(adj, st))
<1> DEFINE clips == {a \in Axes : ~AxisFree(st.offs[a]) /\ <<"resize", a>> \in adj}
           out(i) == IF i < 0 THEN 0 ELSE i
           clip(b, o) == [pos |-> b.pos + out(o.lo), len |-> b.len - out(o.lo) - out(o.hi)]
           nb == [a \in Axes |-> IF a \in clips THEN clip(st.box[a], st.offs[a]) ELSE st.box[a]]
           no == [a \in Axes |-> get_constrained_box_offsets(nb[a])]
           n == xdg_positioner_rules_unconstrain_by_resize(adj, st)
<1>1. n = IF clips = {} \/ \E a \in Axes : nb[a].len <= 0 THEN st ELSE [box |-> nb, offs |-> no]
  BY DEF xdg_positioner_rules_unconstrain_by_resize
<1>2. \A a \in Axes : st.box[a] \in PlaceBox /\ st.offs[a] = get_constrained_box_offsets(st.box[a])
  BY DEF Measured
<1>3. \A a \in Axes : <<"resize", a>> \notin adj \/ Inside(st.box[a]) => a \notin clips
  BY <1>2, FreeInside
<1>4. \A a \in Axes : a \notin clips => nb[a] = st.box[a]
  OBVIOUS
<1>5. \A a \in Axes : nb[a].len \in Int
  <2> SUFFICES ASSUME NEW a \in Axes PROVE nb[a].len \in Int
    OBVIOUS
  <2>1. /\ st.offs[a].lo \in Int /\ st.offs[a].hi \in Int
        /\ st.box[a].len \in Int
    BY <1>2, FreeInside DEF PlaceBox
  <2>2. nb[a].len = st.box[a].len \/ nb[a].len = st.box[a].len - out(st.offs[a].lo) - out(st.offs[a].hi)
    BY <1>4
  <2> HIDE DEF nb
  <2> QED
    BY <2>1, <2>2
<1> HIDE DEF nb, no, n, clips
<1>6. CASE clips = {} \/ \E a \in Axes : nb[a].len <= 0
  <2>1. n = st
    BY <1>1, <1>6
  <2> QED
    BY <2>1 DEF Resized, n
<1>7. CASE ~(clips = {} \/ \E a \in Axes : nb[a].len <= 0)
  <2>1. n.box = nb
    BY <1>1, <1>7
  <2>2. \A a \in Axes : nb[a].len > 0
    BY <1>5, <1>7
  <2> QED
    BY <2>1, <2>2, <1>3, <1>4 DEF Resized, n
<1> QED
  BY <1>6, <1>7

(* What the whole algorithm makes of the boxes that the rules ask for. *)
PlacedWell(box, adj, got) ==
  \A a \in Axes :
    /\ got[a].len > 0
    /\ (\A b \in Axes : Inside(box[b])) => got[a] = box[a]
    /\ ~(<<"flip", a>> \in adj \/ <<"slide", a>> \in adj \/ <<"resize", a>> \in adj) => got[a] = box[a]
    /\ got[a].len # box[a].len => <<"resize", a>> \in adj
    /\ <<"slide", a>> \in adj /\ box[a].len <= AreaLen =>
         /\ Inside(got[a])
         /\ <<"flip", a>> \notin adj =>
              \A p \in 0 .. AreaLen - box[a].len :
                Abs(got[a].pos - box[a].pos) <= Abs(p - box[a].pos)

LEMMA UnconstrainPlaces ==
  ASSUME NEW rules, NEW adj, PlaceRules(rules), NEW box,
         box = [a \in Axes |-> wlr_xdg_positioner_rules_get_geometry(rules[a])]
  PROVE  PlacedWell(box, adj, wlr_xdg_positioner_rules_unconstrain_box(rules, adj, box))
<1> DEFINE offs == [a \in Axes |-> get_constrained_box_offsets(box[a])]
           raw == [box |-> box, offs |-> offs]
           flipped == xdg_positioner_rules_unconstrain_by_flip(rules, adj, raw)
           slid == xdg_positioner_rules_unconstrain_by_slide(rules, adj, flipped)
           clipped == xdg_positioner_rules_unconstrain_by_resize(adj, slid)
           got == wlr_xdg_positioner_rules_unconstrain_box(rules, adj, box)
<1>1. got = CASE is_unconstrained(raw.offs) -> box
              [] ~is_unconstrained(raw.offs) /\ is_unconstrained(flipped.offs) -> flipped.box
              [] ~is_unconstrained(flipped.offs) /\ is_unconstrained(slid.offs) -> slid.box
              [] OTHER -> clipped.box
  BY DEF wlr_xdg_positioner_rules_unconstrain_box
<1>2. \A a \in Axes : /\ box[a] = wlr_xdg_positioner_rules_get_geometry(rules[a])
                      /\ box[a] \in PlaceBox /\ box[a].len > 0
  BY GeometryLength DEF PlaceRules
<1>3. raw.box = box /\ raw.offs = offs /\ Measured(raw)
  BY <1>2 DEF Measured
<1> HIDE DEF raw, offs
<1>4. Flipped(raw, adj, flipped)
  BY <1>2, <1>3, FlipPlaces
<1>5. Slid(flipped, adj, slid)
  BY <1>4, SlidePlaces DEF Flipped
<1>6. Measured(slid) /\ \A a \in Axes : slid.box[a].len = box[a].len /\ slid.box[a].len > 0
  BY <1>2, <1>3, <1>4, <1>5 DEF Flipped, Slid
<1>7. Resized(slid, adj, clipped)
  BY <1>6, ResizePlaces
<1> HIDE DEF flipped, slid, clipped, got
<1>8. \A st : Measured(st) => (is_unconstrained(st.offs) <=> \A a \in Axes : Inside(st.box[a]))
  BY FreeInside DEF Measured, is_unconstrained
<1>9. AreaLen \in Int
  BY PositionerAssumption
<1>10. \A a \in Axes : flipped.box[a] \in PlaceBox /\ flipped.box[a].len = box[a].len
                       /\ (<<"flip", a>> \notin adj => flipped.box[a] = box[a])
  BY <1>3, <1>4 DEF Flipped, Measured
<1>11. is_unconstrained(raw.offs) => PlacedWell(box, adj, box)
  <2> SUFFICES ASSUME is_unconstrained(raw.offs), NEW a \in Axes
               PROVE  /\ Inside(box[a])
                      /\ \A p \in 0 .. AreaLen - box[a].len :
                           Abs(box[a].pos - box[a].pos) <= Abs(p - box[a].pos)
    BY <1>2 DEF PlacedWell
  <2>1. Inside(box[a])
    BY <1>3, <1>8
  <2>2. \A p \in 0 .. AreaLen - box[a].len : p \in Int
    BY <1>2, <1>9 DEF PlaceBox
  <2> QED
    BY <1>2, <2>1, <2>2, InsideNear
<1>12. ASSUME ~is_unconstrained(raw.offs), is_unconstrained(flipped.offs)
       PROVE  PlacedWell(box, adj, flipped.box)
  <2>1. \A a \in Axes : Inside(flipped.box[a])
    BY <1>4, <1>8, <1>12 DEF Flipped
  <2>2. ~\A a \in Axes : Inside(box[a])
    BY <1>3, <1>8, <1>12
  <2>3. \A a \in Axes : <<"flip", a>> \notin adj =>
            \A p \in 0 .. AreaLen - box[a].len :
              Abs(flipped.box[a].pos - box[a].pos) <= Abs(p - box[a].pos)
    <3> SUFFICES ASSUME NEW a \in Axes, <<"flip", a>> \notin adj, NEW p \in 0 .. AreaLen - box[a].len
                 PROVE  Abs(box[a].pos - box[a].pos) <= Abs(p - box[a].pos)
      BY <1>10
    <3>1. p \in Int
      BY <1>2, <1>9 DEF PlaceBox
    <3> QED
      BY <1>2, <1>10, <2>1, <3>1, InsideNear
  <2> QED
    BY <1>2, <1>10, <2>1, <2>2, <2>3 DEF PlacedWell
<1>13. ASSUME NEW a \in Axes
       PROVE  /\ slid.box[a].len > 0 /\ slid.box[a].len = box[a].len
              /\ <<"flip", a>> \notin adj /\ <<"slide", a>> \notin adj => slid.box[a] = box[a]
              /\ <<"slide", a>> \in adj /\ box[a].len <= AreaLen =>
                   /\ Inside(slid.box[a])
                   /\ <<"flip", a>> \notin adj =>
                        \A p \in 0 .. AreaLen - box[a].len :
                          Abs(slid.box[a].pos - box[a].pos) <= Abs(p - box[a].pos)
  BY <1>5, <1>6, <1>10 DEF Slid
<1>14. ASSUME ~is_unconstrained(raw.offs) PROVE PlacedWell(box, adj, slid.box)
  <2>1. ~\A a \in Axes : Inside(box[a])
    BY <1>3, <1>8, <1>14
  <2> QED
    BY <1>13, <2>1 DEF PlacedWell
<1>15. ASSUME ~is_unconstrained(raw.offs) PROVE PlacedWell(box, adj, clipped.box)
  <2>1. ~\A a \in Axes : Inside(box[a])
    BY <1>3, <1>8, <1>15
  <2>2. \A a \in Axes : /\ clipped.box[a].len > 0
                        /\ <<"resize", a>> \notin adj \/ Inside(slid.box[a]) =>
                             clipped.box[a] = slid.box[a]
    BY <1>7 DEF Resized
  <2> QED
    BY <1>13, <2>1, <2>2 DEF PlacedWell
<1>16. is_unconstrained(raw.offs) => is_unconstrained(flipped.offs)
  BY <1>4 DEF Flipped
<1> QED
  BY <1>1, <1>11, <1>12, <1>14, <1>15, <1>16 DEF got

-----------------------------------------------------------------------------
PlacingInv ==
  /\ placing = [rules |-> placing.rules, adj |-> placing.adj, box |-> placing.box]
  /\ PlaceRules(placing.rules)
  /\ placing.box # <<>> => PlacedWell(Asked(placing), placing.adj, placing.box)

LEMMA PlacingStarts == PlacingInit => PlacingInv
<1> SUFFICES ASSUME NEW x \in Rules, NEW y \in Rules, NEW adj,
                    placing = [rules |-> [a \in Axes |-> IF a = "x" THEN x ELSE y], adj |-> adj, box |-> <<>>]
             PROVE  PlacingInv
  BY DEF PlacingInit
<1>1. [a \in Axes |-> IF a = "x" THEN x ELSE y] \in [Axes -> Rules]
  OBVIOUS
<1> QED
  BY <1>1 DEF PlacingInv, PlaceRules

LEMMA PlacingKept == PlacingInv /\ [PlacingNext]_placing => PlacingInv'
<1> SUFFICES ASSUME PlacingInv, [PlacingNext]_placing PROVE PlacingInv'
  OBVIOUS
<1>1. CASE UNCHANGED placing
  BY <1>1 DEF PlacingInv, Asked
<1>2. CASE PlacingNext
  <2> DEFINE rules == placing.rules
             adj == placing.adj
             box == Asked(placing)
             got == wlr_xdg_positioner_rules_unconstrain_box(rules, adj, box)
  <2>1. placing' = [placing EXCEPT !.box = got]
    BY <1>2 DEF PlacingNext, wlr_xdg_popup_unconstrain_from_box
  <2>2. box = [a \in Axes |-> wlr_xdg_positioner_rules_get_geometry(rules[a])] /\ PlaceRules(rules)
    BY DEF Asked, PlacingInv
  <2> HIDE DEF box, rules, adj
  <2>3. PlacedWell(box, adj, got)
    BY <2>2, UnconstrainPlaces
  <2> HIDE DEF got
  <2>4. placing' = [rules |-> rules, adj |-> adj, box |-> got]
    BY <2>1 DEF PlacingInv, rules, adj
  <2>5. placing'.rules = rules /\ placing'.adj = adj /\ placing'.box = got
    BY <2>4
  <2>6. Asked(placing') = box
    BY <2>2, <2>5 DEF Asked
  <2> QED
    BY <2>2, <2>3, <2>4, <2>5, <2>6 DEF PlacingInv
<1> QED
  BY <1>1, <1>2

LEMMA PlacingMeans == PlacingInv => PopupPlaced
<1> SUFFICES ASSUME PlacingInv, placing.box # <<>> PROVE PopupPlaced
  BY DEF PopupPlaced
<1> DEFINE box == Asked(placing)
           adj == placing.adj
<1>1. Area.pos = 0 /\ Area.pos + AreaLen = AreaLen
  BY PositionerAssumption DEF Area
<1>2. \A a \in Axes : box[a].len \in Int
  BY GeometryLength DEF PlacingInv, PlaceRules, Asked
<1>3. \A a \in Axes : Area.pos .. Area.pos + AreaLen - box[a].len = 0 .. AreaLen - box[a].len
  BY <1>1, <1>2, PositionerAssumption
<1>4. PlacedWell(box, adj, placing.box)
  BY DEF PlacingInv
<1> HIDE DEF box, adj
<1> QED
  BY <1>3, <1>4 DEF PlacedWell, PopupPlaced, box, adj

(* The positioner (wlr_xdg_positioner.c, wlr_xdg_popup.c) keeps the         *)
(* protocol's promise on each axis for anchor rectangles, popups and areas  *)
(* of every size and every set of adjustments: a popup that fits stays      *)
(* where it was asked for, an axis without an adjustment is not touched,    *)
(* the length changes by resizing only and never to nothing, and a popup    *)
(* that may slide and is no longer than the area ends up inside it, by the  *)
(* shortest way unless it may flip.                                         *)
THEOREM PopupsPlaced == PlacingSpec => []PopupPlaced
<1>1. PlacingInit => PlacingInv
  BY PlacingStarts
<1>2. PlacingInv /\ [PlacingNext]_placing => PlacingInv'
  BY PlacingKept
<1>3. PlacingInv => PopupPlaced
  BY PlacingMeans
<1> QED
  BY <1>1, <1>2, <1>3, PTL DEF PlacingSpec

-----------------------------------------------------------------------------
(***************************************************************************)
(* The states that protocols attach to a surface.                          *)
(***************************************************************************)

-----------------------------------------------------------------------------
(* The feedback that the states and the outputs hold: p the pending state,  *)
(* c the current one, K[i] those that wait, q.ids an output's; W: those the *)
(* client waits for.  Each has one place.                                   *)
Separate(p, c, K, Q, W) ==
  /\ p \subseteq W /\ c \subseteq W /\ p \cap c = {}
  /\ \A i \in DOMAIN K : K[i] \subseteq W /\ K[i] \cap p = {} /\ K[i] \cap c = {}
  /\ \A i, j \in DOMAIN K : i # j => K[i] \cap K[j] = {}
  /\ \A q \in Q : /\ q.ids \subseteq W /\ q.ids \cap p = {} /\ q.ids \cap c = {}
                  /\ \A i \in DOMAIN K : q.ids \cap K[i] = {}
  /\ \A q, r \in Q : q # r => q.ids \cap r.ids = {}
  /\ \A id \in W : id \in p \/ id \in c \/ (\E i \in DOMAIN K : id \in K[i]) \/ (\E q \in Q : id \in q.ids)

LEMMA SepCommit ==
  ASSUME NEW p, NEW c, NEW K, NEW Q, NEW W, Separate(p, c, K, Q, W)
  PROVE  Separate({}, p, K, Q, W \ c)
BY DEF Separate

LEMMA SepCache ==
  ASSUME NEW p, NEW c, NEW K, NEW L, NEW Q, NEW W, NEW n \in Nat, Separate(p, c, K, Q, W),
         DOMAIN K = 1..n, DOMAIN L = 1..(n + 1), L[n + 1] = p, \A i \in 1..n : L[i] = K[i]
  PROVE  Separate({}, c, L, Q, W)
<1>1. \A i \in DOMAIN L : i = n + 1 \/ i \in DOMAIN K
  OBVIOUS
<1>2. \A i \in DOMAIN L : L[i] \subseteq W /\ L[i] \cap {} = {} /\ L[i] \cap c = {}
  BY <1>1 DEF Separate
<1>3. \A i, j \in DOMAIN L : i # j => L[i] \cap L[j] = {}
  <2> SUFFICES ASSUME NEW i \in DOMAIN L, NEW j \in DOMAIN L, i # j PROVE L[i] \cap L[j] = {}
    OBVIOUS
  <2>1. CASE i = n + 1
    BY <1>1, <2>1 DEF Separate
  <2>2. CASE j = n + 1
    BY <1>1, <2>2 DEF Separate
  <2>3. CASE i \in DOMAIN K /\ j \in DOMAIN K
    BY <2>3 DEF Separate
  <2> QED
    BY <1>1, <2>1, <2>2, <2>3
<1>4. \A q \in Q, i \in DOMAIN L : q.ids \cap L[i] = {}
  BY <1>1 DEF Separate
<1>5. n + 1 \in DOMAIN L /\ \A i \in DOMAIN K : i \in DOMAIN L /\ L[i] = K[i]
  OBVIOUS
<1>6. \A id \in W : id \in c \/ (\E i \in DOMAIN L : id \in L[i]) \/ (\E q \in Q : id \in q.ids)
  BY <1>5 DEF Separate
<1> QED
  BY <1>2, <1>3, <1>4, <1>6 DEF Separate

LEMMA SepApply ==
  ASSUME NEW p, NEW c, NEW K, NEW L, NEW Q, NEW W, NEW n \in Nat, Separate(p, c, K, Q, W),
         DOMAIN K = 1..(n + 1), DOMAIN L = 1..n, \A i \in 1..n : L[i] = K[i + 1]
  PROVE  Separate(p, K[1], L, Q, W \ c)
<1>1. 1 \in DOMAIN K /\ \A i \in DOMAIN L : i + 1 \in DOMAIN K /\ i + 1 # 1 /\ L[i] = K[i + 1]
  OBVIOUS
<1>2. \A i, j \in DOMAIN L : i # j => i + 1 # j + 1
  OBVIOUS
<1>3. \A i \in DOMAIN K : i = 1 \/ (i - 1 \in DOMAIN L /\ K[i] = L[i - 1])
  <2> SUFFICES ASSUME NEW i \in DOMAIN K, i # 1 PROVE i - 1 \in DOMAIN L /\ K[i] = L[i - 1]
    OBVIOUS
  <2>1. i - 1 \in 1..n /\ (i - 1) + 1 = i
    OBVIOUS
  <2> QED
    BY <2>1
<1>4. K[1] \subseteq W \ c /\ p \subseteq W \ c /\ p \cap K[1] = {}
  BY <1>1 DEF Separate
<1>5. \A i \in DOMAIN L : L[i] \subseteq W \ c /\ L[i] \cap p = {} /\ L[i] \cap K[1] = {}
  BY <1>1 DEF Separate
<1>6. \A i, j \in DOMAIN L : i # j => L[i] \cap L[j] = {}
  BY <1>1, <1>2 DEF Separate
<1>7. \A q \in Q : /\ q.ids \subseteq W \ c /\ q.ids \cap p = {} /\ q.ids \cap K[1] = {}
                   /\ \A i \in DOMAIN L : q.ids \cap L[i] = {}
  BY <1>1 DEF Separate
<1>8. \A id \in W \ c : id \in p \/ id \in K[1] \/ (\E i \in DOMAIN L : id \in L[i])
                        \/ (\E q \in Q : id \in q.ids)
  BY <1>3 DEF Separate
<1>9. \A q, r \in Q : q # r => q.ids \cap r.ids = {}
  BY DEF Separate
<1> QED
  BY <1>4, <1>5, <1>6, <1>7, <1>8, <1>9 DEF Separate

LEMMA SepAsk ==
  ASSUME NEW p, NEW c, NEW K, NEW Q, NEW W, NEW id, id \notin W, Separate(p, c, K, Q, W)
  PROVE  Separate(p \cup {id}, c, K, Q, W \cup {id})
BY DEF Separate

LEMMA SepQueue ==
  ASSUME NEW p, NEW c, NEW K, NEW Q, NEW W, NEW n, n.ids = c, c # {}, Separate(p, c, K, Q, W)
  PROVE  Separate(p, {}, K, Q \cup {n}, W)
BY DEF Separate

(* The outputs' feedback is stamped with the commit it is in. *)
LEMMA SepStamp ==
  ASSUME NEW p, NEW c, NEW K, NEW Q, NEW R, NEW W, NEW g, Separate(p, c, K, Q, W),
         \A q \in Q : g[q] \in R /\ g[q].ids = q.ids, \A r \in R : \E q \in Q : r = g[q]
  PROVE  Separate(p, c, K, R, W)
BY DEF Separate

LEMMA SepAnswer ==
  ASSUME NEW p, NEW c, NEW K, NEW Q, NEW W, NEW hit, hit \subseteq Q, Separate(p, c, K, Q, W)
  PROVE  Separate(p, c, K, Q \ hit, W \ UNION {q.ids : q \in hit})
<1> DEFINE gone == UNION {q.ids : q \in hit}
<1>1. \A id : id \in gone <=> \E q \in hit : id \in q.ids
  OBVIOUS
<1> HIDE DEF gone
<1>2. gone \cap p = {} /\ gone \cap c = {} /\ \A i \in DOMAIN K : gone \cap K[i] = {}
  BY <1>1 DEF Separate
<1>3. \A q \in Q \ hit : q.ids \cap gone = {}
  BY <1>1 DEF Separate
<1>4. Separate(p, c, K, Q \ hit, W \ gone)
  BY <1>1, <1>2, <1>3 DEF Separate
<1> QED
  BY <1>4 DEF gone

(* The object of the surface is finished: its states lose their feedback. *)
LEMMA SepFinish ==
  ASSUME NEW p, NEW c, NEW K, NEW L, NEW Q, NEW W, Separate(p, c, K, Q, W),
         DOMAIN L = DOMAIN K, \A i \in DOMAIN K : L[i] = {}
  PROVE  Separate({}, {}, L, Q, W \ (p \cup c \cup UNION {K[i] : i \in DOMAIN K}))
<1> DEFINE u == UNION {K[i] : i \in DOMAIN K}
<1>1. \A id : id \in u <=> \E i \in DOMAIN K : id \in K[i]
  OBVIOUS
<1> HIDE DEF u
<1>2. Separate({}, {}, L, Q, W \ (p \cup c \cup u))
  BY <1>1 DEF Separate
<1> QED
  BY <1>2 DEF u

-----------------------------------------------------------------------------
SlotShape == [kind : Kinds, gen : Nat, v : SyncedValues, fb : SUBSET FeedbackId]
QueuedShape == [ids : SUBSET FeedbackId, seq : Nat]
Fates == {"none", "waiting", "presented", "discarded"}
ExtShape ==
  [alive : BOOLEAN, client : BOOLEAN, index : [Kinds -> Nat], gen : [Kinds -> Nat],
   born : Nat, inert : SUBSET Kinds,
   pending : Seq(SlotShape), cached : Seq(Seq(SlotShape)), current : Seq(SlotShape),
   hint : SyncedValues, fate : [FeedbackId -> Fates], queued : SUBSET QueuedShape,
   output : BOOLEAN, seq : Nat, owed : SUBSET Nat]
ExtTypeOK == ext \in ExtShape

(* The slots of one state of the surface and the attached objects belong to *)
(* each other, one to one; only the slot of presentation holds feedback.    *)
Aligned(st, arr) ==
  /\ arr \in Seq(SlotShape) /\ Len(arr) = Cardinality(Attached(st))
  /\ \A k \in Attached(st) : /\ st.index[k] \in 1..Len(arr) /\ arr[st.index[k]].kind = k
                             /\ arr[st.index[k]].gen = st.gen[k]
  /\ \A i \in 1..Len(arr) : /\ arr[i].kind \in Attached(st) /\ st.index[arr[i].kind] = i
                            /\ arr[i].fb # {} => arr[i].kind = "feedback"
AlignedStates(st) ==
  /\ IsFiniteSet(Attached(st)) /\ Aligned(st, st.pending) /\ Aligned(st, st.current)
  /\ \A c \in 1..Len(st.cached) : Aligned(st, st.cached[c])

CachedFeedback(st) == [c \in DOMAIN st.cached |-> Overwritten(st.cached[c])]
Waiting(st) == {id \in FeedbackId : st.fate[id] = "waiting"}
FeedbackHeld(st) ==
  Separate(Overwritten(st.pending), Overwritten(st.current), CachedFeedback(st), st.queued, Waiting(st))

HintOf(st) ==
  st.alive /\ st.index["tearing"] > 0 => st.hint = st.current[st.index["tearing"]].v

ExtSound(st) == /\ st \in ExtShape /\ AlignedStates(st) /\ FeedbackHeld(st) /\ HintOf(st)
ExtInv == ExtSound(ext)

-----------------------------------------------------------------------------
(* Slots are removed. *)
LEMMA RemovedSlots ==
  ASSUME NEW S, NEW arr \in Seq(S), NEW i \in 1..Len(arr)
  PROVE  /\ array_remove_at(arr, i) \in Seq(S) /\ Len(array_remove_at(arr, i)) = Len(arr) - 1
         /\ \A j \in 1..(Len(arr) - 1) :
              /\ j < i => array_remove_at(arr, i)[j] = arr[j] /\ j \in 1..Len(arr)
              /\ j >= i => array_remove_at(arr, i)[j] = arr[j + 1] /\ j + 1 \in 1..Len(arr)
<1> DEFINE n == Len(arr)
           a == SubSeq(arr, 1, i - 1)
           b == SubSeq(arr, i + 1, n)
<1>1. n \in Nat /\ i \in Int /\ i - 1 \in Int /\ i + 1 \in Int /\ n \in Int
      /\ (\A k \in 1..(i - 1) : arr[k] \in S) /\ (\A k \in (i + 1)..n : arr[k] \in S)
  BY SeqElements
<1>2. /\ a \in Seq(S) /\ Len(a) = i - 1 /\ \A j \in 1..(i - 1) : a[j] = arr[j]
  <2>1. /\ a \in Seq(S) /\ Len(a) = IF 1 <= i - 1 THEN (i - 1) - 1 + 1 ELSE 0
        /\ \A j \in 1..((i - 1) - 1 + 1) : a[j] = arr[1 + j - 1]
    BY <1>1, SubSeqProperties
  <2> HIDE DEF a
  <2> QED
    BY <1>1, <2>1
<1>3. /\ b \in Seq(S) /\ Len(b) = n - i /\ \A j \in 1..(n - i) : b[j] = arr[j + i]
  BY DropFirst
<1> HIDE DEF n
<1>4. array_remove_at(arr, i) = a \o b
  BY DEF array_remove_at, n
<1> HIDE DEF a, b
<1> DEFINE r == a \o b
<1>5. r \in Seq(S) /\ Len(r) = (i - 1) + (n - i)
      /\ \A j \in 1..((i - 1) + (n - i)) : r[j] = IF j <= i - 1 THEN a[j] ELSE b[j - (i - 1)]
  <2>1. /\ r \in Seq(S) /\ Len(r) = Len(a) + Len(b)
        /\ \A j \in 1..(Len(a) + Len(b)) : r[j] = IF j <= Len(a) THEN a[j] ELSE b[j - Len(a)]
    BY <1>2, <1>3, ConcatProperties
  <2> HIDE DEF r
  <2> QED
    BY <1>2, <1>3, <2>1
<1> HIDE DEF r
<1>6. (i - 1) + (n - i) = n - 1 /\ i \in 1..n
  BY <1>1 DEF n
<1>7. \A j \in 1..(n - 1) : /\ j < i => r[j] = arr[j] /\ j \in 1..n
                            /\ j >= i => r[j] = arr[j + 1] /\ j + 1 \in 1..n
  <2> SUFFICES ASSUME NEW j \in 1..(n - 1)
               PROVE  /\ j < i => r[j] = arr[j] /\ j \in 1..n
                      /\ j >= i => r[j] = arr[j + 1] /\ j + 1 \in 1..n
    OBVIOUS
  <2>1. CASE j < i
    BY <1>1, <1>2, <1>5, <1>6, <2>1
  <2>2. CASE j >= i
    <3>1. j - (i - 1) \in 1..(n - i) /\ (j - (i - 1)) + i = j + 1 /\ j + 1 \in 1..n /\ ~(j <= i - 1)
      BY <1>1, <1>6, <2>2
    <3>2. r[j] = b[j - (i - 1)]
      BY <1>5, <1>6, <3>1
    <3> QED
      BY <1>3, <2>2, <3>1, <3>2
  <2> QED
    BY <1>1, <2>1, <2>2
<1> QED
  BY <1>4, <1>5, <1>6, <1>7 DEF n, r

(* What the states of a surface hold. *)
LEMMA HeldBy ==
  ASSUME NEW arr \in Seq(SlotShape), NEW id
  PROVE  id \in Overwritten(arr) <=> \E i \in 1..Len(arr) : id \in arr[i].fb
BY SeqElements DEF Overwritten

LEMMA HeldAppend ==
  ASSUME NEW arr \in Seq(SlotShape), NEW s \in SlotShape, s.fb = {}
  PROVE  Overwritten(Append(arr, s)) = Overwritten(arr)
<1> DEFINE a == Append(arr, s)
<1>1. /\ a \in Seq(SlotShape) /\ Len(a) = Len(arr) + 1 /\ Len(arr) \in Nat
      /\ \A i \in 1..Len(arr) : a[i] = arr[i]
      /\ a[Len(arr) + 1] = s
  BY AppendElements, SeqElements
<1> HIDE DEF a
<1>2. \A id : id \in Overwritten(a) <=> \E i \in 1..Len(a) : id \in a[i].fb
  BY <1>1, HeldBy
<1>3. \A id : id \in Overwritten(arr) <=> \E i \in 1..Len(arr) : id \in arr[i].fb
  BY HeldBy
<1>4. \A i \in 1..Len(a) : i = Len(arr) + 1 \/ i \in 1..Len(arr)
  BY <1>1
<1>5. \A i \in 1..Len(arr) : i \in 1..Len(a)
  BY <1>1
<1> QED
  BY <1>1, <1>2, <1>3, <1>4, <1>5 DEF a

(* The object k goes: the objects behind it move up. *)
Shifted(st, k, n) ==
  /\ n.index = [o \in Kinds |-> IF o = k THEN 0
                                ELSE IF st.index[o] > st.index[k] THEN st.index[o] - 1 ELSE st.index[o]]
  /\ n.gen = st.gen

Indexes(st) == /\ st.index \in [Kinds -> Nat] /\ st.gen \in [Kinds -> Nat]
               /\ IsFiniteSet(Attached(st))

LEMMA ShiftIndexes ==
  ASSUME NEW st, NEW n, NEW k \in Attached(st), Indexes(st), Shifted(st, k, n)
  PROVE  /\ k \in Kinds /\ st.index[k] \in Nat /\ st.index[k] > 0
         /\ Attached(n) = Attached(st) \ {k} /\ Indexes(n)
         /\ Cardinality(Attached(n)) = Cardinality(Attached(st)) - 1
         /\ \A o \in Kinds \ {k} : n.index[o] = IF st.index[o] > st.index[k] THEN st.index[o] - 1
                                                ELSE st.index[o]
<1>1. k \in Kinds /\ st.index[k] \in Nat /\ st.index[k] > 0
  BY DEF Attached, Indexes
<1>2. /\ \A o \in Kinds \ {k} : n.index[o] = IF st.index[o] > st.index[k] THEN st.index[o] - 1
                                                ELSE st.index[o]
      /\ n.index[k] = 0
  BY <1>1 DEF Shifted
<1>3. \A o \in Kinds : st.index[o] \in Nat /\ n.index[o] \in Nat
  BY <1>1, <1>2 DEF Indexes
<1>4. n.index \in [Kinds -> Nat]
  BY <1>3 DEF Shifted
<1>5. \A o \in Kinds : n.index[o] > 0 <=> st.index[o] > 0 /\ o # k
  BY <1>1, <1>2, <1>3
<1>6. Attached(n) = Attached(st) \ {k}
  BY <1>5 DEF Attached
<1>7. IsFiniteSet(Attached(n)) /\ Cardinality(Attached(n)) = Cardinality(Attached(st)) - 1
  BY <1>6, FS_RemoveElement DEF Indexes
<1>8. n.gen \in [Kinds -> Nat]
  BY DEF Shifted, Indexes
<1> QED
  BY <1>1, <1>2, <1>4, <1>6, <1>7, <1>8 DEF Indexes

LEMMA AlignRemove ==
  ASSUME NEW st, NEW n, NEW k \in Attached(st), Indexes(st), Shifted(st, k, n),
         NEW arr, Aligned(st, arr)
  PROVE  /\ Aligned(n, array_remove_at(arr, st.index[k]))
         /\ \A o \in Attached(n) : array_remove_at(arr, st.index[k])[n.index[o]] = arr[st.index[o]]
<1> DEFINE i == st.index[k]
           r == array_remove_at(arr, i)
           m == Len(arr)
<1>1. /\ k \in Kinds /\ i \in Nat /\ i > 0
      /\ Attached(n) = Attached(st) \ {k} /\ Indexes(n)
      /\ Cardinality(Attached(n)) = Cardinality(Attached(st)) - 1
      /\ \A o \in Kinds \ {k} : n.index[o] = IF st.index[o] > i THEN st.index[o] - 1 ELSE st.index[o]
  BY ShiftIndexes
<1>2. arr \in Seq(SlotShape) /\ m = Cardinality(Attached(st)) /\ i \in 1..m /\ m \in Nat
  BY SeqElements DEF Aligned
<1>3. /\ r \in Seq(SlotShape) /\ Len(r) = m - 1
      /\ \A j \in 1..(m - 1) : /\ j < i => r[j] = arr[j] /\ j \in 1..m
                               /\ j >= i => r[j] = arr[j + 1] /\ j + 1 \in 1..m
  BY <1>2, RemovedSlots
<1> HIDE DEF r
<1>4. \A o \in Attached(n) : /\ o \in Attached(st) /\ o # k /\ o \in Kinds /\ st.index[o] \in 1..m
                             /\ st.index[o] # i
                             /\ arr[st.index[o]].kind = o /\ arr[st.index[o]].gen = st.gen[o]
  BY <1>1 DEF Aligned, Attached
<1>5. \A o \in Attached(n) : n.index[o] \in 1..(m - 1) /\ r[n.index[o]] = arr[st.index[o]]
  <2> SUFFICES ASSUME NEW o \in Attached(n)
               PROVE  n.index[o] \in 1..(m - 1) /\ r[n.index[o]] = arr[st.index[o]]
    OBVIOUS
  <2> DEFINE s == st.index[o]
             t == n.index[o]
  <2>1. s \in 1..m /\ s # i /\ t = IF s > i THEN s - 1 ELSE s
    BY <1>1, <1>4
  <2> HIDE DEF s, t
  <2>2. CASE s > i
    <3>1. t = s - 1 /\ t \in 1..(m - 1) /\ t >= i /\ t + 1 = s
      BY <1>1, <1>2, <2>1, <2>2
    <3> QED
      BY <1>3, <3>1 DEF s, t
  <2>3. CASE s < i
    <3>1. t = s /\ t \in 1..(m - 1) /\ t < i
      BY <1>1, <1>2, <2>1, <2>3
    <3> QED
      BY <1>3, <3>1 DEF s, t
  <2> QED
    BY <1>2, <2>1, <2>2, <2>3
<1>6. ASSUME NEW j \in 1..(m - 1)
      PROVE  /\ r[j].kind \in Attached(n) /\ n.index[r[j].kind] = j
             /\ r[j].fb # {} => r[j].kind = "feedback"
  <2> DEFINE u == IF j < i THEN j ELSE j + 1
             o == arr[u].kind
  <2>1. u \in 1..m /\ u # i /\ r[j] = arr[u]
    BY <1>1, <1>2, <1>3
  <2> HIDE DEF u
  <2>2. o \in Attached(st) /\ st.index[o] = u /\ (arr[u].fb # {} => o = "feedback")
    BY <2>1 DEF Aligned
  <2>3. o # k /\ o \in Kinds
    BY <2>1, <2>2 DEF Attached
  <2>4. n.index[o] = IF u > i THEN u - 1 ELSE u
    BY <1>1, <2>2, <2>3
  <2>5. n.index[o] = j
    BY <1>1, <2>4 DEF u
  <2> QED
    BY <1>1, <2>1, <2>2, <2>3, <2>5
<1>7. \A o \in Attached(n) : n.index[o] \in 1..Len(r) /\ r[n.index[o]].kind = o
                             /\ r[n.index[o]].gen = n.gen[o]
  BY <1>3, <1>4, <1>5 DEF Shifted
<1>8. Len(r) = Cardinality(Attached(n))
  BY <1>1, <1>2, <1>3
<1>9. Aligned(n, r)
  BY <1>3, <1>6, <1>7, <1>8 DEF Aligned
<1> QED
  BY <1>5, <1>9 DEF r

(* The feedback of a state whose slot k goes: none but that slot's is lost. *)
LEMMA HeldRemove ==
  ASSUME NEW st, NEW k \in Attached(st), NEW arr, Aligned(st, arr)
  PROVE  /\ k # "feedback" => /\ Overwritten(array_remove_at(arr, st.index[k])) = Overwritten(arr)
                              /\ arr[st.index[k]].fb = {}
         /\ k = "feedback" => /\ Overwritten(array_remove_at(arr, st.index[k])) = {}
                              /\ arr[st.index[k]].fb = Overwritten(arr)
<1> DEFINE i == st.index[k]
           r == array_remove_at(arr, i)
           m == Len(arr)
<1>1. arr \in Seq(SlotShape) /\ i \in 1..m /\ m \in Nat /\ arr[i].kind = k
  BY SeqElements DEF Aligned
<1>2. /\ r \in Seq(SlotShape) /\ Len(r) = m - 1
      /\ \A j \in 1..(m - 1) : /\ j < i => r[j] = arr[j] /\ j \in 1..m
                               /\ j >= i => r[j] = arr[j + 1] /\ j + 1 \in 1..m
  BY <1>1, RemovedSlots
<1> HIDE DEF r
<1>3. \A id : id \in Overwritten(arr) <=> \E j \in 1..m : id \in arr[j].fb
  BY <1>1, HeldBy
<1>4. \A id : id \in Overwritten(r) <=> \E j \in 1..(m - 1) : id \in r[j].fb
  BY <1>2, HeldBy
<1>5. \A j \in 1..m : /\ arr[j].fb # {} => arr[j].kind = "feedback"
                      /\ j # i => arr[j].kind # k
  BY <1>1 DEF Aligned
<1>6. \A j \in 1..(m - 1) : \E u \in 1..m : u # i /\ r[j] = arr[u]
  <2> SUFFICES ASSUME NEW j \in 1..(m - 1) PROVE \E u \in 1..m : u # i /\ r[j] = arr[u]
    OBVIOUS
  <2>1. CASE j < i
    BY <1>1, <1>2, <2>1
  <2>2. CASE j >= i
    <3>1. j + 1 \in 1..m /\ j + 1 # i /\ r[j] = arr[j + 1]
      BY <1>1, <1>2, <2>2
    <3> QED
      BY <3>1
  <2> QED
    BY <1>1, <2>1, <2>2
<1>7. \A u \in 1..m : u # i => \E j \in 1..(m - 1) : r[j] = arr[u]
  <2> SUFFICES ASSUME NEW u \in 1..m, u # i PROVE \E j \in 1..(m - 1) : r[j] = arr[u]
    OBVIOUS
  <2>1. CASE u < i
    <3>1. u \in 1..(m - 1) /\ r[u] = arr[u]
      BY <1>1, <1>2, <2>1
    <3> QED
      BY <3>1
  <2>2. CASE u > i
    <3>1. u - 1 \in 1..(m - 1) /\ u - 1 >= i /\ (u - 1) + 1 = u
      BY <1>1, <2>2
    <3>2. r[u - 1] = arr[u]
      BY <1>2, <3>1
    <3> QED
      BY <3>1, <3>2
  <2> QED
    BY <1>1, <2>1, <2>2
<1>8. ASSUME k # "feedback" PROVE arr[i].fb = {} /\ Overwritten(r) = Overwritten(arr)
  <2>1. arr[i].fb = {}
    BY <1>1, <1>5, <1>8
  <2> HIDE DEF i, m
  <2>2. \A id : id \in Overwritten(r) => id \in Overwritten(arr)
    BY <1>3, <1>4, <1>6
  <2>3. \A id : id \in Overwritten(arr) => id \in Overwritten(r)
    BY <1>3, <1>4, <1>7, <2>1
  <2> QED
    BY <2>1, <2>2, <2>3
<1>9. ASSUME k = "feedback" PROVE Overwritten(r) = {} /\ arr[i].fb = Overwritten(arr)
  <2>1. \A j \in 1..m : j # i => arr[j].fb = {}
    BY <1>5, <1>9
  <2>2. Overwritten(r) = {}
    BY <1>4, <1>6, <2>1
  <2>3. arr[i].fb = Overwritten(arr)
    BY <1>1, <1>3, <2>1
  <2> QED
    BY <2>2, <2>3
<1> QED
  BY <1>8, <1>9 DEF r

(* A new object gets the slot behind the others. *)
Extended(st, k, g, n) ==
  /\ n.index = [st.index EXCEPT ![k] = Cardinality(Attached(st)) + 1]
  /\ n.gen = [st.gen EXCEPT ![k] = g]

ExtendedBy(st, k, g, n) ==
  /\ Attached(n) = Attached(st) \cup {k} /\ Indexes(n)
  /\ Cardinality(Attached(st)) \in Nat
  /\ Cardinality(Attached(n)) = Cardinality(Attached(st)) + 1
  /\ n.index[k] = Cardinality(Attached(st)) + 1 /\ n.gen[k] = g
  /\ \A o \in Kinds \ {k} : n.index[o] = st.index[o] /\ n.gen[o] = st.gen[o]

LEMMA ExtendIndexes ==
  ASSUME NEW st, NEW n, NEW k \in Kinds, k \notin Attached(st), NEW g \in Nat, Indexes(st),
         Extended(st, k, g, n)
  PROVE  ExtendedBy(st, k, g, n)
<1> DEFINE c == Cardinality(Attached(st))
<1>1. c \in Nat
  BY FS_CardinalityType DEF Indexes
<1> HIDE DEF c
<1>2. /\ n.index \in [Kinds -> Nat] /\ n.index[k] = c + 1
      /\ \A o \in Kinds \ {k} : n.index[o] = st.index[o]
  BY <1>1 DEF Extended, Indexes, c
<1>3. /\ n.gen \in [Kinds -> Nat] /\ n.gen[k] = g
      /\ \A o \in Kinds \ {k} : n.gen[o] = st.gen[o]
  BY DEF Extended, Indexes
<1>4. Attached(n) = Attached(st) \cup {k}
  <2>1. n.index[k] > 0
    BY <1>1, <1>2
  <2>2. \A o : o \in Attached(n) <=> o \in Attached(st) \/ o = k
    BY <1>2, <2>1 DEF Attached
  <2> QED
    BY <2>2
<1>5. IsFiniteSet(Attached(n)) /\ Cardinality(Attached(n)) = c + 1
  BY <1>4, FS_AddElement DEF Indexes, c
<1> QED
  BY <1>1, <1>2, <1>3, <1>4, <1>5 DEF Indexes, c, ExtendedBy

(* A state with the new slot. *)
AppendedSlot(st, n, k, s, arr, a) ==
  /\ Aligned(n, a) /\ Overwritten(a) = Overwritten(arr)
  /\ \A o \in Attached(st) : a[n.index[o]] = arr[st.index[o]]
  /\ a[n.index[k]] = s

LEMMA AlignAppend ==
  ASSUME NEW st, NEW n, NEW k \in Kinds, k \notin Attached(st), NEW g \in Nat, Indexes(st),
         Extended(st, k, g, n), NEW arr, Aligned(st, arr)
  PROVE  AppendedSlot(st, n, k, Slot(k, g), arr, Append(arr, Slot(k, g)))
<1> DEFINE s == Slot(k, g)
           a == Append(arr, s)
           m == Len(arr)
<1>1. s \in SlotShape /\ s.fb = {} /\ s.kind = k /\ s.gen = g
  BY SyncedAssumption DEF Slot, SlotShape
<1> HIDE DEF s
<1>2. arr \in Seq(SlotShape) /\ m \in Nat /\ m = Cardinality(Attached(st))
  BY SeqElements DEF Aligned
<1>3. /\ a \in Seq(SlotShape) /\ Len(a) = m + 1
      /\ \A i \in 1..m : a[i] = arr[i]
      /\ a[m + 1] = s
  BY <1>1, <1>2, AppendElements
<1>4. Overwritten(a) = Overwritten(arr)
  BY <1>1, <1>2, HeldAppend
<1> HIDE DEF a
<1>5. /\ Attached(n) = Attached(st) \cup {k} /\ Cardinality(Attached(n)) = m + 1
      /\ n.index[k] = m + 1 /\ n.gen[k] = g
      /\ \A o \in Kinds \ {k} : n.index[o] = st.index[o] /\ n.gen[o] = st.gen[o]
  <2>1. /\ Attached(n) = Attached(st) \cup {k}
        /\ Cardinality(Attached(n)) = Cardinality(Attached(st)) + 1
        /\ n.index[k] = Cardinality(Attached(st)) + 1 /\ n.gen[k] = g
        /\ \A o \in Kinds \ {k} : n.index[o] = st.index[o] /\ n.gen[o] = st.gen[o]
    BY ExtendIndexes DEF ExtendedBy
  <2> QED
    BY <1>2, <2>1
<1>6. \A o \in Attached(st) : /\ o \in Kinds /\ o # k /\ st.index[o] \in 1..m
                              /\ arr[st.index[o]].kind = o /\ arr[st.index[o]].gen = st.gen[o]
  BY DEF Aligned, Attached
<1>7. \A o \in Attached(st) : /\ n.index[o] \in 1..(m + 1) /\ a[n.index[o]] = arr[st.index[o]]
                              /\ a[n.index[o]].kind = o /\ a[n.index[o]].gen = n.gen[o]
  BY <1>2, <1>3, <1>5, <1>6
<1>8. \A i \in 1..(m + 1) : i = m + 1 \/ i \in 1..m
  BY <1>2
<1>9. \A i \in 1..m : /\ arr[i].kind \in Attached(st) /\ arr[i].kind \in Kinds \ {k}
                      /\ st.index[arr[i].kind] = i
                      /\ arr[i].fb # {} => arr[i].kind = "feedback"
  BY DEF Aligned, Attached
<1>10. \A i \in 1..(m + 1) : /\ a[i].kind \in Attached(n) /\ n.index[a[i].kind] = i
                             /\ a[i].fb # {} => a[i].kind = "feedback"
  <2> SUFFICES ASSUME NEW i \in 1..(m + 1)
               PROVE  /\ a[i].kind \in Attached(n) /\ n.index[a[i].kind] = i
                      /\ a[i].fb # {} => a[i].kind = "feedback"
    OBVIOUS
  <2>1. CASE i = m + 1
    BY <1>1, <1>3, <1>5, <2>1
  <2>2. CASE i \in 1..m
    BY <1>3, <1>5, <1>9, <2>2
  <2> QED
    BY <1>8, <2>1, <2>2
<1>11. m + 1 \in 1..(m + 1)
  BY <1>2
<1>12. Aligned(n, a)
  BY <1>1, <1>3, <1>5, <1>7, <1>10, <1>11 DEF Aligned
<1> QED
  BY <1>3, <1>4, <1>5, <1>7, <1>12 DEF a, s, AppendedSlot

(* A state with the kinds and numbers of another one belongs to the same    *)
(* objects.                                                                 *)
LEMMA AlignLike ==
  ASSUME NEW st, NEW arr, Aligned(st, arr), NEW new \in [1..Len(arr) -> SlotShape],
         \A i \in 1..Len(arr) : /\ new[i].kind = arr[i].kind /\ new[i].gen = arr[i].gen
                                /\ new[i].fb # {} => arr[i].kind = "feedback"
  PROVE  Aligned(st, new) /\ Len(new) = Len(arr) /\ new \in Seq(SlotShape)
<1>1. Len(arr) \in Nat /\ arr \in Seq(SlotShape)
  BY SeqElements DEF Aligned
<1>2. new \in Seq(SlotShape) /\ Len(new) = Len(arr)
  BY <1>1, FunctionIsSeq
<1> QED
  BY <1>2 DEF Aligned

LEMMA MovedSlots ==
  ASSUME NEW st, NEW dst, NEW src, Aligned(st, dst), Aligned(st, src)
  PROVE  /\ Aligned(st, Moved(st, dst, src)) /\ Overwritten(Moved(st, dst, src)) = Overwritten(src)
         /\ \A k \in Attached(st) : Moved(st, dst, src)[st.index[k]].v = src[st.index[k]].v
<1> DEFINE m == Len(dst)
           new == Moved(st, dst, src)
<1>1. /\ dst \in Seq(SlotShape) /\ src \in Seq(SlotShape) /\ m \in Nat /\ Len(src) = m
      /\ DOMAIN dst = 1..m /\ \A i \in 1..m : dst[i] \in SlotShape /\ src[i] \in SlotShape
  BY SeqElements DEF Aligned
<1>2. \A i \in 1..m : new[i] = [dst[i] EXCEPT !.v = src[i].v, !.fb = src[i].fb]
  <2> SUFFICES ASSUME NEW i \in 1..m
               PROVE  new[i] = [dst[i] EXCEPT !.v = src[i].v, !.fb = src[i].fb]
    OBVIOUS
  <2>1. dst[i].kind \in {k \in Attached(st) : st.index[k] = i}
    BY DEF Aligned
  <2> QED
    BY <1>1, <2>1 DEF Moved
<1>3. new = [i \in 1..m |-> new[i]]
  BY <1>1 DEF Moved
<1> HIDE DEF new, m
<1>4. ASSUME NEW i \in 1..m
      PROVE  /\ new[i] \in SlotShape /\ new[i].kind = dst[i].kind /\ new[i].gen = dst[i].gen
             /\ new[i].v = src[i].v /\ new[i].fb = src[i].fb
  <2>1. dst[i] \in SlotShape /\ src[i] \in SlotShape
    BY <1>1
  <2>2. src[i].v \in SyncedValues /\ src[i].fb \in SUBSET FeedbackId
    BY <2>1 DEF SlotShape
  <2> QED
    BY <1>2, <2>1, <2>2 DEF SlotShape
<1>5. \A i \in 1..m : dst[i].kind = src[i].kind
  BY <1>1 DEF Aligned, m
<1>6. new \in [1..m -> SlotShape]
  BY <1>3, <1>4
<1>7. \A i \in 1..m : new[i].fb # {} => dst[i].kind = "feedback"
  BY <1>1, <1>4, <1>5 DEF Aligned
<1>8. Aligned(st, new) /\ Len(new) = m /\ new \in Seq(SlotShape)
  BY <1>4, <1>6, <1>7, AlignLike DEF m
<1>9. \A id : id \in Overwritten(new) <=> id \in Overwritten(src)
  <2>1. \A id : id \in Overwritten(new) <=> \E i \in 1..m : id \in new[i].fb
    BY <1>8, HeldBy
  <2>2. \A id : id \in Overwritten(src) <=> \E i \in 1..m : id \in src[i].fb
    BY <1>1, HeldBy
  <2> QED
    BY <1>4, <2>1, <2>2
<1>10. \A k \in Attached(st) : new[st.index[k]].v = src[st.index[k]].v
  BY <1>4 DEF Aligned, m
<1> QED
  BY <1>8, <1>9, <1>10 DEF new

(* What a commit leaves in the pending state, and what it starts from in a  *)
(* new one.                                                                 *)
LEMMA EmptiedSlots ==
  ASSUME NEW st, NEW arr, Aligned(st, arr), NEW new,
         \/ new = surface_synced_move_state(arr)
         \/ new = [i \in DOMAIN arr |-> [arr[i] EXCEPT !.v = 0, !.fb = {}]]
  PROVE  Aligned(st, new) /\ Overwritten(new) = {}
<1> DEFINE m == Len(arr)
<1>1. arr \in Seq(SlotShape) /\ m \in Nat /\ DOMAIN arr = 1..m /\ \A i \in 1..m : arr[i] \in SlotShape
  BY SeqElements DEF Aligned
<1> HIDE DEF m
<1>2. /\ new = [i \in 1..m |-> new[i]]
      /\ \A i \in 1..m : \/ new[i] = [arr[i] EXCEPT !.fb = {}]
                         \/ new[i] = [arr[i] EXCEPT !.v = 0, !.fb = {}]
  BY <1>1 DEF surface_synced_move_state
<1>3. ASSUME NEW i \in 1..m
      PROVE  /\ new[i] \in SlotShape /\ new[i].kind = arr[i].kind /\ new[i].gen = arr[i].gen
             /\ new[i].fb = {}
  <2>1. arr[i] \in SlotShape /\ 0 \in SyncedValues
    BY <1>1, SyncedAssumption
  <2>2. CASE new[i] = [arr[i] EXCEPT !.fb = {}]
    BY <2>1, <2>2 DEF SlotShape
  <2>3. CASE new[i] = [arr[i] EXCEPT !.v = 0, !.fb = {}]
    BY <2>1, <2>3 DEF SlotShape
  <2> QED
    BY <1>2, <2>2, <2>3
<1>4. new \in [1..m -> SlotShape]
  BY <1>2, <1>3
<1>5. Aligned(st, new) /\ Len(new) = m /\ new \in Seq(SlotShape)
  BY <1>3, <1>4, AlignLike DEF m
<1>6. \A id : id \in Overwritten(new) <=> \E i \in 1..m : id \in new[i].fb
  BY <1>5, HeldBy
<1> QED
  BY <1>3, <1>5, <1>6

-----------------------------------------------------------------------------
(* wlr_surface_synced_init and wlr_surface_synced_finish as functions of    *)
(* states.                                                                  *)
Rest(st, n) ==
  /\ n.alive = st.alive /\ n.client = st.client /\ n.inert = st.inert /\ n.hint = st.hint
  /\ n.queued = st.queued /\ n.output = st.output /\ n.seq = st.seq /\ n.owed = st.owed

Initialized(st, k, n) ==
  /\ n \in ExtShape /\ AlignedStates(n) /\ FeedbackHeld(n) /\ Rest(st, n)
  /\ n.fate = st.fate /\ n.index[k] > 0
  /\ n.current[n.index[k]].v = 0
  /\ k # "tearing" => HintOf(n)

LEMMA HeldSame ==
  ASSUME NEW st, NEW n, FeedbackHeld(st), n.fate = st.fate, n.queued = st.queued,
         Overwritten(n.pending) = Overwritten(st.pending),
         Overwritten(n.current) = Overwritten(st.current), CachedFeedback(n) = CachedFeedback(st)
  PROVE  FeedbackHeld(n)
BY DEF FeedbackHeld, Waiting

(* The states that wait, changed one by one. *)
LEMMA CachedSame ==
  ASSUME NEW st, NEW n, st.cached \in Seq(Seq(SlotShape)), n.cached \in [1..Len(st.cached) -> Seq(SlotShape)],
         \A c \in 1..Len(st.cached) : Overwritten(n.cached[c]) = Overwritten(st.cached[c])
  PROVE  CachedFeedback(n) = CachedFeedback(st)
<1>1. DOMAIN st.cached = 1..Len(st.cached) /\ DOMAIN n.cached = 1..Len(st.cached)
  BY SeqElements
<1> QED
  BY <1>1 DEF CachedFeedback

LEMMA KindsThere == "tearing" \in Kinds /\ "feedback" \in Kinds /\ "tearing" # "feedback"
BY SyncedAssumption DEF Kinds

LEMMA SyncedInit ==
  ASSUME NEW st, ExtSound(st), NEW k \in Kinds, k \notin Attached(st)
  PROVE  Initialized(st, k, wlr_surface_synced_init(st, k))
<1> DEFINE g == st.born + 1
           s == Slot(k, g)
           I == [st.index EXCEPT ![k] = Cardinality(Attached(st)) + 1]
           G == [st.gen EXCEPT ![k] = g]
           P == Append(st.pending, s)
           C == Append(st.current, s)
           H == [i \in DOMAIN st.cached |-> Append(st.cached[i], s)]
           n == wlr_surface_synced_init(st, k)
<1>0. st \in ExtShape /\ AlignedStates(st) /\ FeedbackHeld(st) /\ HintOf(st)
  BY DEF ExtSound
<1>1. /\ g \in Nat /\ st.gen \in [Kinds -> Nat] /\ st.index \in [Kinds -> Nat] /\ Indexes(st)
      /\ st.cached \in Seq(Seq(SlotShape)) /\ st.born \in Nat
  BY <1>0 DEF ExtShape, AlignedStates, Indexes
<1>2. n = [st EXCEPT !.index = I, !.gen = G, !.born = g, !.pending = P, !.current = C, !.cached = H]
  BY <1>0 DEF wlr_surface_synced_init, ExtShape
<1>h. DOMAIN st.cached = 1..Len(st.cached) /\ Len(st.cached) \in Nat
  BY <1>1, SeqElements
<1>3. H = [i \in 1..Len(st.cached) |-> Append(st.cached[i], s)]
  BY <1>h
<1> DEFINE m == [index |-> I, gen |-> G]
<1>4. Extended(st, k, g, m) /\ m.index = I /\ m.gen = G
  BY DEF Extended
<1>a. g \in Nat /\ Indexes(st) /\ Extended(st, k, g, m)
  BY <1>1, <1>4
<1> HIDE DEF g, I, G, m, n
<1>5. /\ Attached(m) = Attached(st) \cup {k} /\ Indexes(m)
      /\ Cardinality(Attached(st)) \in Nat
      /\ m.index[k] = Cardinality(Attached(st)) + 1
      /\ \A o \in Kinds \ {k} : m.index[o] = st.index[o]
  <2>1. ExtendedBy(st, k, g, m)
    BY <1>a, ExtendIndexes
  <2> QED
    BY <2>1 DEF ExtendedBy
<1>6. ASSUME NEW arr, Aligned(st, arr)
      PROVE  /\ Aligned(m, Append(arr, s)) /\ Overwritten(Append(arr, s)) = Overwritten(arr)
             /\ \A o \in Attached(st) : Append(arr, s)[m.index[o]] = arr[st.index[o]]
             /\ Append(arr, s)[m.index[k]] = s
  <2>1. AppendedSlot(st, m, k, s, arr, Append(arr, s))
    BY <1>a, <1>6, AlignAppend
  <2> QED
    BY <2>1 DEF AppendedSlot
<1>7. s.v = 0
  BY DEF Slot
<1> HIDE DEF s
<1>8. /\ Aligned(m, P) /\ Overwritten(P) = Overwritten(st.pending)
      /\ Aligned(m, C) /\ Overwritten(C) = Overwritten(st.current) /\ C[m.index[k]] = s
      /\ \A o \in Attached(st) : C[m.index[o]] = st.current[st.index[o]]
  BY <1>0, <1>6 DEF AlignedStates
<1>9. \A c \in 1..Len(st.cached) : /\ Aligned(m, H[c]) /\ H[c] \in Seq(SlotShape)
                                   /\ Overwritten(H[c]) = Overwritten(st.cached[c])
  <2>1. \A c \in 1..Len(st.cached) : H[c] = Append(st.cached[c], s) /\ Aligned(st, st.cached[c])
    BY <1>0, <1>3 DEF AlignedStates
  <2> HIDE DEF H
  <2>2. \A c \in 1..Len(st.cached) : Aligned(m, H[c]) /\ Overwritten(H[c]) = Overwritten(st.cached[c])
    BY <1>6, <2>1
  <2> QED
    BY <2>2 DEF Aligned
<1>10. H \in [1..Len(st.cached) -> Seq(SlotShape)]
  <2>1. H = [c \in 1..Len(st.cached) |-> H[c]]
    BY <1>3
  <2> HIDE DEF H
  <2> QED
    BY <1>9, <2>1
<1> HIDE DEF H, P, C
<1>11. H \in Seq(Seq(SlotShape)) /\ Len(H) = Len(st.cached)
  BY <1>h, <1>10, FunctionIsSeq
<1>12. /\ I \in [Kinds -> Nat] /\ G \in [Kinds -> Nat] /\ P \in Seq(SlotShape) /\ C \in Seq(SlotShape)
  BY <1>4, <1>5, <1>8 DEF Indexes, Aligned
<1> HIDE DEF n
<1>13. n \in ExtShape
  BY <1>0, <1>1, <1>2, <1>11, <1>12 DEF ExtShape
<1>14. /\ n.index = I /\ n.gen = G /\ n.pending = P /\ n.current = C /\ n.cached = H
       /\ n.fate = st.fate
  BY <1>0, <1>2 DEF ExtShape
<1>15. Rest(st, n)
  BY <1>0, <1>2 DEF ExtShape, Rest
<1>16. Attached(n) = Attached(m) /\ \A arr : Aligned(m, arr) => Aligned(n, arr)
  BY <1>4, <1>14 DEF Attached, Aligned
<1>17. AlignedStates(n)
  BY <1>5, <1>8, <1>9, <1>11, <1>14, <1>16 DEF AlignedStates, Indexes
<1>18. CachedFeedback(n) = CachedFeedback(st)
  BY <1>1, <1>9, <1>10, <1>14, CachedSame
<1>19. FeedbackHeld(n)
  <2>1. n.queued = st.queued
    BY <1>15 DEF Rest
  <2> QED
    BY <1>0, <1>8, <1>14, <1>18, <2>1, HeldSame
<1>20. n.index[k] > 0 /\ n.current[n.index[k]].v = 0
  BY <1>4, <1>5, <1>7, <1>8, <1>14
<1>21. k # "tearing" => HintOf(n)
  <2> SUFFICES ASSUME k # "tearing", n.alive, n.index["tearing"] > 0
               PROVE  n.hint = n.current[n.index["tearing"]].v
    BY DEF HintOf
  <2>1. "tearing" \in Kinds \ {k} /\ n.index["tearing"] = st.index["tearing"]
    BY <1>4, <1>5, <1>14, KindsThere
  <2>2. "tearing" \in Attached(st)
    BY <2>1 DEF Attached
  <2> QED
    BY <1>0, <1>4, <1>8, <1>14, <1>15, <2>1, <2>2 DEF HintOf, Rest
<1>22. Initialized(st, k, n)
  BY <1>13, <1>14, <1>15, <1>17, <1>19, <1>20, <1>21 DEF Initialized
<1> QED
  BY <1>22 DEF n

Finished(st, k, n) ==
  /\ n \in ExtShape /\ AlignedStates(n) /\ FeedbackHeld(n) /\ HintOf(n) /\ Rest(st, n)
  /\ Attached(n) = Attached(st) \ {k}

(* Feedback that is answered. *)
LEMMA AnsweredFates ==
  ASSUME NEW fate, fate \in [FeedbackId -> Fates], NEW ids, NEW result \in Fates \ {"waiting"}
  PROVE  LET f == [i \in FeedbackId |-> IF i \in ids THEN result ELSE fate[i]] IN
         /\ f \in [FeedbackId -> Fates]
         /\ {id \in FeedbackId : f[id] = "waiting"} = {id \in FeedbackId : fate[id] = "waiting"} \ ids
BY DEF Fates

SlotRemoved(st, n, k, arr, a) ==
  /\ Aligned(n, a) /\ \A o \in Attached(n) : a[n.index[o]] = arr[st.index[o]]
  /\ k # "feedback" => Overwritten(a) = Overwritten(arr) /\ arr[st.index[k]].fb = {}
  /\ k = "feedback" => Overwritten(a) = {} /\ arr[st.index[k]].fb = Overwritten(arr)

LEMMA RemoveSlot ==
  ASSUME NEW st, NEW n, NEW k \in Attached(st), Indexes(st), Shifted(st, k, n),
         NEW arr, Aligned(st, arr)
  PROVE  SlotRemoved(st, n, k, arr, array_remove_at(arr, st.index[k]))
BY AlignRemove, HeldRemove DEF SlotRemoved

LEMMA SyncedFinish ==
  ASSUME NEW st, ExtSound(st), NEW k \in Attached(st)
  PROVE  Finished(st, k, wlr_surface_synced_finish(st, k))
<1> DEFINE i == st.index[k]
           ids == st.pending[i].fb \cup st.current[i].fb
                  \cup UNION {st.cached[c][i].fb : c \in DOMAIN st.cached}
           F == [j \in FeedbackId |-> IF j \in ids THEN "discarded" ELSE st.fate[j]]
           I == [o \in Kinds |-> IF o = k THEN 0
                                 ELSE IF st.index[o] > i THEN st.index[o] - 1 ELSE st.index[o]]
           P == array_remove_at(st.pending, i)
           C == array_remove_at(st.current, i)
           H == [c \in DOMAIN st.cached |-> array_remove_at(st.cached[c], i)]
           n == wlr_surface_synced_finish(st, k)
           m == [index |-> I, gen |-> st.gen]
           d == wlr_presentation_feedback_destroy(st, ids)
<1>0. st \in ExtShape /\ AlignedStates(st) /\ FeedbackHeld(st) /\ HintOf(st)
  BY DEF ExtSound
<1>1. /\ st.cached \in Seq(Seq(SlotShape)) /\ st.fate \in [FeedbackId -> Fates]
      /\ st.gen \in [Kinds -> Nat] /\ st.index \in [Kinds -> Nat]
  BY <1>0 DEF ExtShape
<1>2. n = [st EXCEPT !.index = I, !.fate = F, !.pending = P, !.current = C, !.cached = H]
  <2>1. d = [st EXCEPT !.fate = F]
    BY <1>0 DEF wlr_presentation_feedback_destroy, ExtShape
  <2>2. n = [d EXCEPT !.index = [o \in Kinds |-> IF o = k THEN 0 ELSE IF @[o] > i THEN @[o] - 1 ELSE @[o]],
                      !.pending = array_remove_at(@, i), !.current = array_remove_at(@, i),
                      !.cached = [c \in DOMAIN @ |-> array_remove_at(@[c], i)]]
    BY DEF wlr_surface_synced_finish
  <2> HIDE DEF d, n, ids, F, i
  <2>3. /\ d.index = st.index /\ d.pending = st.pending /\ d.current = st.current /\ d.cached = st.cached
    BY <1>0, <2>1 DEF ExtShape
  <2>4. d \in [alive : BOOLEAN, client : BOOLEAN, index : [Kinds -> Nat], gen : [Kinds -> Nat],
               born : Nat, inert : SUBSET Kinds,
               pending : Seq(SlotShape), cached : Seq(Seq(SlotShape)), current : Seq(SlotShape),
               hint : SyncedValues, fate : {F}, queued : SUBSET QueuedShape,
               output : BOOLEAN, seq : Nat, owed : SUBSET Nat]
    BY <1>0, <2>1 DEF ExtShape
  <2>5. n = [d EXCEPT !.index = I, !.pending = P, !.current = C, !.cached = H]
    BY <2>2, <2>3, <2>4
  <2> HIDE DEF I, P, C, H
  <2> QED
    BY <1>0, <2>1, <2>5 DEF ExtShape
<1>3. Shifted(st, k, m) /\ Indexes(st) /\ m.index = I /\ m.gen = st.gen
  BY <1>0, <1>1 DEF Shifted, Indexes, AlignedStates
<1>h. /\ DOMAIN st.cached = 1..Len(st.cached) /\ Len(st.cached) \in Nat
      /\ \A c \in 1..Len(st.cached) : H[c] = array_remove_at(st.cached[c], i)
      /\ H = [c \in 1..Len(st.cached) |-> H[c]]
  <2>1. DOMAIN st.cached = 1..Len(st.cached) /\ Len(st.cached) \in Nat
    BY <1>1, SeqElements
  <2> QED
    BY <2>1
<1>4. /\ F \in [FeedbackId -> Fates]
      /\ {id \in FeedbackId : F[id] = "waiting"} = Waiting(st) \ ids
  BY <1>1, AnsweredFates DEF Waiting, Fates
<1> HIDE DEF m, n, d, I, F
<1>5. Attached(m) = Attached(st) \ {k} /\ Indexes(m)
  BY <1>3, ShiftIndexes
<1>6. ASSUME NEW arr, Aligned(st, arr) PROVE SlotRemoved(st, m, k, arr, array_remove_at(arr, i))
  BY <1>3, <1>6, RemoveSlot
<1>7. SlotRemoved(st, m, k, st.pending, P) /\ SlotRemoved(st, m, k, st.current, C)
  BY <1>0, <1>6 DEF AlignedStates
<1>8. \A c \in 1..Len(st.cached) : SlotRemoved(st, m, k, st.cached[c], H[c])
  <2> HIDE DEF H
  <2> QED
    BY <1>0, <1>6, <1>h DEF AlignedStates
<1> HIDE DEF P, C, H, i
<1>9. \A c \in 1..Len(st.cached) : Aligned(m, H[c]) /\ H[c] \in Seq(SlotShape)
  BY <1>8 DEF SlotRemoved, Aligned
<1>10. H \in [1..Len(st.cached) -> Seq(SlotShape)]
  BY <1>9, <1>h
<1>11. H \in Seq(Seq(SlotShape)) /\ Len(H) = Len(st.cached)
  BY <1>h, <1>10, FunctionIsSeq
<1>12. I \in [Kinds -> Nat] /\ P \in Seq(SlotShape) /\ C \in Seq(SlotShape)
  BY <1>3, <1>5, <1>7 DEF Indexes, Aligned, SlotRemoved
<1>13. n \in ExtShape
  BY <1>0, <1>2, <1>4, <1>11, <1>12 DEF ExtShape
<1>14. /\ n.index = I /\ n.gen = st.gen /\ n.pending = P /\ n.current = C /\ n.cached = H /\ n.fate = F
  BY <1>0, <1>2 DEF ExtShape
<1>15. Rest(st, n)
  BY <1>0, <1>2 DEF ExtShape, Rest
<1>16. Attached(n) = Attached(m) /\ \A arr : Aligned(m, arr) => Aligned(n, arr)
  BY <1>3, <1>14 DEF Attached, Aligned
<1>17. AlignedStates(n)
  BY <1>5, <1>7, <1>9, <1>11, <1>14, <1>16 DEF AlignedStates, Indexes, SlotRemoved
<1>18. HintOf(n)
  <2> SUFFICES ASSUME n.alive, n.index["tearing"] > 0
               PROVE  n.hint = n.current[n.index["tearing"]].v
    BY DEF HintOf
  <2>1. "tearing" \in Attached(n)
    BY KindsThere DEF Attached
  <2>2. C[n.index["tearing"]] = st.current[st.index["tearing"]] /\ "tearing" \in Attached(st)
    BY <1>3, <1>5, <1>7, <1>14, <1>16, <2>1 DEF SlotRemoved
  <2> QED
    BY <1>0, <1>14, <1>15, <2>2 DEF HintOf, Rest, Attached
<1>19. Waiting(n) = Waiting(st) \ ids /\ n.queued = st.queued
  BY <1>4, <1>14, <1>15 DEF Waiting, Rest
<1>20. /\ DOMAIN CachedFeedback(st) = 1..Len(st.cached) /\ DOMAIN CachedFeedback(n) = 1..Len(st.cached)
       /\ \A c \in 1..Len(st.cached) : /\ CachedFeedback(st)[c] = Overwritten(st.cached[c])
                                       /\ CachedFeedback(n)[c] = Overwritten(H[c])
  BY <1>h, <1>10, <1>14 DEF CachedFeedback
<1>21. ASSUME k # "feedback" PROVE FeedbackHeld(n)
  <2>1. ids = {}
    <3>1. st.pending[i].fb = {} /\ st.current[i].fb = {}
      BY <1>7, <1>21 DEF SlotRemoved, i
    <3>2. \A c \in 1..Len(st.cached) : st.cached[c][i].fb = {}
      BY <1>8, <1>21 DEF SlotRemoved, i
    <3> QED
      BY <1>h, <3>1, <3>2
  <2>2. n.fate = st.fate
    BY <1>1, <1>14, <2>1 DEF F
  <2>3. CachedFeedback(n) = CachedFeedback(st)
    <3>1. \A c \in 1..Len(st.cached) : Overwritten(n.cached[c]) = Overwritten(st.cached[c])
      BY <1>8, <1>14, <1>21 DEF SlotRemoved
    <3> QED
      BY <1>1, <1>10, <1>14, <3>1, CachedSame
  <2>4. Overwritten(n.pending) = Overwritten(st.pending) /\ Overwritten(n.current) = Overwritten(st.current)
    BY <1>7, <1>14, <1>21 DEF SlotRemoved
  <2> QED
    BY <1>0, <1>19, <2>2, <2>3, <2>4, HeldSame
<1>22. ASSUME k = "feedback" PROVE FeedbackHeld(n)
  <2> DEFINE p == Overwritten(st.pending)
             c == Overwritten(st.current)
             K == CachedFeedback(st)
             L == CachedFeedback(n)
  <2>1. /\ Overwritten(n.pending) = {} /\ Overwritten(n.current) = {}
        /\ st.pending[i].fb = p /\ st.current[i].fb = c
    BY <1>7, <1>14, <1>22 DEF SlotRemoved, i
  <2>2. \A x \in 1..Len(st.cached) : Overwritten(H[x]) = {} /\ st.cached[x][i].fb = Overwritten(st.cached[x])
    BY <1>8, <1>22 DEF SlotRemoved, i
  <2>3. DOMAIN L = DOMAIN K /\ \A x \in DOMAIN K : L[x] = {} /\ st.cached[x][i].fb = K[x]
    BY <1>20, <2>2
  <2>4. ids = p \cup c \cup UNION {K[x] : x \in DOMAIN K}
    BY <1>h, <1>20, <2>1, <2>3
  <2>5. Separate(p, c, K, st.queued, Waiting(st))
    BY <1>0 DEF FeedbackHeld
  <2> HIDE DEF p, c, K, L, ids
  <2>6. Separate({}, {}, L, st.queued, Waiting(st) \ (p \cup c \cup UNION {K[x] : x \in DOMAIN K}))
    BY <2>3, <2>5, SepFinish
  <2>7. Separate({}, {}, L, n.queued, Waiting(n))
    BY <1>19, <2>4, <2>6
  <2> QED
    BY <2>1, <2>7 DEF FeedbackHeld, L
<1>23. Finished(st, k, n)
  BY <1>5, <1>13, <1>15, <1>16, <1>17, <1>18, <1>21, <1>22 DEF Finished
<1> QED
  BY <1>23 DEF n

(* One slot of a state changes. *)
SlotChanged(st, k, s, arr, a) ==
  /\ Aligned(st, a) /\ a[st.index[k]] = s
  /\ \A o \in Attached(st) \ {k} : a[st.index[o]] = arr[st.index[o]]
  /\ k # "feedback" => Overwritten(a) = Overwritten(arr)
  /\ k = "feedback" => Overwritten(a) = s.fb /\ arr[st.index[k]].fb = Overwritten(arr)

LEMMA ChangeSlot ==
  ASSUME NEW st, NEW k \in Attached(st), NEW arr, Aligned(st, arr), NEW s \in SlotShape,
         s.kind = k, s.gen = st.gen[k], s.fb # {} => k = "feedback"
  PROVE  SlotChanged(st, k, s, arr, [arr EXCEPT ![st.index[k]] = s])
<1> DEFINE i == st.index[k]
           a == [arr EXCEPT ![i] = s]
           m == Len(arr)
<1>1. /\ arr \in Seq(SlotShape) /\ m \in Nat /\ i \in 1..m /\ arr[i].kind = k /\ arr[i].gen = s.gen
      /\ arr \in [1..m -> SlotShape]
  BY SeqElements, LenProperties DEF Aligned
<1>2. /\ a \in [1..m -> SlotShape] /\ a[i] = s /\ \A j \in 1..m : j # i => a[j] = arr[j]
  BY <1>1
<1> HIDE DEF a
<1>3. \A j \in 1..m : /\ arr[j].fb # {} => arr[j].kind = "feedback"
                      /\ j # i => arr[j].kind # k
  BY <1>1 DEF Aligned
<1>4. \A j \in 1..m : /\ a[j].kind = arr[j].kind /\ a[j].gen = arr[j].gen
                      /\ a[j].fb # {} => arr[j].kind = "feedback"
  BY <1>1, <1>2, <1>3
<1>5. Aligned(st, a) /\ Len(a) = m /\ a \in Seq(SlotShape)
  BY <1>2, <1>4, AlignLike
<1>6. \A o \in Attached(st) \ {k} : a[st.index[o]] = arr[st.index[o]]
  BY <1>1, <1>2 DEF Aligned
<1>7. \A id : id \in Overwritten(arr) <=> \E j \in 1..m : id \in arr[j].fb
  BY <1>1, HeldBy
<1>8. \A id : id \in Overwritten(a) <=> \E j \in 1..m : id \in a[j].fb
  BY <1>5, HeldBy
<1> HIDE DEF m, i
<1>9. ASSUME k # "feedback" PROVE Overwritten(a) = Overwritten(arr)
  <2>1. \A j \in 1..m : a[j].fb = arr[j].fb
    BY <1>1, <1>2, <1>3, <1>9
  <2> QED
    BY <1>7, <1>8, <2>1
<1>10. ASSUME k = "feedback" PROVE Overwritten(a) = s.fb /\ arr[i].fb = Overwritten(arr)
  <2>1. \A j \in 1..m : j # i => arr[j].fb = {} /\ a[j].fb = {}
    BY <1>2, <1>3, <1>10
  <2>2. arr[i].fb = Overwritten(arr)
    BY <1>1, <1>7, <2>1
  <2>3. Overwritten(a) = s.fb
    BY <1>1, <1>2, <1>8, <2>1
  <2> QED
    BY <2>2, <2>3
<1> QED
  BY <1>2, <1>5, <1>6, <1>9, <1>10 DEF SlotChanged, a, i

(* A step that leaves the objects alone. *)
LEMMA AlignSame ==
  ASSUME NEW st, NEW n, n.index = st.index, n.gen = st.gen
  PROVE  Attached(n) = Attached(st) /\ \A arr : Aligned(n, arr) <=> Aligned(st, arr)
BY DEF Attached, Aligned

LEMMA ExtStarts == ExtInit => ExtInv
<1> SUFFICES ASSUME ExtInit PROVE ExtInv
  OBVIOUS
<1>1. <<>> \in Seq(SlotShape) /\ <<>> \in Seq(Seq(SlotShape)) /\ Len(<<>>) = 0
  BY EmptySeq
<1>2. 0 \in SyncedValues
  BY SyncedAssumption
<1> DEFINE z == [k \in Kinds |-> 0]
           f == [i \in FeedbackId |-> "none"]
<1>3. /\ z \in [Kinds -> Nat] /\ f \in [FeedbackId -> Fates]
      /\ \A k \in Kinds : z[k] = 0
      /\ \A id \in FeedbackId : f[id] # "waiting"
  BY DEF Fates
<1>4. ext = [alive |-> TRUE, client |-> TRUE, index |-> z, gen |-> z, born |-> 0, inert |-> {},
             pending |-> <<>>, cached |-> <<>>, current |-> <<>>,
             hint |-> 0, fate |-> f, queued |-> {}, output |-> TRUE, seq |-> 0, owed |-> {}]
  BY DEF ExtInit
<1> HIDE DEF z, f
<1>5. ext \in ExtShape
  BY <1>1, <1>2, <1>3, <1>4 DEF ExtShape
<1>6. /\ ext.index = z /\ ext.pending = <<>> /\ ext.current = <<>> /\ ext.cached = <<>>
      /\ ext.fate = f /\ ext.queued = {}
  BY <1>4
<1>7. Attached(ext) = {}
  BY <1>3, <1>6 DEF Attached
<1>8. AlignedStates(ext)
  <2>1. IsFiniteSet(Attached(ext)) /\ Cardinality(Attached(ext)) = 0
    BY <1>7, FS_EmptySet
  <2>2. \A i \in 1..Len(<<>>) : FALSE
    BY <1>1
  <2>3. Aligned(ext, <<>>)
    BY <1>1, <1>7, <2>1, <2>2 DEF Aligned
  <2> QED
    BY <1>6, <2>1, <2>2, <2>3 DEF AlignedStates
<1>9. FeedbackHeld(ext)
  <2>1. Waiting(ext) = {}
    BY <1>3, <1>6 DEF Waiting
  <2>2. DOMAIN CachedFeedback(ext) = {}
    BY <1>6, EmptySeq DEF CachedFeedback
  <2>3. Overwritten(<<>>) = {}
    BY EmptySeq DEF Overwritten
  <2> QED
    BY <1>6, <2>1, <2>2, <2>3 DEF FeedbackHeld, Separate
<1>10. HintOf(ext)
  BY <1>3, <1>6, KindsThere DEF HintOf
<1> QED
  BY <1>5, <1>8, <1>9, <1>10 DEF ExtInv, ExtSound

LEMMA ExtGetObject ==
  ASSUME ExtInv, NEW k, GetObject(k) PROVE ExtInv'
<1> DEFINE n == wlr_surface_synced_init(ext, k)
           h == IF k = "tearing" THEN 0 ELSE n.hint
<1>1. k \in Kinds /\ k \notin Attached(ext) /\ ext' = [n EXCEPT !.hint = IF k = "tearing" THEN 0 ELSE @]
  BY DEF GetObject, Kinds, Attached
<1>2. Initialized(ext, k, n)
  BY <1>1, SyncedInit DEF ExtInv
<1> HIDE DEF n
<1>3. n \in ExtShape /\ AlignedStates(n) /\ FeedbackHeld(n)
  BY <1>2 DEF Initialized
<1>4. ext' = [n EXCEPT !.hint = h]
  BY <1>1, <1>3 DEF ExtShape
<1>5. h \in SyncedValues
  BY <1>3, SyncedAssumption DEF ExtShape
<1>h. h = IF k = "tearing" THEN 0 ELSE n.hint
  OBVIOUS
<1> HIDE DEF h
<1>6. ext' \in ExtShape
  BY <1>3, <1>4, <1>5 DEF ExtShape
<1>7. /\ ext'.index = n.index /\ ext'.gen = n.gen /\ ext'.pending = n.pending /\ ext'.alive = n.alive
      /\ ext'.current = n.current /\ ext'.cached = n.cached /\ ext'.fate = n.fate
      /\ ext'.queued = n.queued /\ ext'.hint = h
  BY <1>3, <1>4 DEF ExtShape
<1>8. AlignedStates(ext')
  BY <1>3, <1>7, AlignSame DEF AlignedStates
<1>9. FeedbackHeld(ext')
  BY <1>3, <1>7 DEF FeedbackHeld, CachedFeedback, Waiting
<1>10. HintOf(ext')
  BY <1>2, <1>7, <1>h DEF HintOf, Initialized
<1> QED
  BY <1>6, <1>8, <1>9, <1>10 DEF ExtInv, ExtSound

LEMMA ExtSetValue ==
  ASSUME ExtInv, NEW k \in Kinds, k # "feedback", NEW v \in SyncedValues, SetValue(k, v) PROVE ExtInv'
<1> DEFINE i == ext.index[k]
           s == [ext.pending[i] EXCEPT !.v = v]
           P == [ext.pending EXCEPT ![i] = s]
<1>0. ext \in ExtShape /\ AlignedStates(ext) /\ FeedbackHeld(ext) /\ HintOf(ext)
  BY DEF ExtInv, ExtSound
<1>1. k \in Attached(ext) /\ ext' = [ext EXCEPT !.pending = P]
  BY <1>0 DEF SetValue, Attached, ExtShape
<1>2. /\ Aligned(ext, ext.pending) /\ ext.pending[i] \in SlotShape /\ ext.pending[i].kind = k
      /\ ext.pending[i].gen = ext.gen[k] /\ (ext.pending[i].fb # {} => k = "feedback")
  BY <1>0, <1>1, SeqElements DEF AlignedStates, Aligned
<1>3. s \in SlotShape /\ s.kind = k /\ s.gen = ext.gen[k] /\ (s.fb # {} => k = "feedback")
  BY <1>2 DEF SlotShape
<1> HIDE DEF s
<1>4. SlotChanged(ext, k, s, ext.pending, P)
  BY <1>1, <1>2, <1>3, ChangeSlot
<1> HIDE DEF P
<1>5. Aligned(ext, P) /\ P \in Seq(SlotShape) /\ Overwritten(P) = Overwritten(ext.pending)
  BY <1>4 DEF SlotChanged, Aligned
<1>6. ext' \in ExtShape
  BY <1>0, <1>1, <1>5 DEF ExtShape
<1>7. /\ ext'.index = ext.index /\ ext'.gen = ext.gen /\ ext'.pending = P /\ ext'.alive = ext.alive
      /\ ext'.current = ext.current /\ ext'.cached = ext.cached /\ ext'.fate = ext.fate
      /\ ext'.queued = ext.queued /\ ext'.hint = ext.hint
  BY <1>0, <1>1 DEF ExtShape
<1>8. AlignedStates(ext')
  BY <1>0, <1>5, <1>7, AlignSame DEF AlignedStates
<1>9. FeedbackHeld(ext')
  BY <1>0, <1>5, <1>7 DEF FeedbackHeld, CachedFeedback, Waiting
<1>10. HintOf(ext')
  BY <1>0, <1>7 DEF HintOf
<1> QED
  BY <1>6, <1>8, <1>9, <1>10 DEF ExtInv, ExtSound

LEMMA ExtDestroyObject ==
  ASSUME ExtInv, NEW k \in Kinds, DestroyObject(k) PROVE ExtInv'
<1>0. ext \in ExtShape /\ AlignedStates(ext) /\ FeedbackHeld(ext) /\ HintOf(ext)
  BY DEF ExtInv, ExtSound
<1>1. CASE ext.index[k] > 0 /\ ext' = wlr_surface_synced_finish(ext, k)
  <2> DEFINE n == wlr_surface_synced_finish(ext, k)
  <2>1. k \in Attached(ext)
    BY <1>1 DEF Attached
  <2>2. Finished(ext, k, n)
    BY <2>1, SyncedFinish DEF ExtInv
  <2> HIDE DEF n
  <2>3. ext' = n
    BY <1>1 DEF n
  <2> QED
    BY <2>2, <2>3 DEF Finished, ExtInv, ExtSound
<1>2. CASE k \in ext.inert /\ ext' = [ext EXCEPT !.inert = @ \ {k}]
  <2> DEFINE x == ext.inert \ {k}
  <2>1. ext' = [ext EXCEPT !.inert = x] /\ x \in SUBSET Kinds
    BY <1>0, <1>2 DEF ExtShape
  <2> HIDE DEF x
  <2>2. ext' \in ExtShape
    BY <1>0, <2>1 DEF ExtShape
  <2>3. /\ ext'.index = ext.index /\ ext'.gen = ext.gen /\ ext'.pending = ext.pending
        /\ ext'.alive = ext.alive
        /\ ext'.current = ext.current /\ ext'.cached = ext.cached /\ ext'.fate = ext.fate
        /\ ext'.queued = ext.queued /\ ext'.hint = ext.hint
    BY <1>0, <2>1 DEF ExtShape
  <2>4. AlignedStates(ext')
    BY <1>0, <2>3, AlignSame DEF AlignedStates
  <2>5. FeedbackHeld(ext')
    BY <1>0, <2>3 DEF FeedbackHeld, CachedFeedback, Waiting
  <2>6. HintOf(ext')
    BY <1>0, <2>3 DEF HintOf
  <2> QED
    BY <2>2, <2>4, <2>5, <2>6 DEF ExtInv, ExtSound
<1> QED
  BY <1>1, <1>2 DEF DestroyObject

LEMMA ExtAddonDestroy ==
  ASSUME ExtInv, NEW k \in Kinds, surface_addon_destroy(k) PROVE ExtInv'
<1> DEFINE n == wlr_surface_synced_finish(ext, k)
           x == n.inert \cup ({k} \cap SyncedKind)
           a == Attached(n) # {}
<1>1. /\ k \in Attached(ext) /\ ext.alive
      /\ ext' = [n EXCEPT !.inert = @ \cup ({k} \cap SyncedKind), !.alive = a, !.client = FALSE]
  BY DEF surface_addon_destroy
<1>2. Finished(ext, k, n)
  BY <1>1, SyncedFinish DEF ExtInv
<1> HIDE DEF n
<1>3. n \in ExtShape /\ AlignedStates(n) /\ FeedbackHeld(n) /\ HintOf(n) /\ n.alive
  BY <1>1, <1>2 DEF Finished, Rest
<1>4. ext' = [n EXCEPT !.inert = x, !.alive = a, !.client = FALSE] /\ x \in SUBSET Kinds /\ a \in BOOLEAN
  BY <1>1, <1>3 DEF ExtShape, Kinds
<1> HIDE DEF x, a
<1>5. ext' \in ExtShape
  BY <1>3, <1>4 DEF ExtShape
<1>6. /\ ext'.index = n.index /\ ext'.gen = n.gen /\ ext'.pending = n.pending
      /\ ext'.current = n.current /\ ext'.cached = n.cached /\ ext'.fate = n.fate
      /\ ext'.queued = n.queued /\ ext'.hint = n.hint
  BY <1>3, <1>4 DEF ExtShape
<1>7. AlignedStates(ext')
  BY <1>3, <1>6, AlignSame DEF AlignedStates
<1>8. FeedbackHeld(ext')
  BY <1>3, <1>6 DEF FeedbackHeld, CachedFeedback, Waiting
<1>9. HintOf(ext')
  BY <1>3, <1>6 DEF HintOf
<1> QED
  BY <1>5, <1>7, <1>8, <1>9 DEF ExtInv, ExtSound

(* A commit takes effect: the pending state, or one that waited. *)
AppliedState(st, src, n) ==
  /\ n \in ExtShape /\ HintOf(n) /\ n.index = st.index /\ n.gen = st.gen
  /\ n.pending = st.pending /\ n.cached = st.cached /\ n.queued = st.queued
  /\ Aligned(st, n.current) /\ Overwritten(n.current) = Overwritten(src)
  /\ Waiting(n) = Waiting(st) \ Overwritten(st.current)

LEMMA ApplyTakes ==
  ASSUME NEW st, NEW src, ExtSound(st), Aligned(st, src)
  PROVE  AppliedState(st, src, ApplyState(st, src))
<1> DEFINE C == Moved(st, st.current, src)
           u == [st EXCEPT !.current = C]
           ids == Overwritten(st.current)
           F == [j \in FeedbackId |-> IF j \in ids THEN "discarded" ELSE st.fate[j]]
           d == [u EXCEPT !.fate = F]
           n == ApplyState(st, src)
<1>0. st \in ExtShape /\ AlignedStates(st) /\ FeedbackHeld(st) /\ HintOf(st)
  BY DEF ExtSound
<1>1. /\ Aligned(st, C) /\ Overwritten(C) = Overwritten(src)
      /\ \A k \in Attached(st) : C[st.index[k]].v = src[st.index[k]].v
  BY <1>0, MovedSlots DEF AlignedStates
<1> HIDE DEF C
<1>2. C \in Seq(SlotShape) /\ \A k \in Attached(st) : C[st.index[k]] \in SlotShape
  BY <1>1, SeqElements DEF Aligned
<1>3. st.fate \in [FeedbackId -> Fates]
  BY <1>0 DEF ExtShape
<1>4. /\ F \in [FeedbackId -> Fates]
      /\ {id \in FeedbackId : F[id] = "waiting"} = Waiting(st) \ ids
  BY <1>3, AnsweredFates DEF Waiting, Fates
<1>5. u \in ExtShape /\ u.fate = st.fate
  BY <1>0, <1>2 DEF ExtShape
<1>6. n = hint_handle_surface_commit(d)
  <2>1. ApplyState(st, src) = hint_handle_surface_commit(wlr_presentation_feedback_destroy(u, ids))
    <3>1. [st EXCEPT !.current = Moved(st, @, src)] = u
      BY <1>0 DEF C, ExtShape
    <3> QED
      BY <3>1 DEF ApplyState
  <2> HIDE DEF u
  <2>2. wlr_presentation_feedback_destroy(u, ids) = d
    BY <1>5 DEF wlr_presentation_feedback_destroy, ExtShape
  <2> QED
    BY <2>1, <2>2
<1> HIDE DEF F, n
<1>7. d \in ExtShape
  BY <1>0, <1>2, <1>4 DEF ExtShape
<1>8. /\ d.current = C /\ d.fate = F /\ d.index = st.index /\ d.gen = st.gen /\ d.pending = st.pending
      /\ d.cached = st.cached /\ d.queued = st.queued /\ d.hint = st.hint /\ d.alive = st.alive
  BY <1>0 DEF ExtShape
<1> HIDE DEF d, u
<1>9. Attached(d) = Attached(st)
  BY <1>8, AlignSame
<1>10. CASE "tearing" \in Attached(st)
  <2> DEFINE h == C[st.index["tearing"]].v
  <2>1. n = [d EXCEPT !.hint = h]
    BY <1>6, <1>8, <1>9, <1>10 DEF hint_handle_surface_commit
  <2>2. h \in SyncedValues
    BY <1>2, <1>10 DEF SlotShape
  <2> HIDE DEF h
  <2>3. n \in ExtShape
    BY <1>7, <2>1, <2>2 DEF ExtShape
  <2>4. /\ n.current = C /\ n.fate = F /\ n.index = st.index /\ n.gen = st.gen /\ n.pending = st.pending
        /\ n.cached = st.cached /\ n.queued = st.queued /\ n.hint = h
    BY <1>7, <1>8, <2>1 DEF ExtShape
  <2>5. HintOf(n)
    BY <2>4 DEF HintOf, h
  <2> QED
    BY <1>1, <1>4, <2>3, <2>4, <2>5 DEF AppliedState, Waiting, n
<1>11. CASE "tearing" \notin Attached(st)
  <2>1. n = d
    BY <1>6, <1>9, <1>11 DEF hint_handle_surface_commit
  <2>2. HintOf(n)
    BY <1>8, <1>11, <2>1, KindsThere DEF HintOf, Attached
  <2> QED
    BY <1>1, <1>4, <1>7, <1>8, <2>1, <2>2 DEF AppliedState, Waiting, n
<1> QED
  BY <1>10, <1>11

LEMMA ExtCommit ==
  ASSUME ExtInv, surface_commit_state PROVE ExtInv'
<1>0. ext \in ExtShape /\ AlignedStates(ext) /\ FeedbackHeld(ext) /\ HintOf(ext) /\ ExtSound(ext)
  BY DEF ExtInv, ExtSound
<1>s. Separate(Overwritten(ext.pending), Overwritten(ext.current), CachedFeedback(ext), ext.queued, Waiting(ext))
  BY <1>0 DEF FeedbackHeld
<1>1. CASE /\ ext.cached = <<>>
           /\ ext' = [ApplyState(ext, ext.pending) EXCEPT !.pending = surface_synced_move_state(@)]
  <2> DEFINE n == ApplyState(ext, ext.pending)
             P == surface_synced_move_state(n.pending)
  <2>1. AppliedState(ext, ext.pending, n)
    BY <1>0, ApplyTakes DEF AlignedStates
  <2>2. ext' = [n EXCEPT !.pending = surface_synced_move_state(@)]
    BY <1>1
  <2> HIDE DEF n
  <2>3. /\ n \in ExtShape /\ HintOf(n) /\ n.index = ext.index /\ n.gen = ext.gen
        /\ n.pending = ext.pending /\ n.cached = ext.cached /\ n.queued = ext.queued
        /\ Aligned(ext, n.current) /\ Overwritten(n.current) = Overwritten(ext.pending)
        /\ Waiting(n) = Waiting(ext) \ Overwritten(ext.current)
    BY <2>1 DEF AppliedState
  <2>4. Aligned(ext, P) /\ Overwritten(P) = {}
    BY <1>0, <2>3, EmptiedSlots DEF AlignedStates
  <2>5. ext' = [n EXCEPT !.pending = P]
    BY <2>2, <2>3 DEF ExtShape
  <2> HIDE DEF P
  <2>6. P \in Seq(SlotShape)
    BY <2>4 DEF Aligned
  <2>7. ext' \in ExtShape
    BY <2>3, <2>5, <2>6 DEF ExtShape
  <2>8. /\ ext'.index = ext.index /\ ext'.gen = ext.gen /\ ext'.pending = P
        /\ ext'.alive = n.alive /\ ext'.current = n.current /\ ext'.cached = ext.cached
        /\ ext'.fate = n.fate /\ ext'.queued = ext.queued /\ ext'.hint = n.hint
    BY <2>3, <2>5 DEF ExtShape
  <2>9. AlignedStates(ext')
    BY <1>0, <2>3, <2>4, <2>8, AlignSame DEF AlignedStates
  <2>10. HintOf(ext')
    BY <2>3, <2>8 DEF HintOf
  <2>11. Separate({}, Overwritten(ext.pending), CachedFeedback(ext), ext.queued,
                  Waiting(ext) \ Overwritten(ext.current))
    BY <1>s, SepCommit
  <2>12. Waiting(ext') = Waiting(n) /\ CachedFeedback(ext') = CachedFeedback(ext)
    BY <2>8 DEF Waiting, CachedFeedback
  <2>13. FeedbackHeld(ext')
    BY <2>3, <2>4, <2>8, <2>11, <2>12 DEF FeedbackHeld
  <2> QED
    BY <2>7, <2>9, <2>10, <2>13 DEF ExtInv, ExtSound
<1>2. CASE /\ ext.cached # <<>>
           /\ ext' = [ApplyState(ext, Head(ext.cached)) EXCEPT !.cached = Tail(@)]
  <2> DEFINE src == Head(ext.cached)
             n == ApplyState(ext, src)
             T == Tail(ext.cached)
  <2>0. /\ ext.cached \in Seq(Seq(SlotShape)) /\ ext.cached # <<>>
    BY <1>0, <1>2 DEF ExtShape
  <2>a. /\ src = ext.cached[1] /\ 1 \in 1..Len(ext.cached) /\ Len(ext.cached) \in Nat
        /\ T \in Seq(Seq(SlotShape)) /\ Len(T) = Len(ext.cached) - 1 /\ Len(ext.cached) > 0
        /\ \A i \in 1..Len(T) : T[i] = ext.cached[i + 1] /\ i + 1 \in 1..Len(ext.cached)
        /\ DOMAIN T = 1..Len(T) /\ DOMAIN ext.cached = 1..Len(ext.cached)
    BY <2>0, TailElements, SeqElements
  <2>b. Aligned(ext, src)
    BY <1>0, <2>a DEF AlignedStates
  <2> HIDE DEF src
  <2>1. AppliedState(ext, src, n)
    BY <1>0, <2>b, ApplyTakes
  <2>2. ext' = [n EXCEPT !.cached = Tail(@)]
    BY <1>2 DEF src
  <2> HIDE DEF n, T
  <2>3. /\ n \in ExtShape /\ HintOf(n) /\ n.index = ext.index /\ n.gen = ext.gen
        /\ n.pending = ext.pending /\ n.cached = ext.cached /\ n.queued = ext.queued
        /\ Aligned(ext, n.current) /\ Overwritten(n.current) = Overwritten(src)
        /\ Waiting(n) = Waiting(ext) \ Overwritten(ext.current)
    BY <2>1 DEF AppliedState
  <2>5. ext' = [n EXCEPT !.cached = T]
    BY <2>2, <2>3 DEF ExtShape, T
  <2>7. ext' \in ExtShape
    BY <2>3, <2>5, <2>a DEF ExtShape
  <2>8. /\ ext'.index = ext.index /\ ext'.gen = ext.gen /\ ext'.pending = ext.pending
        /\ ext'.alive = n.alive /\ ext'.current = n.current /\ ext'.cached = T
        /\ ext'.fate = n.fate /\ ext'.queued = ext.queued /\ ext'.hint = n.hint
    BY <2>3, <2>5 DEF ExtShape
  <2>c. \A i \in 1..Len(T) : Aligned(ext, T[i])
    BY <1>0, <2>a DEF AlignedStates
  <2>9. AlignedStates(ext')
    BY <1>0, <2>3, <2>c, <2>8, AlignSame DEF AlignedStates
  <2>10. HintOf(ext')
    BY <2>3, <2>8 DEF HintOf
  <2> DEFINE K == CachedFeedback(ext)
             L == CachedFeedback(ext')
             q == Len(T)
  <2>d. /\ q \in Nat /\ DOMAIN K = 1..(q + 1) /\ DOMAIN L = 1..q /\ K[1] = Overwritten(src)
        /\ \A i \in 1..q : L[i] = K[i + 1]
    <3>1. q \in Nat /\ q + 1 = Len(ext.cached)
      BY <2>a
    <3>2. \A i \in 1..Len(ext.cached) : K[i] = Overwritten(ext.cached[i])
      BY <2>a DEF CachedFeedback
    <3>3. DOMAIN K = 1..Len(ext.cached) /\ DOMAIN L = 1..q /\ \A i \in 1..q : L[i] = Overwritten(T[i])
      BY <2>a, <2>8 DEF CachedFeedback
    <3> HIDE DEF K, L
    <3> QED
      BY <2>a, <3>1, <3>2, <3>3
  <2> HIDE DEF K, L, q
  <2>11. Separate(Overwritten(ext.pending), K[1], L, ext.queued, Waiting(ext) \ Overwritten(ext.current))
    BY <1>s, <2>d, SepApply DEF K
  <2>12. Waiting(ext') = Waiting(n)
    BY <2>8 DEF Waiting
  <2>13. FeedbackHeld(ext')
    BY <2>3, <2>8, <2>11, <2>12, <2>d DEF FeedbackHeld, L
  <2> QED
    BY <2>7, <2>9, <2>10, <2>13 DEF ExtInv, ExtSound
<1> QED
  BY <1>1, <1>2 DEF surface_commit_state

LEMMA ExtCache ==
  ASSUME ExtInv, surface_cache_pending PROVE ExtInv'
<1> DEFINE fresh == [i \in DOMAIN ext.pending |-> [ext.pending[i] EXCEPT !.v = 0, !.fb = {}]]
           new == Moved(ext, fresh, ext.pending)
           P == surface_synced_move_state(ext.pending)
           H == Append(ext.cached, new)
           m == Len(ext.cached)
<1>0. ext \in ExtShape /\ AlignedStates(ext) /\ FeedbackHeld(ext) /\ HintOf(ext)
  BY DEF ExtInv, ExtSound
<1>1. ext' = [ext EXCEPT !.cached = H, !.pending = P]
  BY <1>0 DEF surface_cache_pending, ExtShape
<1>2. Aligned(ext, ext.pending)
  BY <1>0 DEF AlignedStates
<1>3. Aligned(ext, fresh)
  BY <1>2, EmptiedSlots
<1>4. Aligned(ext, P) /\ Overwritten(P) = {}
  BY <1>2, EmptiedSlots
<1> HIDE DEF fresh, P
<1>5. Aligned(ext, new) /\ Overwritten(new) = Overwritten(ext.pending)
  BY <1>2, <1>3, MovedSlots
<1> HIDE DEF new
<1>6. P \in Seq(SlotShape) /\ new \in Seq(SlotShape) /\ ext.cached \in Seq(Seq(SlotShape))
  BY <1>0, <1>4, <1>5 DEF Aligned, ExtShape
<1>7. /\ H \in Seq(Seq(SlotShape)) /\ Len(H) = m + 1 /\ m \in Nat /\ H[m + 1] = new
      /\ \A i \in 1..m : H[i] = ext.cached[i]
      /\ DOMAIN H = 1..(m + 1) /\ DOMAIN ext.cached = 1..m
  BY <1>6, AppendElements, SeqElements
<1> HIDE DEF H
<1>8. ext' \in ExtShape
  BY <1>0, <1>1, <1>6, <1>7 DEF ExtShape
<1>9. /\ ext'.index = ext.index /\ ext'.gen = ext.gen /\ ext'.pending = P
      /\ ext'.alive = ext.alive /\ ext'.current = ext.current /\ ext'.cached = H
      /\ ext'.fate = ext.fate /\ ext'.queued = ext.queued /\ ext'.hint = ext.hint
  BY <1>0, <1>1 DEF ExtShape
<1>10. \A i \in 1..Len(H) : Aligned(ext, H[i])
  <2> SUFFICES ASSUME NEW i \in 1..(m + 1) PROVE Aligned(ext, H[i])
    BY <1>7
  <2>1. i = m + 1 \/ i \in 1..m
    BY <1>7
  <2> QED
    BY <1>0, <1>5, <1>7, <2>1 DEF AlignedStates
<1>11. AlignedStates(ext')
  BY <1>0, <1>4, <1>9, <1>10, AlignSame DEF AlignedStates
<1>12. HintOf(ext')
  BY <1>0, <1>9 DEF HintOf
<1> DEFINE K == CachedFeedback(ext)
           L == CachedFeedback(ext')
<1>13. /\ DOMAIN K = 1..m /\ DOMAIN L = 1..(m + 1) /\ L[m + 1] = Overwritten(ext.pending)
       /\ \A i \in 1..m : L[i] = K[i]
  <2>1. DOMAIN K = 1..m /\ \A i \in 1..m : K[i] = Overwritten(ext.cached[i])
    BY <1>7 DEF CachedFeedback
  <2>2. DOMAIN L = 1..(m + 1) /\ \A i \in 1..(m + 1) : L[i] = Overwritten(H[i])
    BY <1>7, <1>9 DEF CachedFeedback
  <2>3. m + 1 \in 1..(m + 1) /\ \A i \in 1..m : i \in 1..(m + 1)
    BY <1>7
  <2> HIDE DEF K, L, m
  <2> QED
    BY <1>5, <1>7, <2>1, <2>2, <2>3
<1>14. Separate(Overwritten(ext.pending), Overwritten(ext.current), K, ext.queued, Waiting(ext))
  BY <1>0 DEF FeedbackHeld
<1> HIDE DEF K, L, m
<1>15. Separate({}, Overwritten(ext.current), L, ext.queued, Waiting(ext))
  <2>1. m \in Nat
    BY <1>7
  <2> DEFINE p == Overwritten(ext.pending)
             c == Overwritten(ext.current)
             Q == ext.queued
             W == Waiting(ext)
  <2>2. Separate(p, c, K, Q, W) /\ L[m + 1] = p
    BY <1>13, <1>14
  <2> HIDE DEF p, c, Q, W
  <2>3. Separate({}, c, L, Q, W)
    BY <1>13, <2>1, <2>2, SepCache
  <2> QED
    BY <2>3 DEF c, Q, W
<1>16. Waiting(ext') = Waiting(ext)
  BY <1>9 DEF Waiting
<1>17. FeedbackHeld(ext')
  BY <1>4, <1>9, <1>15, <1>16 DEF FeedbackHeld, L
<1> QED
  BY <1>8, <1>11, <1>12, <1>17 DEF ExtInv, ExtSound

LEMMA ExtFeedback ==
  ASSUME ExtInv, NEW id \in FeedbackId, presentation_handle_feedback(id) PROVE ExtInv'
<1> DEFINE k == "feedback"
           st == IF ext.index[k] = 0 THEN wlr_surface_synced_init(ext, k) ELSE ext
           i == st.index[k]
           s == [st.pending[i] EXCEPT !.fb = st.pending[i].fb \cup {id}]
           P == [st.pending EXCEPT ![i] = s]
           F == [st.fate EXCEPT ![id] = "waiting"]
<1>0. ext \in ExtShape /\ AlignedStates(ext) /\ FeedbackHeld(ext) /\ HintOf(ext)
  BY DEF ExtInv, ExtSound
<1>k. k \in Kinds /\ k # "tearing"
  BY KindsThere
<1>1. /\ ext.fate[id] = "none"
      /\ ext' = [st EXCEPT !.fate[id] = "waiting", !.pending[i].fb = @ \cup {id}]
  BY DEF presentation_handle_feedback
<1>2. st \in ExtShape /\ AlignedStates(st) /\ FeedbackHeld(st) /\ HintOf(st) /\ st.fate = ext.fate
      /\ i > 0
  <2>1. CASE ext.index[k] = 0
    <3> DEFINE n == wlr_surface_synced_init(ext, k)
    <3>1. k \notin Attached(ext)
      BY <2>1 DEF Attached
    <3>2. Initialized(ext, k, n)
      BY <1>k, <3>1, SyncedInit DEF ExtInv
    <3> HIDE DEF n
    <3>3. st = n
      BY <2>1 DEF n
    <3> QED
      BY <1>k, <3>2, <3>3 DEF Initialized
  <2>2. CASE ext.index[k] # 0
    <3>1. st = ext
      BY <2>2
    <3>2. ext.index[k] \in Nat
      BY <1>0, <1>k DEF ExtShape
    <3> QED
      BY <1>0, <2>2, <3>1, <3>2
  <2> QED
    BY <2>1, <2>2
<1> HIDE DEF st
<1>3. ext' = [st EXCEPT !.fate = F, !.pending = P]
  BY <1>1, <1>2 DEF ExtShape
<1>4. k \in Attached(st)
  BY <1>2, <1>k DEF Attached
<1>5. /\ Aligned(st, st.pending) /\ st.pending[i] \in SlotShape /\ st.pending[i].kind = k
      /\ st.pending[i].gen = st.gen[k]
  BY <1>2, <1>4, SeqElements DEF AlignedStates, Aligned
<1>6. s \in SlotShape /\ s.kind = k /\ s.gen = st.gen[k] /\ s.fb = st.pending[i].fb \cup {id}
  BY <1>5 DEF SlotShape
<1> HIDE DEF s
<1>7. SlotChanged(st, k, s, st.pending, P)
  BY <1>4, <1>5, <1>6, ChangeSlot
<1> HIDE DEF P
<1>8. Aligned(st, P) /\ P \in Seq(SlotShape) /\ Overwritten(P) = Overwritten(st.pending) \cup {id}
  BY <1>6, <1>7 DEF SlotChanged, Aligned
<1>9. F \in [FeedbackId -> Fates] /\ {j \in FeedbackId : F[j] = "waiting"} = Waiting(st) \cup {id}
  <2>1. st.fate \in [FeedbackId -> Fates]
    BY <1>2 DEF ExtShape
  <2> QED
    BY <2>1 DEF Fates, Waiting
<1>10. id \notin Waiting(st)
  BY <1>1, <1>2 DEF Waiting
<1> HIDE DEF F, i
<1>11. ext' \in ExtShape
  BY <1>2, <1>3, <1>8, <1>9 DEF ExtShape
<1>12. /\ ext'.index = st.index /\ ext'.gen = st.gen /\ ext'.pending = P /\ ext'.alive = st.alive
       /\ ext'.current = st.current /\ ext'.cached = st.cached /\ ext'.fate = F
       /\ ext'.queued = st.queued /\ ext'.hint = st.hint
  BY <1>2, <1>3 DEF ExtShape
<1>13. AlignedStates(ext')
  BY <1>2, <1>8, <1>12, AlignSame DEF AlignedStates
<1>14. HintOf(ext')
  BY <1>2, <1>12 DEF HintOf
<1>15. Separate(Overwritten(st.pending), Overwritten(st.current), CachedFeedback(st), st.queued, Waiting(st))
  BY <1>2 DEF FeedbackHeld
<1>16. Separate(Overwritten(st.pending) \cup {id}, Overwritten(st.current), CachedFeedback(st), st.queued,
                Waiting(st) \cup {id})
  BY <1>10, <1>15, SepAsk
<1>17. Waiting(ext') = Waiting(st) \cup {id} /\ CachedFeedback(ext') = CachedFeedback(st)
  BY <1>9, <1>12 DEF Waiting, CachedFeedback
<1>18. FeedbackHeld(ext')
  BY <1>8, <1>12, <1>16, <1>17 DEF FeedbackHeld
<1> QED
  BY <1>11, <1>13, <1>14, <1>18 DEF ExtInv, ExtSound

LEMMA ExtQueue ==
  ASSUME ExtInv, presentation_surface_queued_on_output PROVE ExtInv'
<1> DEFINE k == "feedback"
           i == ext.index[k]
           s == [ext.current[i] EXCEPT !.fb = {}]
           C == [ext.current EXCEPT ![i] = s]
           r == [ids |-> ext.current[i].fb, seq |-> 0]
           Q == ext.queued \cup {r}
<1>0. ext \in ExtShape /\ AlignedStates(ext) /\ FeedbackHeld(ext) /\ HintOf(ext)
  BY DEF ExtInv, ExtSound
<1>k. k \in Kinds /\ k # "tearing"
  BY KindsThere
<1>1. ext' = [ext EXCEPT !.current = C, !.queued = Q] /\ i > 0 /\ ext.current[i].fb # {}
  BY <1>0 DEF presentation_surface_queued_on_output, ExtShape
<1>4. k \in Attached(ext)
  BY <1>1, <1>k DEF Attached
<1>5. /\ Aligned(ext, ext.current) /\ ext.current[i] \in SlotShape /\ ext.current[i].kind = k
      /\ ext.current[i].gen = ext.gen[k]
  BY <1>0, <1>4, SeqElements DEF AlignedStates, Aligned
<1>6. s \in SlotShape /\ s.kind = k /\ s.gen = ext.gen[k] /\ s.fb = {}
  BY <1>5 DEF SlotShape
<1>r. r \in QueuedShape /\ r.ids = ext.current[i].fb
  BY <1>5 DEF SlotShape, QueuedShape
<1> HIDE DEF s, r
<1>7. SlotChanged(ext, k, s, ext.current, C)
  BY <1>4, <1>5, <1>6, ChangeSlot
<1> HIDE DEF C
<1>8. /\ Aligned(ext, C) /\ C \in Seq(SlotShape) /\ Overwritten(C) = {}
      /\ r.ids = Overwritten(ext.current) /\ Overwritten(ext.current) # {}
      /\ \A o \in Attached(ext) \ {k} : C[ext.index[o]] = ext.current[ext.index[o]]
  BY <1>1, <1>6, <1>7, <1>r DEF SlotChanged, Aligned
<1>9. Q \in SUBSET QueuedShape
  BY <1>0, <1>r DEF ExtShape
<1> HIDE DEF i
<1>11. ext' \in ExtShape
  <2> HIDE DEF Q
  <2> QED
    BY <1>0, <1>1, <1>8, <1>9 DEF ExtShape
<1>12. /\ ext'.index = ext.index /\ ext'.gen = ext.gen /\ ext'.pending = ext.pending /\ ext'.alive = ext.alive
       /\ ext'.current = C /\ ext'.cached = ext.cached /\ ext'.fate = ext.fate
       /\ ext'.queued = Q /\ ext'.hint = ext.hint
  <2> HIDE DEF Q
  <2> QED
    BY <1>0, <1>1 DEF ExtShape
<1>13. AlignedStates(ext')
  BY <1>0, <1>8, <1>12, AlignSame DEF AlignedStates
<1>14. HintOf(ext')
  <2> SUFFICES ASSUME ext.alive, ext.index["tearing"] > 0
               PROVE  ext.hint = C[ext.index["tearing"]].v
    BY <1>12 DEF HintOf
  <2>1. "tearing" \in Attached(ext) \ {k}
    BY <1>k, KindsThere DEF Attached
  <2> QED
    BY <1>0, <1>8, <2>1 DEF HintOf
<1>15. Separate(Overwritten(ext.pending), Overwritten(ext.current), CachedFeedback(ext), ext.queued, Waiting(ext))
  BY <1>0 DEF FeedbackHeld
<1>16. Separate(Overwritten(ext.pending), {}, CachedFeedback(ext), Q, Waiting(ext))
  BY <1>8, <1>15, SepQueue
<1>17. Waiting(ext') = Waiting(ext) /\ CachedFeedback(ext') = CachedFeedback(ext)
  BY <1>12 DEF Waiting, CachedFeedback
<1>18. FeedbackHeld(ext')
  BY <1>8, <1>12, <1>16, <1>17 DEF FeedbackHeld
<1> QED
  BY <1>11, <1>13, <1>14, <1>18 DEF ExtInv, ExtSound

(* Steps of the output: the surface's states stay. *)
SameStates(n) ==
  /\ n.index = ext.index /\ n.gen = ext.gen /\ n.pending = ext.pending /\ n.alive = ext.alive
  /\ n.current = ext.current /\ n.cached = ext.cached /\ n.hint = ext.hint

LEMMA ExtOutput ==
  ASSUME ExtInv, ext' \in ExtShape, SameStates(ext'),
         Separate(Overwritten(ext.pending), Overwritten(ext.current), CachedFeedback(ext),
                  ext'.queued, Waiting(ext'))
  PROVE  ExtInv'
<1>0. AlignedStates(ext) /\ HintOf(ext)
  BY DEF ExtInv, ExtSound
<1>1. AlignedStates(ext')
  BY <1>0, AlignSame DEF AlignedStates, SameStates
<1>2. HintOf(ext')
  BY <1>0 DEF HintOf, SameStates
<1>3. FeedbackHeld(ext')
  BY DEF FeedbackHeld, CachedFeedback, SameStates
<1> QED
  BY <1>1, <1>2, <1>3 DEF ExtInv, ExtSound

LEMMA ExtOutputCommit ==
  ASSUME ExtInv, feedback_handle_output_commit PROVE ExtInv'
<1> DEFINE n == ext.seq + 1
           g == [q \in ext.queued |-> IF q.seq = 0 THEN [q EXCEPT !.seq = n] ELSE q]
           Q == {IF q.seq = 0 THEN [q EXCEPT !.seq = n] ELSE q : q \in ext.queued}
           O == ext.owed \cup {n}
<1>0. ext \in ExtShape /\ FeedbackHeld(ext)
  BY DEF ExtInv, ExtSound
<1>1. ext' = [ext EXCEPT !.seq = n, !.owed = O, !.queued = Q]
  BY <1>0 DEF feedback_handle_output_commit, ExtShape
<1>2. n \in Nat /\ O \in SUBSET Nat /\ ext.queued \in SUBSET QueuedShape
  BY <1>0 DEF ExtShape
<1> HIDE DEF n
<1>3. \A q \in ext.queued : g[q] \in Q /\ g[q] \in QueuedShape /\ g[q].ids = q.ids
  <2> SUFFICES ASSUME NEW q \in ext.queued PROVE g[q] \in Q /\ g[q] \in QueuedShape /\ g[q].ids = q.ids
    OBVIOUS
  <2>1. g[q] \in Q
    OBVIOUS
  <2>2. q \in QueuedShape
    BY <1>2
  <2>3. [q EXCEPT !.seq = n] \in QueuedShape /\ [q EXCEPT !.seq = n].ids = q.ids
    BY <1>2, <2>2 DEF QueuedShape
  <2>4. g[q] = q \/ g[q] = [q EXCEPT !.seq = n]
    OBVIOUS
  <2> QED
    BY <2>1, <2>2, <2>3, <2>4
<1>4. \A r \in Q : \E q \in ext.queued : r = g[q]
  OBVIOUS
<1> HIDE DEF g, Q, O
<1>5. Q \in SUBSET QueuedShape
  BY <1>3, <1>4
<1>6. ext' \in ExtShape
  BY <1>0, <1>1, <1>2, <1>5 DEF ExtShape
<1>7. SameStates(ext') /\ ext'.queued = Q /\ ext'.fate = ext.fate
  BY <1>0, <1>1 DEF ExtShape, SameStates
<1>8. Separate(Overwritten(ext.pending), Overwritten(ext.current), CachedFeedback(ext), ext.queued, Waiting(ext))
  BY <1>0 DEF FeedbackHeld
<1>9. Separate(Overwritten(ext.pending), Overwritten(ext.current), CachedFeedback(ext), Q, Waiting(ext))
  BY <1>3, <1>4, <1>8, SepStamp
<1>10. Waiting(ext') = Waiting(ext)
  BY <1>7 DEF Waiting
<1> QED
  BY <1>6, <1>7, <1>9, <1>10, ExtOutput

LEMMA ExtPresent ==
  ASSUME ExtInv, NEW n, NEW presented, feedback_handle_output_present(n, presented) PROVE ExtInv'
<1> DEFINE hit == {q \in ext.queued : q.seq = n}
           ids == UNION {q.ids : q \in hit}
           result == IF presented THEN "presented" ELSE "discarded"
           F == [i \in FeedbackId |-> IF i \in ids THEN result ELSE ext.fate[i]]
           Q == ext.queued \ hit
           O == ext.owed \ {n}
<1>0. ext \in ExtShape /\ FeedbackHeld(ext)
  BY DEF ExtInv, ExtSound
<1>1. ext' = [ext EXCEPT !.owed = O, !.queued = Q, !.fate = F]
  BY <1>0 DEF feedback_handle_output_present, ExtShape
<1>2. O \in SUBSET Nat /\ Q \in SUBSET QueuedShape /\ ext.fate \in [FeedbackId -> Fates]
      /\ result \in Fates \ {"waiting"} /\ hit \subseteq ext.queued
  BY <1>0 DEF ExtShape, Fates
<1> HIDE DEF hit, result, O
<1>3. F \in [FeedbackId -> Fates] /\ {id \in FeedbackId : F[id] = "waiting"} = Waiting(ext) \ ids
  BY <1>2, AnsweredFates DEF Waiting
<1> HIDE DEF F
<1>6. ext' \in ExtShape
  <2> HIDE DEF Q
  <2> QED
    BY <1>0, <1>1, <1>2, <1>3 DEF ExtShape
<1>7. SameStates(ext') /\ ext'.queued = Q /\ ext'.fate = F
  <2> HIDE DEF Q
  <2> QED
    BY <1>0, <1>1 DEF ExtShape, SameStates
<1>8. Separate(Overwritten(ext.pending), Overwritten(ext.current), CachedFeedback(ext), ext.queued, Waiting(ext))
  BY <1>0 DEF FeedbackHeld
<1>9. Separate(Overwritten(ext.pending), Overwritten(ext.current), CachedFeedback(ext), Q, Waiting(ext) \ ids)
  BY <1>2, <1>8, SepAnswer
<1>10. Waiting(ext') = Waiting(ext) \ ids
  BY <1>3, <1>7 DEF Waiting
<1> QED
  BY <1>6, <1>7, <1>9, <1>10, ExtOutput

LEMMA ExtSuperseded ==
  ASSUME ExtInv, NEW n, drm_page_flip_superseded(n) PROVE ExtInv'
<1> DEFINE O == ext.owed \ {n}
<1>0. ext \in ExtShape /\ FeedbackHeld(ext)
  BY DEF ExtInv, ExtSound
<1>1. ext' = [ext EXCEPT !.owed = O] /\ O \in SUBSET Nat
  BY <1>0 DEF drm_page_flip_superseded, ExtShape
<1> HIDE DEF O
<1>2. ext' \in ExtShape
  BY <1>0, <1>1 DEF ExtShape
<1>3. SameStates(ext') /\ ext'.queued = ext.queued /\ ext'.fate = ext.fate
  BY <1>0, <1>1 DEF ExtShape, SameStates
<1>4. Separate(Overwritten(ext.pending), Overwritten(ext.current), CachedFeedback(ext), ext.queued, Waiting(ext))
  BY <1>0 DEF FeedbackHeld
<1>5. Waiting(ext') = Waiting(ext)
  BY <1>3 DEF Waiting
<1> QED
  BY <1>2, <1>3, <1>4, <1>5, ExtOutput

LEMMA ExtOutputDestroy ==
  ASSUME ExtInv, feedback_handle_output_destroy PROVE ExtInv'
<1> DEFINE ids == UNION {q.ids : q \in ext.queued}
           F == [i \in FeedbackId |-> IF i \in ids THEN "discarded" ELSE ext.fate[i]]
           d == wlr_presentation_feedback_destroy(ext, ids)
<1>0. ext \in ExtShape /\ FeedbackHeld(ext)
  BY DEF ExtInv, ExtSound
<1>1. ext' = [d EXCEPT !.output = FALSE, !.queued = {}, !.owed = {}]
  BY DEF feedback_handle_output_destroy
<1>2. d = [ext EXCEPT !.fate = F]
  BY <1>0 DEF wlr_presentation_feedback_destroy, ExtShape
<1>3. ext.fate \in [FeedbackId -> Fates]
  BY <1>0 DEF ExtShape
<1>4. F \in [FeedbackId -> Fates] /\ {id \in FeedbackId : F[id] = "waiting"} = Waiting(ext) \ ids
  BY <1>3, AnsweredFates DEF Waiting, Fates
<1> HIDE DEF F, d, ids
<1>5. ext' = [ext EXCEPT !.fate = F, !.output = FALSE, !.queued = {}, !.owed = {}]
  BY <1>0, <1>1, <1>2 DEF ExtShape
<1>6. ext' \in ExtShape
  BY <1>0, <1>4, <1>5 DEF ExtShape
<1>7. SameStates(ext') /\ ext'.queued = {} /\ ext'.fate = F
  BY <1>0, <1>5 DEF ExtShape, SameStates
<1>8. Separate(Overwritten(ext.pending), Overwritten(ext.current), CachedFeedback(ext), ext.queued, Waiting(ext))
  BY <1>0 DEF FeedbackHeld
<1>9. Separate(Overwritten(ext.pending), Overwritten(ext.current), CachedFeedback(ext), {}, Waiting(ext) \ ids)
  <2>1. ext.queued \ ext.queued = {} /\ ext.queued \subseteq ext.queued
    OBVIOUS
  <2>2. Separate(Overwritten(ext.pending), Overwritten(ext.current), CachedFeedback(ext),
                 ext.queued \ ext.queued, Waiting(ext) \ UNION {q.ids : q \in ext.queued})
    BY <1>8, <2>1, SepAnswer
  <2> QED
    BY <2>1, <2>2 DEF ids
<1>10. Waiting(ext') = Waiting(ext) \ ids
  BY <1>4, <1>7 DEF Waiting
<1> QED
  BY <1>6, <1>7, <1>9, <1>10, ExtOutput

LEMMA ExtKept == ExtInv /\ [ExtNext]_ext => ExtInv'
<1> SUFFICES ASSUME ExtInv, [ExtNext]_ext PROVE ExtInv'
  OBVIOUS
<1>1. CASE UNCHANGED ext
  BY <1>1 DEF ExtInv
<1>k. {"alpha", "content", "tearing", "color", "blur"} \subseteq Kinds \ {"feedback"}
  BY SyncedAssumption DEF Kinds
<1>2. ASSUME NEW k, GetObject(k) PROVE ExtInv'
  BY <1>2, ExtGetObject
<1>3. ASSUME NEW k \in {"alpha", "content", "tearing", "color", "blur"}, NEW v \in SyncedValues, SetValue(k, v)
      PROVE  ExtInv'
  BY <1>3, <1>k, ExtSetValue
<1>4. ASSUME NEW k \in {"alpha", "content", "tearing", "color", "blur"}, DestroyObject(k) PROVE ExtInv'
  BY <1>4, <1>k, ExtDestroyObject
<1>5. CASE \/ manager_handle_get_surface \/ manager_handle_get_surface_content_type
           \/ tearing_control_manager_handle_get_tearing_control
           \/ color_repr_manager_handle_get_surface \/ manager_handle_get_background_effect
  BY <1>2, <1>5 DEF manager_handle_get_surface, manager_handle_get_surface_content_type,
       tearing_control_manager_handle_get_tearing_control, color_repr_manager_handle_get_surface,
       manager_handle_get_background_effect
<1>6. ASSUME NEW v \in SyncedValues,
             \/ surface_handle_set_multiplier(v) \/ content_type_surface_handle_set_content_type(v)
             \/ tearing_control_handle_set_presentation_hint(v) \/ color_repr_handle_set(v)
             \/ surface_handle_set_blur_region(v)
      PROVE  ExtInv'
  BY <1>3, <1>6 DEF surface_handle_set_multiplier, content_type_surface_handle_set_content_type,
       tearing_control_handle_set_presentation_hint, color_repr_handle_set, surface_handle_set_blur_region
<1>7. CASE \/ surface_destroy \/ content_type_surface_destroy \/ destroy_tearing_hint
           \/ color_repr_destroy \/ background_effect_surface_destroy
  BY <1>4, <1>7 DEF surface_destroy, content_type_surface_destroy, destroy_tearing_hint,
       color_repr_destroy, background_effect_surface_destroy
<1>8. CASE ExtNext
  BY <1>5, <1>6, <1>7, <1>8, ExtCache, ExtCommit, ExtAddonDestroy, ExtFeedback, ExtQueue, ExtOutputCommit,
     ExtPresent, ExtSuperseded, ExtOutputDestroy DEF ExtNext
<1> QED
  BY <1>1, <1>8

(* One holder of a feedback, or none. *)
LEMMA OneHolder ==
  ASSUME ExtInv, NEW id \in FeedbackId
  PROVE  Cardinality(Holders(id)) = IF ext.fate[id] = "waiting" THEN 1 ELSE 0
<1> DEFINE pp == {j \in DOMAIN ext.pending : id \in ext.pending[j].fb}
           cc == {j \in DOMAIN ext.current : id \in ext.current[j].fb}
           kk == {d \in DOMAIN ext.cached : \E j \in DOMAIN ext.cached[d] : id \in ext.cached[d][j].fb}
           qq == {r \in ext.queued : id \in r.ids}
           f == ext.index["feedback"]
           K == CachedFeedback(ext)
<1>0. ext \in ExtShape /\ AlignedStates(ext) /\ FeedbackHeld(ext)
  BY DEF ExtInv, ExtSound
<1>1. Holders(id) = {<<"pending", i>> : i \in pp} \cup {<<"current", i>> : i \in cc}
                    \cup {<<"cached", c>> : c \in kk} \cup {<<"queued", q>> : q \in qq}
  BY DEF Holders
<1>2. ASSUME NEW arr, Aligned(ext, arr)
      PROVE  \A j \in DOMAIN arr : id \in arr[j].fb => j = f
  BY <1>2, SeqElements DEF Aligned
<1>3. ASSUME NEW arr, Aligned(ext, arr)
      PROVE  id \in Overwritten(arr) <=> \E j \in DOMAIN arr : id \in arr[j].fb
  BY DEF Overwritten
<1>4. /\ pp = IF id \in Overwritten(ext.pending) THEN {f} ELSE {}
      /\ cc = IF id \in Overwritten(ext.current) THEN {f} ELSE {}
  BY <1>0, <1>2, <1>3 DEF AlignedStates
<1>5. DOMAIN ext.cached = 1..Len(ext.cached) /\ DOMAIN K = 1..Len(ext.cached)
      /\ \A c \in DOMAIN K : K[c] = Overwritten(ext.cached[c])
  <2>1. ext.cached \in Seq(Seq(SlotShape))
    BY <1>0 DEF ExtShape
  <2>2. DOMAIN ext.cached = 1..Len(ext.cached)
    BY <2>1, SeqElements
  <2> QED
    BY <2>2 DEF CachedFeedback
<1>6. kk = {c \in DOMAIN K : id \in K[c]}
  <2>1. \A c \in DOMAIN K : id \in K[c] <=> \E j \in DOMAIN ext.cached[c] : id \in ext.cached[c][j].fb
    BY <1>0, <1>3, <1>5 DEF AlignedStates
  <2> HIDE DEF K
  <2> QED
    BY <1>5, <2>1
<1>7. Separate(Overwritten(ext.pending), Overwritten(ext.current), K, ext.queued, Waiting(ext))
  BY <1>0 DEF FeedbackHeld
<1>8. id \in Waiting(ext) <=> ext.fate[id] = "waiting"
  BY DEF Waiting
<1> DEFINE p == Overwritten(ext.pending)
           c == Overwritten(ext.current)
           Q == ext.queued
           W == Waiting(ext)
<1>9. /\ pp = IF id \in p THEN {f} ELSE {}
      /\ cc = IF id \in c THEN {f} ELSE {}
      /\ kk = {x \in DOMAIN K : id \in K[x]} /\ qq = {r \in Q : id \in r.ids}
      /\ Separate(p, c, K, Q, W) /\ (id \in W <=> ext.fate[id] = "waiting")
  BY <1>4, <1>6, <1>7, <1>8
<1> HIDE DEF pp, cc, kk, qq, f, K, p, c, Q, W
<1>10. CASE id \notin W
  <2>1. pp = {} /\ cc = {} /\ kk = {} /\ qq = {}
    BY <1>9, <1>10 DEF Separate
  <2>2. Holders(id) = {}
    BY <1>1, <2>1
  <2> QED
    BY <1>9, <1>10, <2>2, FS_EmptySet
<1>11. CASE id \in W
  <2>1. \E h : Holders(id) = {h}
    <3>1. CASE id \in p
      <4>1. pp = {f} /\ cc = {} /\ kk = {} /\ qq = {}
        BY <1>9, <3>1 DEF Separate
      <4>2. Holders(id) = {<<"pending", f>>}
        BY <1>1, <4>1
      <4> QED
        BY <4>2
    <3>2. CASE id \in c
      <4>1. pp = {} /\ cc = {f} /\ kk = {} /\ qq = {}
        BY <1>9, <3>2 DEF Separate
      <4>2. Holders(id) = {<<"current", f>>}
        BY <1>1, <4>1
      <4> QED
        BY <4>2
    <3>3. ASSUME NEW x \in DOMAIN K, id \in K[x] PROVE \E h : Holders(id) = {h}
      <4>1. pp = {} /\ cc = {} /\ qq = {}
        BY <1>9, <3>3 DEF Separate
      <4>2. kk = {x}
        BY <1>9, <3>3 DEF Separate
      <4>3. Holders(id) = {<<"cached", x>>}
        BY <1>1, <4>1, <4>2
      <4> QED
        BY <4>3
    <3>4. ASSUME NEW x \in Q, id \in x.ids PROVE \E h : Holders(id) = {h}
      <4>1. pp = {} /\ cc = {} /\ kk = {}
        BY <1>9, <3>4 DEF Separate
      <4>2. qq = {x}
        BY <1>9, <3>4 DEF Separate
      <4>3. Holders(id) = {<<"queued", x>>}
        BY <1>1, <4>1, <4>2
      <4> QED
        BY <4>3
    <3> QED
      BY <1>9, <1>11, <3>1, <3>2, <3>3, <3>4 DEF Separate
  <2> QED
    BY <1>9, <1>11, <2>1, FS_Singleton
<1> QED
  BY <1>10, <1>11

LEMMA ExtMeans == ExtInv => ExtTypeOK /\ SlotsAligned /\ FeedbackOnce /\ HintKnown
<1> SUFFICES ASSUME ExtInv PROVE ExtTypeOK /\ SlotsAligned /\ FeedbackOnce /\ HintKnown
  OBVIOUS
<1>0. ext \in ExtShape /\ AlignedStates(ext) /\ HintOf(ext)
  BY DEF ExtInv, ExtSound
<1>1. FeedbackOnce
  BY OneHolder DEF FeedbackOnce
<1>2. ASSUME NEW arr, Aligned(ext, arr)
      PROVE  /\ Len(arr) = Cardinality(Attached(ext))
             /\ \A k \in Attached(ext) : /\ ext.index[k] \in DOMAIN arr /\ arr[ext.index[k]].kind = k
                                         /\ arr[ext.index[k]].gen = ext.gen[k]
  BY <1>2, SeqElements DEF Aligned
<1>3. DOMAIN ext.cached = 1..Len(ext.cached)
  BY <1>0, SeqElements DEF ExtShape
<1>4. SlotsAligned
  BY <1>0, <1>2, <1>3 DEF SlotsAligned, AlignedStates
<1> QED
  BY <1>0, <1>1, <1>4 DEF ExtTypeOK, HintOf, HintKnown

(* The states that protocols attach to a surface (wlr_surface_synced in     *)
(* wlr_compositor.c, and the protocols that use it): with objects attached  *)
(* and destroyed in any order while any number of commits wait, each object *)
(* finds its own slot in every state of the surface, each presentation      *)
(* feedback has exactly one holder until it is answered and none            *)
(* afterwards, and the tearing hint that was announced is the one in force. *)
THEOREM SyncedStatesSound == ExtSpec => [](ExtTypeOK /\ SlotsAligned /\ FeedbackOnce /\ HintKnown)
<1>1. ExtInit => ExtInv
  BY ExtStarts
<1>2. ExtInv /\ [ExtNext]_ext => ExtInv'
  BY ExtKept
<1>3. ExtInv => ExtTypeOK /\ SlotsAligned /\ FeedbackOnce /\ HintKnown
  BY ExtMeans
<1> QED
  BY <1>1, <1>2, <1>3, PTL DEF ExtSpec

-----------------------------------------------------------------------------
(***************************************************************************)
(* The shells side by side.                                                *)
(***************************************************************************)

(* What holds in every state of the shells side by side: the invariant of   *)
(* the part that moves.                                                     *)
ShellsInv ==
  /\ part = "popup" => PopInv
  /\ part = "place" => PlacingInv
  /\ part = "layer" => LayerInv
  /\ part = "lock" => LockInv
  /\ part = "ext" => ExtInv

LEMMA ShellsStart == ShellsInit => ShellsInv
BY PopStarts, PlacingStarts, LayerStarts, LockStarts, ExtStarts DEF ShellsInit, ShellsInv

(* Only the part that is chosen moves. *)
LEMMA ShellsMove ==
  ASSUME [ShellsNext]_ShellVars
  PROVE  /\ part' = part
         /\ part = "popup" => [PopNext]_pop
         /\ part = "place" => [PlacingNext]_placing
         /\ part = "layer" => [LayerNext]_layer
         /\ part = "lock" => [LockNext]_lock
         /\ part = "ext" => [ExtNext]_ext
<1>1. CASE UNCHANGED ShellVars
  BY <1>1 DEF ShellVars
<1>2. CASE ShellsNext
  BY <1>2 DEF ShellsNext
<1> QED
  BY <1>1, <1>2

LEMMA ShellsKept == ShellsInv /\ [ShellsNext]_ShellVars => ShellsInv'
<1> SUFFICES ASSUME ShellsInv, [ShellsNext]_ShellVars PROVE ShellsInv'
  OBVIOUS
<1>1. part' = part
  BY ShellsMove
<1>2. part = "popup" => PopInv'
  BY ShellsMove, PopKept DEF ShellsInv
<1>3. part = "place" => PlacingInv'
  BY ShellsMove, PlacingKept DEF ShellsInv
<1>4. part = "layer" => LayerInv'
  BY ShellsMove, LayerKept DEF ShellsInv
<1>5. part = "lock" => LockInv'
  BY ShellsMove, LockKept DEF ShellsInv
<1>6. part = "ext" => ExtInv'
  BY ShellsMove, ExtKept DEF ShellsInv
<1> QED
  BY <1>1, <1>2, <1>3, <1>4, <1>5, <1>6 DEF ShellsInv

(* Roles go with what they were made for: popups, lock surfaces and the     *)
(* states that protocols attach to a surface, in any order in which the     *)
(* client, the compositor and the outputs destroy them (wlr_xdg_popup.c,    *)
(* wlr_session_lock_v1.c, wlr_surface_synced in wlr_compositor.c).          *)
THEOREM RolesAreOwned == ShellsSpec => []RolesOwned
<1>1. ShellsInit => ShellsInv
  BY ShellsStart
<1>2. ShellsInv /\ [ShellsNext]_ShellVars => ShellsInv'
  BY ShellsKept
<1>3. ShellsInv => RolesOwned
  BY PopMeans, LockMatch, ExtMeans DEF ShellsInv, RolesOwned
<1> QED
  BY <1>1, <1>2, <1>3, PTL DEF ShellsSpec

(* What clients ask is answered, and what they are told is what is acted    *)
(* on: repositions, the place of popups, the state of layer surfaces,       *)
(* presentation feedback and tearing hints (wlr_xdg_popup.c,                *)
(* wlr_xdg_positioner.c, wlr_layer_shell_v1.c, wlr_presentation_time.c,     *)
(* wlr_tearing_control_v1.c).                                               *)
THEOREM RequestsAreAnswered == ShellsSpec => []RequestsAnswered
<1>1. ShellsInit => ShellsInv
  BY ShellsStart
<1>2. ShellsInv /\ [ShellsNext]_ShellVars => ShellsInv'
  BY ShellsKept
<1>3. ShellsInv => RequestsAnswered
  BY PopMeans, PlacingMeans, LayerAgreement, ExtMeans DEF ShellsInv, RequestsAnswered
<1> QED
  BY <1>1, <1>2, <1>3, PTL DEF ShellsSpec
=============================================================================
