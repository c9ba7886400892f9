-------------------------- MODULE DrmOutput_proofs --------------------------
(***************************************************************************)
(* Proofs about the DRM backend, for any number of connectors, CRTCs,      *)
(* buffers and page-flips.  What concerns the device is an invariant of    *)
(* its record (Good), kept by each function of the backend; the outputs    *)
(* add what they expect of it (Meets).                                     *)
(***************************************************************************)
EXTENDS DrmOutput, WellFoundedInduction, TLAPS

(* The interface and the kernel for which the device's state is in order.  *)
Atomic == ~Legacy /\ ~DisableFails

Entry == [conn : Conn \cup {None}, crtc : Crtc]

Devs == [status : [Conn -> {"connected", "disconnected"}],
         crtc : [Conn -> Crtc \cup {None}], flip : [Conn -> Flip \cup {None}],
         flips : [Flip -> SUBSET Entry],
         queued : [Crtc -> Buffer \cup {None}], current : [Crtc -> Buffer \cup {None}],
         hw : [Crtc -> Buffer \cup {None}],
         inflight : [Crtc -> {<<>>} \cup (Buffer \X Flip)],
         events : [Crtc -> Seq(Flip)], nocrtc : BOOLEAN]

Outputs == [enabled : BOOLEAN, frame_pending : BOOLEAN, idle_frame : BOOLEAN, fresh : BOOLEAN]

DrmTypeOK ==
    /\ dev \in Devs /\ output \in [Conn -> Outputs]
    /\ plugged \subseteq Conn /\ session \in BOOLEAN /\ due \subseteq Conn

(* The events the kernel owes on CRTC k. *)
SetOf(s) == {s[i] : i \in 1..Len(s)}
Distinct(s) == \A i, j \in 1..Len(s) : i # j => s[i] # s[j]
Unread(d, k) == SetOf(d.events[k])
Flying(d, k) == IF d.inflight[k] = <<>> THEN {} ELSE {d.inflight[k][2]}
Owes(d, k) == Unread(d, k) \cup Flying(d, k)

(* No CRTC serves two connectors. *)
Excl(d) == \A c, e \in Conn : d.crtc[c] = d.crtc[e] /\ d.crtc[c] # None => c = e

(* A page-flip lists exactly the CRTCs that owe its event, each once. *)
Owing(d) == \A k \in Crtc, f \in Flip : f \in Owes(d, k) <=> \E e \in d.flips[f] : e.crtc = k
Single(d) ==
    \A f \in Flip : \A e, g \in d.flips[f] :
        e.crtc = g.crtc \/ (e.conn = g.conn /\ e.conn # None) => e = g
Once(d) == \A k \in Crtc : Distinct(d.events[k]) /\ Unread(d, k) \cap Flying(d, k) = {}

(* A connector waits for the page-flip that lists it. *)
Listed(d) == \A f \in Flip : \A e \in d.flips[f] : e.conn # None => d.flip[e.conn] = f
Waits(d) == \A c \in Conn : d.flip[c] # None => \E e \in d.flips[d.flip[c]] : e.conn = c

(* It waits for its own CRTC's event, or for none that shows a buffer; and  *)
(* for that of the frame in flight, if there is one.                        *)
Moved(d) ==
    \A f \in Flip : \A e \in d.flips[f] :
        e.conn # None => d.crtc[e.conn] \in {e.crtc, None} \/ d.queued[d.crtc[e.conn]] = None
Newest(d) ==
    \A c \in Conn : d.crtc[c] # None /\ d.inflight[d.crtc[c]] # <<>> =>
        d.flip[c] \in {None, d.inflight[d.crtc[c]][2]}

(* A CRTC without connector shows nothing. *)
Clean(d) ==
    \A k \in Crtc : (\A c \in Conn : d.crtc[c] # k) =>
        d.queued[k] = None /\ d.current[k] = None /\ d.hw[k] = None /\ d.inflight[k] = <<>>

(* What is on screen is queued_fb or current_fb; what is about to be is     *)
(* queued_fb, and nothing else is queued once it is there.                  *)
Plane(d) ==
    \A k \in Crtc :
        /\ d.hw[k] \in {None, d.queued[k], d.current[k]}
        /\ d.inflight[k] = <<>> /\ d.queued[k] # None => d.hw[k] \in {None, d.queued[k]}
        /\ d.inflight[k] # <<>> => d.inflight[k][1] = d.queued[k]

Good(d) ==
    /\ d \in Devs
    /\ Excl(d) /\ Owing(d) /\ Single(d) /\ Once(d) /\ Listed(d) /\ Waits(d)
    /\ Moved(d) /\ Newest(d) /\ Clean(d) /\ Plane(d)

-----------------------------------------------------------------------------
(***************************************************************************)
(* Sequences of events.                                                    *)
(***************************************************************************)
LEMMA Appended ==
    ASSUME NEW S, NEW s \in Seq(S), NEW f \in S
    PROVE  /\ Append(s, f) \in Seq(S)
           /\ SetOf(Append(s, f)) = SetOf(s) \cup {f}
           /\ Distinct(s) /\ f \notin SetOf(s) => Distinct(Append(s, f))
<1> DEFINE t == Append(s, f)
<1>1. t \in Seq(S) /\ Len(t) = Len(s) + 1 /\ Len(s) \in Nat /\ t[Len(s) + 1] = f
      /\ \A i \in 1..Len(s) : t[i] = s[i]
  OBVIOUS
<1> HIDE DEF t
<1>2. SetOf(t) = SetOf(s) \cup {f}
  <2>1. \A x \in SetOf(t) : x \in SetOf(s) \cup {f}
    BY <1>1 DEF SetOf
  <2>2. \A x \in SetOf(s) : x \in SetOf(t)
    BY <1>1 DEF SetOf
  <2>3. f \in SetOf(t)
    BY <1>1 DEF SetOf
  <2> QED
    BY <2>1, <2>2, <2>3
<1>3. ASSUME Distinct(s), f \notin SetOf(s) PROVE Distinct(t)
  BY <1>1, <1>3 DEF Distinct, SetOf
<1> QED
  BY <1>1, <1>2, <1>3 DEF t

LEMMA Read ==
    ASSUME NEW S, NEW s \in Seq(S), s # <<>>, Distinct(s)
    PROVE  /\ Tail(s) \in Seq(S) /\ Head(s) \in S /\ Head(s) \in SetOf(s)
           /\ SetOf(Tail(s)) = SetOf(s) \ {Head(s)}
           /\ Distinct(Tail(s))
<1> DEFINE t == Tail(s)
<1>1. /\ t \in Seq(S) /\ Len(s) \in Nat /\ Len(s) > 0 /\ Len(t) = Len(s) - 1 /\ Head(s) = s[1]
      /\ \A i \in 1..Len(t) : t[i] = s[i + 1]
      /\ s[1] \in S
  OBVIOUS
<1> HIDE DEF t
<1>2. Distinct(t)
  BY <1>1 DEF Distinct
<1>3. SetOf(t) = SetOf(s) \ {s[1]}
  <2>1. ASSUME NEW x \in SetOf(t) PROVE x \in SetOf(s) \ {s[1]}
    BY <1>1, <2>1 DEF SetOf, Distinct
  <2>2. ASSUME NEW x \in SetOf(s), x # s[1] PROVE x \in SetOf(t)
    <3>1. PICK i \in 1..Len(s) : x = s[i]
      BY DEF SetOf
    <3>2. i # 1 /\ i - 1 \in 1..Len(t) /\ t[i - 1] = s[(i - 1) + 1] /\ (i - 1) + 1 = i
      BY <1>1, <2>2, <3>1
    <3> QED
      BY <3>1, <3>2 DEF SetOf
  <2> QED
    BY <2>1, <2>2
<1>4. s[1] \in SetOf(s)
  BY <1>1 DEF SetOf
<1> QED
  BY <1>1, <1>2, <1>3, <1>4 DEF t

LEMMA DevTyped ==
    ASSUME NEW d \in Devs
    PROVE  /\ d.status \in [Conn -> {"connected", "disconnected"}]
           /\ d.crtc \in [Conn -> Crtc \cup {None}] /\ d.flip \in [Conn -> Flip \cup {None}]
           /\ d.flips \in [Flip -> SUBSET Entry]
           /\ d.queued \in [Crtc -> Buffer \cup {None}] /\ d.current \in [Crtc -> Buffer \cup {None}]
           /\ d.hw \in [Crtc -> Buffer \cup {None}]
           /\ d.inflight \in [Crtc -> {<<>>} \cup (Buffer \X Flip)]
           /\ d.events \in [Crtc -> Seq(Flip)] /\ d.nocrtc \in BOOLEAN
BY DEF Devs

LEMMA Nones == None \notin Conn /\ None \notin Crtc /\ None \notin Buffer /\ None \notin Flip
BY DrmAssumption

LEMMA EntryTyped ==
    ASSUME NEW d \in Devs, NEW f \in Flip, NEW e \in d.flips[f]
    PROVE  /\ e \in Entry /\ e.conn \in Conn \cup {None} /\ e.crtc \in Crtc
           /\ e = [conn |-> e.conn, crtc |-> e.crtc]
<1>1. e \in Entry
  BY DevTyped
<1> QED
  BY <1>1 DEF Entry

LEMMA InflightTyped ==
    ASSUME NEW d \in Devs, NEW k \in Crtc, d.inflight[k] # <<>>
    PROVE  d.inflight[k][1] \in Buffer /\ d.inflight[k][2] \in Flip
<1>1. d.inflight[k] \in Buffer \X Flip
  BY DevTyped
<1> QED
  BY <1>1

LEMMA UnreadTyped ==
    ASSUME NEW d \in Devs, NEW k \in Crtc
    PROVE  d.events[k] \in Seq(Flip) /\ Unread(d, k) \subseteq Flip /\ Flying(d, k) \subseteq Flip
<1>1. d.events[k] \in Seq(Flip)
  BY DevTyped
<1>2. \A s \in Seq(Flip) : SetOf(s) \subseteq Flip
  BY DEF SetOf
<1> QED
  BY <1>1, <1>2, InflightTyped DEF Unread, Flying

(* The frames in flight on ks become unread events. *)
LEMMA Latched ==
    ASSUME NEW d \in Devs, NEW ks, ks \subseteq Crtc, NEW t, t = Latch(d, ks)
    PROVE  /\ t \in Devs
           /\ t.status = d.status /\ t.crtc = d.crtc /\ t.flip = d.flip /\ t.flips = d.flips
           /\ t.queued = d.queued /\ t.current = d.current /\ t.nocrtc = d.nocrtc
           /\ \A k \in Crtc \ ks : /\ t.hw[k] = d.hw[k] /\ t.inflight[k] = d.inflight[k]
                                   /\ t.events[k] = d.events[k]
           /\ \A k \in ks : /\ t.inflight[k] = <<>>
                            /\ t.hw[k] = IF d.inflight[k] = <<>> THEN d.hw[k] ELSE d.inflight[k][1]
                            /\ Unread(t, k) = Owes(d, k) /\ Flying(t, k) = {}
                            /\ Once(d) => Distinct(t.events[k])
<1> DEFINE late == {k \in ks : d.inflight[k] # <<>>}
           h == [k \in Crtc |-> IF k \in late THEN d.inflight[k][1] ELSE d.hw[k]]
           v == [k \in Crtc |-> IF k \in late THEN Append(d.events[k], d.inflight[k][2]) ELSE d.events[k]]
           n == [k \in Crtc |-> IF k \in late THEN <<>> ELSE d.inflight[k]]
<1>1. t = [d EXCEPT !.hw = h, !.events = v, !.inflight = n]
  BY DEF Latch
<1>2. h \in [Crtc -> Buffer \cup {None}]
  BY DevTyped, InflightTyped
<1>3. \A k \in Crtc : v[k] \in Seq(Flip)
  BY DevTyped, InflightTyped, Appended
<1>4. n \in [Crtc -> {<<>>} \cup (Buffer \X Flip)]
  BY DevTyped
<1>5. v \in [Crtc -> Seq(Flip)]
  BY <1>3
<1>6. \A k \in Crtc : /\ k \in late => h[k] = d.inflight[k][1] /\ n[k] = <<>>
                                       /\ v[k] = Append(d.events[k], d.inflight[k][2])
                      /\ k \notin late => h[k] = d.hw[k] /\ n[k] = d.inflight[k] /\ v[k] = d.events[k]
  OBVIOUS
<1>7. \A k \in Crtc : k \in late <=> k \in ks /\ d.inflight[k] # <<>>
  OBVIOUS
<1> HIDE DEF late, h, v, n
<1>8. /\ t \in Devs /\ t.hw = h /\ t.events = v /\ t.inflight = n
      /\ t.status = d.status /\ t.crtc = d.crtc /\ t.flip = d.flip /\ t.flips = d.flips
      /\ t.queued = d.queued /\ t.current = d.current /\ t.nocrtc = d.nocrtc
  BY <1>1, <1>2, <1>4, <1>5 DEF Devs
<1>9. ASSUME NEW k \in ks
      PROVE  /\ t.inflight[k] = <<>>
             /\ t.hw[k] = IF d.inflight[k] = <<>> THEN d.hw[k] ELSE d.inflight[k][1]
             /\ Unread(t, k) = Owes(d, k) /\ Flying(t, k) = {}
             /\ Once(d) => Distinct(t.events[k])
  <2>1. CASE d.inflight[k] = <<>>
    BY <1>6, <1>7, <1>8, <2>1 DEF Unread, Owes, Flying, Once
  <2>2. CASE d.inflight[k] # <<>>
    <3>1. /\ t.events[k] = Append(d.events[k], d.inflight[k][2]) /\ t.inflight[k] = <<>>
          /\ t.hw[k] = d.inflight[k][1] /\ Flying(d, k) = {d.inflight[k][2]}
      BY <1>6, <1>7, <1>8, <2>2 DEF Flying
    <3>2. d.events[k] \in Seq(Flip) /\ d.inflight[k][2] \in Flip
      BY <2>2, UnreadTyped, InflightTyped
    <3>3. Unread(t, k) = Unread(d, k) \cup {d.inflight[k][2]}
      BY <3>1, <3>2, Appended DEF Unread
    <3>4. ASSUME Once(d) PROVE Distinct(t.events[k])
      <4>1. k \in Crtc /\ Distinct(d.events[k]) /\ Unread(d, k) \cap Flying(d, k) = {}
        BY <3>4 DEF Once
      <4>2. d.inflight[k][2] \notin SetOf(d.events[k])
        BY <3>1, <4>1 DEF Unread
      <4> QED
        BY <3>1, <3>2, <4>1, <4>2, Appended
    <3> QED
      BY <2>2, <3>1, <3>3, <3>4 DEF Owes, Flying
  <2> QED
    BY <2>1, <2>2
<1> QED
  BY <1>6, <1>7, <1>8, <1>9

-----------------------------------------------------------------------------
(***************************************************************************)
(* What each call of a commit does to the record.                          *)
(***************************************************************************)
Request == [active : BOOLEAN, fb : Buffer \cup {None}]

LEMMA DrivenTyped ==
    ASSUME NEW d \in Devs, NEW conns, conns \subseteq Conn, \A c \in conns : d.crtc[c] # None
    PROVE  Driven(d, conns) \subseteq Crtc /\ \A c \in conns : d.crtc[c] \in Driven(d, conns)
BY DevTyped DEF Driven

LEMMA RequestFor ==
    ASSUME NEW d \in Devs, NEW conns, conns \subseteq Conn, NEW req \in [conns -> Request],
           NEW k \in Driven(d, conns)
    PROVE  /\ \E c \in conns : d.crtc[c] = k /\ FbFor(d, req, k) = req[c].fb
           /\ FbFor(d, req, k) \in Buffer \cup {None}
<1>1. \E c \in DOMAIN req : d.crtc[c] = k
  BY DEF Driven
<1>2. PICK c \in DOMAIN req : d.crtc[c] = k /\ FbFor(d, req, k) = req[c].fb
  BY <1>1 DEF FbFor
<1>3. req[c].fb \in Buffer \cup {None}
  BY DEF Request
<1> QED
  BY <1>2, <1>3

LEMMA Shown ==
    ASSUME NEW d \in Devs, NEW conns, conns \subseteq Conn, \A c \in conns : d.crtc[c] # None,
           NEW req \in [conns -> Request], NEW t, t = Show(d, req, conns)
    PROVE  /\ t \in Devs
           /\ t.status = d.status /\ t.crtc = d.crtc /\ t.flip = d.flip /\ t.flips = d.flips
           /\ t.queued = d.queued /\ t.current = d.current /\ t.nocrtc = d.nocrtc
           /\ \A k \in Crtc \ Driven(d, conns) :
                t.hw[k] = d.hw[k] /\ t.inflight[k] = d.inflight[k] /\ t.events[k] = d.events[k]
           /\ \A k \in Driven(d, conns) :
                /\ t.inflight[k] = <<>> /\ t.hw[k] = FbFor(d, req, k)
                /\ Unread(t, k) = Owes(d, k) /\ Flying(t, k) = {}
                /\ Once(d) => Distinct(t.events[k])
<1> DEFINE ks == Driven(d, conns)
           l == Latch(d, ks)
           h == [k \in Crtc |-> IF k \in ks THEN FbFor(d, req, k) ELSE l.hw[k]]
<1>1. t = [l EXCEPT !.hw = h]
  BY DEF Show
<1>2. ks \subseteq Crtc
  BY DrivenTyped
<1>3. \A k \in ks : FbFor(d, req, k) \in Buffer \cup {None}
  BY RequestFor
<1> HIDE DEF ks, l
<1>4. /\ l \in Devs
      /\ l.status = d.status /\ l.crtc = d.crtc /\ l.flip = d.flip /\ l.flips = d.flips
      /\ l.queued = d.queued /\ l.current = d.current /\ l.nocrtc = d.nocrtc
      /\ \A k \in Crtc \ ks : /\ l.hw[k] = d.hw[k] /\ l.inflight[k] = d.inflight[k]
                              /\ l.events[k] = d.events[k]
      /\ \A k \in ks : /\ l.inflight[k] = <<>>
                       /\ Unread(l, k) = Owes(d, k) /\ Flying(l, k) = {}
                       /\ Once(d) => Distinct(l.events[k])
  BY <1>2, Latched DEF l
<1>5. h \in [Crtc -> Buffer \cup {None}]
  BY <1>3, <1>4, DevTyped
<1>6. \A k \in Crtc : h[k] = IF k \in ks THEN FbFor(d, req, k) ELSE l.hw[k]
  OBVIOUS
<1> HIDE DEF h
<1>7. /\ t \in Devs /\ t.hw = h /\ t.events = l.events /\ t.inflight = l.inflight
      /\ t.status = l.status /\ t.crtc = l.crtc /\ t.flip = l.flip /\ t.flips = l.flips
      /\ t.queued = l.queued /\ t.current = l.current /\ t.nocrtc = l.nocrtc
  BY <1>1, <1>4, <1>5 DEF Devs
<1>8. \A k \in ks : Unread(t, k) = Unread(l, k) /\ Flying(t, k) = Flying(l, k)
  BY <1>7 DEF Unread, Flying
<1> QED
  BY <1>2, <1>4, <1>6, <1>7, <1>8 DEF ks

IsSignalled(d, t, ks, f) ==
    /\ t \in Devs
    /\ t.status = d.status /\ t.crtc = d.crtc /\ t.flip = d.flip /\ t.flips = d.flips
    /\ t.queued = d.queued /\ t.current = d.current /\ t.nocrtc = d.nocrtc
    /\ t.hw = d.hw /\ t.inflight = d.inflight
    /\ \A k \in Crtc \ ks : t.events[k] = d.events[k]
    /\ \A k \in ks : /\ Unread(t, k) = Unread(d, k) \cup {f}
                     /\ Distinct(d.events[k]) /\ f \notin Unread(d, k) => Distinct(t.events[k])

LEMMA Signalled ==
    ASSUME NEW d \in Devs, NEW ks, ks \subseteq Crtc, NEW f \in Flip, NEW t, t = Signal(d, ks, f)
    PROVE  IsSignalled(d, t, ks, f)
<1> DEFINE v == [k \in Crtc |-> IF k \in ks THEN Append(d.events[k], f) ELSE d.events[k]]
<1>1. t = [d EXCEPT !.events = v]
  BY DEF Signal
<1>2. \A k \in Crtc : d.events[k] \in Seq(Flip)
  BY DevTyped
<1>3. \A k \in Crtc : v[k] \in Seq(Flip)
  BY <1>2, Appended
<1>4. v \in [Crtc -> Seq(Flip)]
  BY <1>3
<1>5. \A k \in Crtc : v[k] = IF k \in ks THEN Append(d.events[k], f) ELSE d.events[k]
  OBVIOUS
<1> HIDE DEF v
<1>6. /\ t \in Devs /\ t.events = v
      /\ t.status = d.status /\ t.crtc = d.crtc /\ t.flip = d.flip /\ t.flips = d.flips
      /\ t.queued = d.queued /\ t.current = d.current /\ t.nocrtc = d.nocrtc
      /\ t.hw = d.hw /\ t.inflight = d.inflight
  BY <1>1, <1>4 DEF Devs
<1>7. ASSUME NEW k \in ks
      PROVE  /\ Unread(t, k) = Unread(d, k) \cup {f}
             /\ Distinct(d.events[k]) /\ f \notin Unread(d, k) => Distinct(t.events[k])
  <2>1. t.events[k] = Append(d.events[k], f) /\ d.events[k] \in Seq(Flip)
    BY <1>2, <1>5, <1>6
  <2> QED
    BY <2>1, Appended DEF Unread
<1> QED
  BY <1>5, <1>6, <1>7 DEF IsSignalled

IsInFlight(d, t, drv, req, f) ==
    /\ t \in Devs
    /\ t.status = d.status /\ t.crtc = d.crtc /\ t.flip = d.flip /\ t.flips = d.flips
    /\ t.queued = d.queued /\ t.current = d.current /\ t.nocrtc = d.nocrtc
    /\ t.hw = d.hw /\ t.events = d.events
    /\ \A k \in Crtc : t.inflight[k] =
         IF k \in Driven(d, drv) THEN <<FbFor(d, req, k), f>> ELSE d.inflight[k]

LEMMA InFlight ==
    ASSUME NEW d \in Devs, NEW conns, conns \subseteq Conn, \A c \in conns : d.crtc[c] # None,
           NEW drv, drv \subseteq conns,
           NEW req \in [conns -> Request], NEW f \in Flip, NEW t, t = Queue(d, req, drv, f),
           \A k \in Driven(d, drv) : FbFor(d, req, k) # None
    PROVE  IsInFlight(d, t, drv, req, f)
<1> DEFINE ks == Driven(d, drv)
           n == [k \in Crtc |-> IF k \in ks THEN <<FbFor(d, req, k), f>> ELSE d.inflight[k]]
<1>1. t = [d EXCEPT !.inflight = n]
  BY DEF Queue
<1>2. \A k \in ks : FbFor(d, req, k) \in Buffer
  <2>1. ks \subseteq Driven(d, conns)
    BY DEF Driven
  <2> QED
    BY <2>1, RequestFor
<1>3. \A k \in Crtc : d.inflight[k] \in {<<>>} \cup (Buffer \X Flip)
  BY DevTyped
<1> HIDE DEF ks
<1>4. n \in [Crtc -> {<<>>} \cup (Buffer \X Flip)]
  BY <1>2, <1>3
<1>5. \A k \in Crtc : n[k] = IF k \in ks THEN <<FbFor(d, req, k), f>> ELSE d.inflight[k]
  OBVIOUS
<1> HIDE DEF n
<1>6. /\ t \in Devs /\ t.inflight = n
      /\ t.status = d.status /\ t.crtc = d.crtc /\ t.flip = d.flip /\ t.flips = d.flips
      /\ t.queued = d.queued /\ t.current = d.current /\ t.nocrtc = d.nocrtc
      /\ t.hw = d.hw /\ t.events = d.events
  BY <1>1, <1>4 DEF Devs
<1> QED
  BY <1>5, <1>6 DEF ks, IsInFlight

(* The list of a page-flip made for conns. *)
Entered(d, conns) == {[conn |-> c, crtc |-> d.crtc[c]] : c \in conns}

IsCreated(d, t, conns, f) ==
    /\ t \in Devs
    /\ t.status = d.status /\ t.crtc = d.crtc /\ t.flip = d.flip
    /\ t.queued = d.queued /\ t.current = d.current /\ t.nocrtc = d.nocrtc
    /\ t.hw = d.hw /\ t.inflight = d.inflight /\ t.events = d.events
    /\ t.flips[f] = Entered(d, conns)
    /\ \A g \in Flip : g # f => t.flips[g] = d.flips[g]

LEMMA Created ==
    ASSUME NEW d \in Devs, NEW conns, conns \subseteq Conn, \A c \in conns : d.crtc[c] # None,
           NEW f \in Flip, NEW t, t = drm_page_flip_create(d, f, conns)
    PROVE  IsCreated(d, t, conns, f)
<1> DEFINE S == {[conn |-> c, crtc |-> d.crtc[c]] : c \in conns}
<1>1. S \in SUBSET Entry
  BY DevTyped DEF Entry
<1> DEFINE l == [d.flips EXCEPT ![f] = S]
<1>2. t = [d EXCEPT !.flips = l]
  BY DEF drm_page_flip_create
<1>3. l \in [Flip -> SUBSET Entry] /\ l[f] = S /\ \A g \in Flip : g # f => l[g] = d.flips[g]
  BY <1>1, DevTyped
<1>4. S = Entered(d, conns)
  BY DEF Entered
<1> HIDE DEF l, S
<1>5. /\ t \in Devs /\ t.flips = l
      /\ t.status = d.status /\ t.crtc = d.crtc /\ t.flip = d.flip
      /\ t.queued = d.queued /\ t.current = d.current /\ t.nocrtc = d.nocrtc
      /\ t.hw = d.hw /\ t.inflight = d.inflight /\ t.events = d.events
  BY <1>2, <1>3 DEF Devs
<1> QED
  BY <1>3, <1>4, <1>5 DEF IsCreated

(* A page-flip made and freed again leaves no trace. *)
LEMMA Undone ==
    ASSUME NEW d \in Devs, NEW f \in FreeFlips(d), NEW conns
    PROVE  drm_page_flip_destroy(drm_page_flip_create(d, f, conns), f) = d
<1>1. f \in Flip /\ d.flips[f] = {}
  BY DEF FreeFlips
<1> DEFINE S == {[conn |-> c, crtc |-> d.crtc[c]] : c \in conns}
           e == [d EXCEPT !.flips[f] = S]
           t == [e EXCEPT !.flips[f] = {}]
<1>2. drm_page_flip_destroy(drm_page_flip_create(d, f, conns), f) = t
  BY DEF drm_page_flip_destroy, drm_page_flip_create
<1> HIDE DEF S
<1> DEFINE l == [d.flips EXCEPT ![f] = S]
<1>3. t = [d EXCEPT !.flips = [l EXCEPT ![f] = {}]]
  BY DEF Devs
<1>4. [l EXCEPT ![f] = {}] = d.flips
  BY <1>1, DevTyped
<1>5. [d EXCEPT !.flips = d.flips] = d
  BY DEF Devs
<1> QED
  BY <1>2, <1>3, <1>4, <1>5

(* An entry after the connectors conns have moved on from page-flip g. *)
Forgotten(d, conns, g, e) ==
    IF e.conn \in conns /\ d.flip[e.conn] = g THEN [conn |-> None, crtc |-> e.crtc] ELSE e

Remain(d, conns, g) == {Forgotten(d, conns, g, e) : e \in d.flips[g]}

IsPended(d, t, conns, f) ==
    /\ t \in Devs
    /\ t.status = d.status /\ t.crtc = d.crtc
    /\ t.queued = d.queued /\ t.current = d.current /\ t.nocrtc = d.nocrtc
    /\ t.hw = d.hw /\ t.inflight = d.inflight /\ t.events = d.events
    /\ \A g \in Flip : t.flips[g] = Remain(d, conns, g)
    /\ (\A c \in conns : t.flip[c] = f) /\ \A c \in Conn \ conns : t.flip[c] = d.flip[c]

LEMMA Pended ==
    ASSUME NEW d \in Devs, NEW conns, conns \subseteq Conn, NEW f \in Flip \cup {None},
           NEW t, t = drm_connector_set_pending_page_flip(d, conns, f)
    PROVE  IsPended(d, t, conns, f)
<1> DEFINE old(g, e) == IF e.conn \in conns /\ d.flip[e.conn] = g THEN [e EXCEPT !.conn = None] ELSE e
           l == [g \in Flip |-> {old(g, e) : e \in d.flips[g]}]
           p == [c \in Conn |-> IF c \in conns THEN f ELSE d.flip[c]]
<1>1. t = [d EXCEPT !.flips = l, !.flip = p]
  BY DEF drm_connector_set_pending_page_flip
<1>2. ASSUME NEW g \in Flip, NEW e \in d.flips[g]
      PROVE  old(g, e) = Forgotten(d, conns, g, e) /\ old(g, e) \in Entry
  <2>1. e \in Entry
    BY DevTyped
  <2>2. [e EXCEPT !.conn = None] = [conn |-> None, crtc |-> e.crtc] /\ [e EXCEPT !.conn = None] \in Entry
    BY <2>1 DEF Entry
  <2> QED
    BY <2>1, <2>2 DEF Forgotten
<1>3. ASSUME NEW g \in Flip
      PROVE  l[g] = Remain(d, conns, g) /\ l[g] \in SUBSET Entry
  <2>1. l[g] = {old(g, e) : e \in d.flips[g]}
    OBVIOUS
  <2>2. \A e \in d.flips[g] : old(g, e) = Forgotten(d, conns, g, e) /\ old(g, e) \in Entry
    BY <1>2
  <2> HIDE DEF old, l
  <2>3. {old(g, e) : e \in d.flips[g]} = {Forgotten(d, conns, g, e) : e \in d.flips[g]}
    BY <2>2
  <2> QED
    BY <2>1, <2>2, <2>3 DEF Remain
<1>4. l \in [Flip -> SUBSET Entry]
  BY <1>3
<1>5. p \in [Conn -> Flip \cup {None}] /\ \A c \in Conn : p[c] = IF c \in conns THEN f ELSE d.flip[c]
  BY DevTyped
<1> HIDE DEF l, p
<1>6. /\ t \in Devs /\ t.flips = l /\ t.flip = p
      /\ t.status = d.status /\ t.crtc = d.crtc
      /\ t.queued = d.queued /\ t.current = d.current /\ t.nocrtc = d.nocrtc
      /\ t.hw = d.hw /\ t.inflight = d.inflight /\ t.events = d.events
  BY <1>1, <1>4, <1>5 DEF Devs
<1> QED
  BY <1>3, <1>5, <1>6 DEF IsPended

OffIn(req) == {c \in DOMAIN req : ~req[c].active}

IsApplied(d, t, conns, req, f) ==
    /\ t \in Devs
    /\ t.status = d.status /\ t.nocrtc = d.nocrtc
    /\ t.hw = d.hw /\ t.inflight = d.inflight /\ t.events = d.events
    /\ \A g \in Flip : t.flips[g] = Remain(d, conns, g)
    /\ (\A c \in conns : t.flip[c] = f) /\ \A c \in Conn \ conns : t.flip[c] = d.flip[c]
    /\ \A c \in Conn : t.crtc[c] = IF c \in OffIn(req) THEN None ELSE d.crtc[c]
    /\ \A k \in Crtc :
         /\ t.queued[k] = IF k \in Driven(d, conns) THEN FbFor(d, req, k) ELSE d.queued[k]
         /\ t.current[k] = IF k \in Driven(d, OffIn(req)) THEN None ELSE d.current[k]

LEMMA Applied ==
    ASSUME NEW d \in Devs, NEW conns, conns \subseteq Conn, \A c \in conns : d.crtc[c] # None,
           NEW req \in [conns -> Request], NEW f \in Flip \cup {None},
           NEW t, t = drm_connector_apply_commit(d, req, f), ~Legacy \/ f = None
    PROVE  IsApplied(d, t, conns, req, f)
<1> DEFINE off == OffIn(req)
           p == drm_connector_set_pending_page_flip(d, conns, f)
           q == [k \in Crtc |-> IF k \in Driven(d, conns) THEN FbFor(d, req, k) ELSE p.queued[k]]
           u == [k \in Crtc |-> IF k \in Driven(d, off) THEN None ELSE p.current[k]]
           r == [c \in Conn |-> IF c \in off THEN None ELSE p.crtc[c]]
<1>1. DOMAIN req = conns
  OBVIOUS
<1>2. t = [p EXCEPT !.queued = q, !.current = u, !.crtc = r]
  BY <1>1 DEF drm_connector_apply_commit, OffIn
<1> HIDE DEF p, off
<1>3. /\ p \in Devs
      /\ p.status = d.status /\ p.crtc = d.crtc
      /\ p.queued = d.queued /\ p.current = d.current /\ p.nocrtc = d.nocrtc
      /\ p.hw = d.hw /\ p.inflight = d.inflight /\ p.events = d.events
      /\ \A g \in Flip : p.flips[g] = Remain(d, conns, g)
      /\ (\A c \in conns : p.flip[c] = f) /\ \A c \in Conn \ conns : p.flip[c] = d.flip[c]
  <2>1. p = drm_connector_set_pending_page_flip(d, conns, f)
    BY DEF p
  <2>2. IsPended(d, p, conns, f)
    BY <2>1, Pended
  <2> QED
    BY <2>2 DEF IsPended
<1>4. q \in [Crtc -> Buffer \cup {None}]
  <2>1. \A k \in Crtc : k \in Driven(d, conns) => FbFor(d, req, k) \in Buffer \cup {None}
    BY RequestFor
  <2>2. \A k \in Crtc : p.queued[k] \in Buffer \cup {None}
    BY <1>3, DevTyped
  <2> QED
    BY <2>1, <2>2
<1>5. u \in [Crtc -> Buffer \cup {None}]
  BY <1>3, DevTyped
<1>6. r \in [Conn -> Crtc \cup {None}]
  BY <1>3, DevTyped
<1>7. \A k \in Crtc : /\ q[k] = IF k \in Driven(d, conns) THEN FbFor(d, req, k) ELSE d.queued[k]
                      /\ u[k] = IF k \in Driven(d, off) THEN None ELSE d.current[k]
  BY <1>3
<1>8. \A c \in Conn : r[c] = IF c \in off THEN None ELSE d.crtc[c]
  BY <1>3
<1> HIDE DEF q, u, r
<1>9. /\ t \in Devs /\ t.queued = q /\ t.current = u /\ t.crtc = r
      /\ t.status = p.status /\ t.flips = p.flips /\ t.flip = p.flip /\ t.nocrtc = p.nocrtc
      /\ t.hw = p.hw /\ t.inflight = p.inflight /\ t.events = p.events
  BY <1>2, <1>3, <1>4, <1>5, <1>6 DEF Devs
<1> QED
  BY <1>3, <1>7, <1>8, <1>9 DEF off, IsApplied

-----------------------------------------------------------------------------
(***************************************************************************)
(* A blocking commit of the connectors drv, or a farewell to page-flips,   *)
(* seen from outside: conns move on to page-flip f, the connectors off     *)
(* lose their CRTC, the CRTCs of drv show the buffers of fb.               *)
(***************************************************************************)
Unlisted(conns, e) == IF e.conn \in conns THEN [conn |-> None, crtc |-> e.crtc] ELSE e

Stay(d, conns, g) == {Unlisted(conns, e) : e \in d.flips[g]}

Blocking(d, t, conns, drv, off, f, fb) ==
    /\ t \in Devs
    /\ off \subseteq drv /\ drv \subseteq conns /\ conns \subseteq Conn
    /\ \A c \in drv : d.crtc[c] # None
    /\ f = None \/ (f \in Flip /\ d.flips[f] = {} /\ drv = conns)
    /\ \A c \in Conn : t.crtc[c] = IF c \in off THEN None ELSE d.crtc[c]
    /\ \A c \in Conn : t.flip[c] = IF c \in conns THEN f ELSE d.flip[c]
    /\ \A g \in Flip : t.flips[g] =
         IF g = f THEN Entered(d, conns)
         ELSE Stay(d, conns, g)
    /\ \A c \in drv :
         /\ t.hw[d.crtc[c]] = fb[c] /\ t.queued[d.crtc[c]] = fb[c]
         /\ t.inflight[d.crtc[c]] = <<>> /\ Distinct(t.events[d.crtc[c]])
         /\ Unread(t, d.crtc[c]) = Owes(d, d.crtc[c]) \cup ({f} \ {None})
         /\ c \in off => fb[c] = None /\ t.current[d.crtc[c]] = None
         /\ c \notin off => t.current[d.crtc[c]] = d.current[d.crtc[c]]
    /\ \A k \in Crtc \ Driven(d, drv) :
         /\ t.hw[k] = d.hw[k] /\ t.queued[k] = d.queued[k] /\ t.current[k] = d.current[k]
         /\ t.inflight[k] = d.inflight[k] /\ t.events[k] = d.events[k]

LEMMA BlockingFacts ==
    ASSUME NEW d, Good(d), NEW conns, NEW drv, NEW off, NEW f, NEW fb, NEW t,
           Blocking(d, t, conns, drv, off, f, fb)
    PROVE  /\ \A c \in Conn \ conns : /\ t.flip[c] = d.flip[c] /\ t.crtc[c] = d.crtc[c]
                                      /\ d.crtc[c] # None => d.crtc[c] \in Crtc \ Driven(d, drv)
           /\ \A g \in Flip : g # f => \A e \in t.flips[g] :
                \E x \in d.flips[g] : e = Unlisted(conns, x) /\ e.crtc = x.crtc
           /\ \A g \in Flip : g # f => \A x \in d.flips[g] :
                /\ Unlisted(conns, x) \in t.flips[g] /\ Unlisted(conns, x).crtc = x.crtc
                /\ x.conn \notin conns => x \in t.flips[g]
           /\ \A g \in Flip : g # f => \A e \in t.flips[g] :
                e.conn # None => e \in d.flips[g] /\ e.conn \in Conn \ conns
<1>1. d \in Devs /\ Excl(d) /\ conns \subseteq Conn /\ drv \subseteq conns /\ off \subseteq drv
  BY DEF Good, Blocking
<1>2. ASSUME NEW c \in Conn \ conns
      PROVE  /\ t.flip[c] = d.flip[c] /\ t.crtc[c] = d.crtc[c]
             /\ d.crtc[c] # None => d.crtc[c] \in Crtc \ Driven(d, drv)
  <2>1. t.flip[c] = d.flip[c] /\ t.crtc[c] = d.crtc[c]
    BY <1>1 DEF Blocking
  <2>2. ASSUME d.crtc[c] # None PROVE d.crtc[c] \in Crtc \ Driven(d, drv)
    BY <1>1, <2>2, DevTyped DEF Driven, Excl
  <2> QED
    BY <2>1, <2>2
<1>3. ASSUME NEW g \in Flip, g # f
      PROVE  t.flips[g] = Stay(d, conns, g)
  BY <1>3 DEF Blocking
<1>4. ASSUME NEW g \in Flip, NEW x \in d.flips[g]
      PROVE  /\ Unlisted(conns, x).crtc = x.crtc
             /\ x.conn \notin conns => Unlisted(conns, x) = x
             /\ Unlisted(conns, x).conn # None => Unlisted(conns, x) = x /\ x.conn \in Conn \ conns
  BY <1>1, EntryTyped DEF Unlisted
<1> QED
  BY <1>2, <1>3, <1>4 DEF Stay

LEMMA BlockingKeepsEvents ==
    ASSUME NEW d, Good(d), NEW conns, NEW drv, NEW off, NEW f, NEW fb, NEW t,
           Blocking(d, t, conns, drv, off, f, fb)
    PROVE  Owing(t) /\ Once(t)
<1>1. d \in Devs /\ Owing(d) /\ Once(d)
  BY DEF Good
<1>2. \A k \in Crtc \ Driven(d, drv) : Owes(t, k) = Owes(d, k) /\ t.events[k] = d.events[k]
                                       /\ Flying(t, k) = Flying(d, k) /\ Unread(t, k) = Unread(d, k)
  BY DEF Blocking, Owes, Unread, Flying
<1>3. \A k \in Driven(d, drv) : /\ Owes(t, k) = Owes(d, k) \cup ({f} \ {None})
                                /\ Flying(t, k) = {} /\ Distinct(t.events[k])
  BY DEF Blocking, Owes, Flying, Driven
<1>4. Once(t)
  BY <1>1, <1>2, <1>3 DEF Once
<1>5. ASSUME NEW k \in Crtc, NEW g \in Flip, g # f
      PROVE  g \in Owes(t, k) <=> \E e \in t.flips[g] : e.crtc = k
  <2>1. g \in Owes(t, k) <=> g \in Owes(d, k)
    BY <1>2, <1>3, <1>5
  <2>2. g \in Owes(d, k) <=> \E e \in d.flips[g] : e.crtc = k
    BY <1>1 DEF Owing
  <2>3. (\E e \in t.flips[g] : e.crtc = k) <=> \E e \in d.flips[g] : e.crtc = k
    BY <1>5, BlockingFacts
  <2> QED
    BY <2>1, <2>2, <2>3
<1>6. ASSUME NEW k \in Crtc, f \in Flip
      PROVE  f \in Owes(t, k) <=> \E e \in t.flips[f] : e.crtc = k
  <2>1. f # None /\ d.flips[f] = {} /\ drv = conns
    BY <1>6, Nones DEF Blocking
  <2>2. f \notin Owes(d, k)
    BY <1>1, <1>6, <2>1 DEF Owing
  <2>3. t.flips[f] = Entered(d, conns)
    BY <1>6 DEF Blocking
  <2>4. f \in Owes(t, k) <=> k \in Driven(d, conns)
    BY <1>2, <1>3, <2>1, <2>2
  <2>5. ASSUME NEW c \in conns, d.crtc[c] = k PROVE \E e \in t.flips[f] : e.crtc = k
    <3>1. [conn |-> c, crtc |-> d.crtc[c]] \in t.flips[f] /\ [conn |-> c, crtc |-> d.crtc[c]].crtc = k
      BY <2>3, <2>5 DEF Entered
    <3> QED
      BY <3>1
  <2>6. ASSUME NEW e \in t.flips[f], e.crtc = k PROVE \E c \in conns : d.crtc[c] = k
    BY <2>3, <2>6 DEF Entered
  <2> QED
    BY <2>4, <2>5, <2>6 DEF Driven
<1> QED
  BY <1>4, <1>5, <1>6 DEF Owing

LEMMA BlockingKeepsFlips ==
    ASSUME NEW d, Good(d), NEW conns, NEW drv, NEW off, NEW f, NEW fb, NEW t,
           Blocking(d, t, conns, drv, off, f, fb)
    PROVE  Single(t) /\ Listed(t) /\ Waits(t) /\ Moved(t)
<1>1. d \in Devs /\ Excl(d) /\ Single(d) /\ Listed(d) /\ Waits(d) /\ Moved(d)
      /\ conns \subseteq Conn /\ drv \subseteq conns /\ off \subseteq drv
      /\ (f = None \/ (f \in Flip /\ d.flips[f] = {} /\ drv = conns))
      /\ \A c \in drv : d.crtc[c] # None
  BY DEF Good, Blocking
<1>2. ASSUME f \in Flip
      PROVE  /\ t.flips[f] = Entered(d, conns)
             /\ drv = conns /\ d.flips[f] = {}
  BY <1>1, <1>2, Nones DEF Blocking
<1>3. Single(t)
  <2>1. ASSUME NEW g \in Flip, NEW e \in t.flips[g], NEW h \in t.flips[g],
               e.crtc = h.crtc \/ (e.conn = h.conn /\ e.conn # None)
        PROVE  e = h
    <3>1. CASE g = f
      BY <1>1, <1>2, <2>1, <3>1 DEF Excl, Entered
    <3>2. CASE g # f
      <4>1. PICK x \in d.flips[g], y \in d.flips[g] :
              e = Unlisted(conns, x) /\ e.crtc = x.crtc /\ h = Unlisted(conns, y) /\ h.crtc = y.crtc
        BY <3>2, BlockingFacts
      <4>2. CASE e.crtc = h.crtc
        BY <1>1, <4>1, <4>2 DEF Single
      <4>3. CASE e.conn = h.conn /\ e.conn # None
        <5>1. e \in d.flips[g] /\ h \in d.flips[g]
          BY <3>2, <4>3, BlockingFacts
        <5> QED
          BY <1>1, <4>3, <5>1 DEF Single
      <4> QED
        BY <2>1, <4>2, <4>3
    <3> QED
      BY <3>1, <3>2
  <2> QED
    BY <2>1 DEF Single
<1>4. ASSUME NEW g \in Flip, NEW e \in t.flips[g], e.conn # None
      PROVE  /\ t.flip[e.conn] = g
             /\ t.crtc[e.conn] \in {e.crtc, None} \/ t.queued[t.crtc[e.conn]] = None
  <2>1. CASE g = f
    <3>1. PICK c \in conns : e = [conn |-> c, crtc |-> d.crtc[c]]
      BY <1>2, <2>1 DEF Entered
    <3>2. t.flip[c] = f /\ t.crtc[c] \in {d.crtc[c], None}
      BY <1>1 DEF Blocking
    <3> QED
      BY <2>1, <3>1, <3>2
  <2>2. CASE g # f
    <3>1. e \in d.flips[g] /\ e.conn \in Conn \ conns
      BY <1>4, <2>2, BlockingFacts
    <3>2. d.flip[e.conn] = g /\ (d.crtc[e.conn] \in {e.crtc, None} \/ d.queued[d.crtc[e.conn]] = None)
      BY <1>1, <1>4, <3>1 DEF Listed, Moved
    <3>3. /\ t.flip[e.conn] = d.flip[e.conn] /\ t.crtc[e.conn] = d.crtc[e.conn]
          /\ d.crtc[e.conn] # None => d.crtc[e.conn] \in Crtc \ Driven(d, drv)
      BY <3>1, BlockingFacts
    <3>4. d.crtc[e.conn] # None => t.queued[d.crtc[e.conn]] = d.queued[d.crtc[e.conn]]
      BY <3>3 DEF Blocking
    <3> QED
      BY <3>2, <3>3, <3>4
  <2> QED
    BY <2>1, <2>2
<1>5. ASSUME NEW c \in Conn, t.flip[c] # None
      PROVE  \E e \in t.flips[t.flip[c]] : e.conn = c
  <2>1. CASE c \in conns
    <3>1. t.flip[c] = f
      BY <2>1 DEF Blocking
    <3>2. f \in Flip /\ [conn |-> c, crtc |-> d.crtc[c]] \in t.flips[f]
      BY <1>1, <1>2, <1>5, <2>1, <3>1 DEF Entered
    <3>3. [conn |-> c, crtc |-> d.crtc[c]].conn = c
      OBVIOUS
    <3> QED
      BY <3>1, <3>2, <3>3
  <2>2. CASE c \notin conns
    <3>1. t.flip[c] = d.flip[c] /\ d.flip[c] \in Flip
      BY <1>1, <1>5, <2>2, BlockingFacts, DevTyped
    <3>2. PICK e \in d.flips[d.flip[c]] : e.conn = c
      BY <1>1, <1>5, <3>1 DEF Waits
    <3>3. d.flip[c] # f
      BY <1>2, <3>1, <3>2
    <3>4. e \in t.flips[d.flip[c]]
      BY <2>2, <3>1, <3>2, <3>3, BlockingFacts
    <3> QED
      BY <3>1, <3>2, <3>4
  <2> QED
    BY <2>1, <2>2
<1> QED
  BY <1>3, <1>4, <1>5 DEF Listed, Waits, Moved

LEMMA BlockingKeepsPlanes ==
    ASSUME NEW d, Good(d), NEW conns, NEW drv, NEW off, NEW f, NEW fb, NEW t,
           Blocking(d, t, conns, drv, off, f, fb)
    PROVE  Excl(t) /\ Newest(t) /\ Clean(t) /\ Plane(t)
<1>1. d \in Devs /\ Excl(d) /\ Newest(d) /\ Clean(d) /\ Plane(d)
      /\ conns \subseteq Conn /\ drv \subseteq conns /\ off \subseteq drv
      /\ (f = None \/ (f \in Flip /\ d.flips[f] = {} /\ drv = conns))
      /\ \A c \in drv : d.crtc[c] # None
  BY DEF Good, Blocking
<1>2. \A c \in Conn : t.crtc[c] = IF c \in off THEN None ELSE d.crtc[c]
  BY DEF Blocking
<1>3. Excl(t)
  BY <1>1, <1>2 DEF Excl
<1>4. \A k \in Crtc \ Driven(d, drv) :
         /\ t.hw[k] = d.hw[k] /\ t.queued[k] = d.queued[k] /\ t.current[k] = d.current[k]
         /\ t.inflight[k] = d.inflight[k]
  BY DEF Blocking
<1>5. \A k \in Driven(d, drv) : /\ t.hw[k] = t.queued[k] /\ t.inflight[k] = <<>>
                                /\ k \in Driven(d, off) => t.hw[k] = None /\ t.current[k] = None
  <2>1. ASSUME NEW c \in drv PROVE t.hw[d.crtc[c]] = t.queued[d.crtc[c]] /\ t.inflight[d.crtc[c]] = <<>>
    BY DEF Blocking
  <2>2. ASSUME NEW c \in off PROVE t.hw[d.crtc[c]] = None /\ t.current[d.crtc[c]] = None
    BY <1>1 DEF Blocking
  <2> QED
    BY <2>1, <2>2 DEF Driven
<1>6. Plane(t)
  BY <1>1, <1>4, <1>5 DEF Plane
<1>7. ASSUME NEW c \in Conn, t.crtc[c] # None, t.inflight[t.crtc[c]] # <<>>
      PROVE  t.flip[c] \in {None, t.inflight[t.crtc[c]][2]}
  <2>1. t.crtc[c] = d.crtc[c] /\ d.crtc[c] \in Crtc
    BY <1>1, <1>2, <1>7, DevTyped
  <2>2. d.crtc[c] \notin Driven(d, drv) /\ c \notin drv
    BY <1>5, <1>7, <2>1 DEF Driven
  <2>3. d.inflight[d.crtc[c]] = t.inflight[t.crtc[c]] /\ d.flip[c] \in {None, d.inflight[d.crtc[c]][2]}
    BY <1>1, <1>4, <1>7, <2>1, <2>2 DEF Newest
  <2>4. t.flip[c] \in {None, d.flip[c]}
    BY <1>1, <2>2 DEF Blocking
  <2> QED
    BY <2>3, <2>4
<1>8. ASSUME NEW k \in Crtc, \A c \in Conn : t.crtc[c] # k
      PROVE  t.queued[k] = None /\ t.current[k] = None /\ t.hw[k] = None /\ t.inflight[k] = <<>>
  <2>1. CASE k \in Driven(d, drv)
    <3>1. PICK c \in drv : d.crtc[c] = k
      BY <2>1 DEF Driven
    <3>2. k \in Driven(d, off)
      BY <1>1, <1>2, <1>8, <3>1 DEF Driven
    <3> QED
      BY <1>5, <2>1, <3>2
  <2>2. CASE k \notin Driven(d, drv)
    <3>1. \A c \in Conn : d.crtc[c] # k
      BY <1>1, <1>2, <1>8, <2>2, Nones DEF Driven
    <3> QED
      BY <1>1, <1>4, <2>2, <3>1 DEF Clean
  <2> QED
    BY <2>1, <2>2
<1> QED
  BY <1>3, <1>6, <1>7, <1>8 DEF Newest, Clean

LEMMA BlockingIsGood ==
    ASSUME NEW d, Good(d), NEW conns, NEW drv, NEW off, NEW f, NEW fb, NEW t,
           Blocking(d, t, conns, drv, off, f, fb)
    PROVE  Good(t)
<1>1. Owing(t) /\ Once(t)
  BY BlockingKeepsEvents
<1>2. Single(t) /\ Listed(t) /\ Waits(t) /\ Moved(t)
  BY BlockingKeepsFlips
<1>3. Excl(t) /\ Newest(t) /\ Clean(t) /\ Plane(t)
  BY BlockingKeepsPlanes
<1>4. t \in Devs
  BY DEF Blocking
<1> QED
  BY <1>1, <1>2, <1>3, <1>4 DEF Good

LEMMA RemainUnlisted ==
    ASSUME NEW d, Good(d), NEW conns, conns \subseteq Conn, NEW g \in Flip
    PROVE  Remain(d, conns, g) = Stay(d, conns, g)
<1>1. d \in Devs /\ Listed(d)
  BY DEF Good
<1>2. \A e \in d.flips[g] : Forgotten(d, conns, g, e) = Unlisted(conns, e)
  BY <1>1, EntryTyped, Nones DEF Listed, Forgotten, Unlisted
<1> QED
  BY <1>2 DEF Remain, Stay

LEMMA OwnRequest ==
    ASSUME NEW d, Good(d), NEW conns, conns \subseteq Conn, \A c \in conns : d.crtc[c] # None,
           NEW req \in [conns -> Request], NEW c \in conns
    PROVE  FbFor(d, req, d.crtc[c]) = req[c].fb
<1>1. d \in Devs /\ Excl(d)
  BY DEF Good
<1>2. d.crtc[c] \in Driven(d, conns)
  BY <1>1, DrivenTyped
<1>3. PICK x \in conns : d.crtc[x] = d.crtc[c] /\ FbFor(d, req, d.crtc[c]) = req[x].fb
  BY <1>1, <1>2, RequestFor
<1>4. x = c
  BY <1>1, <1>3 DEF Excl
<1> QED
  BY <1>3, <1>4

LEMMA TurnedOffBlocks ==
    ASSUME NEW d, Good(d), NEW conns, conns \subseteq Conn, \A c \in conns : d.crtc[c] # None,
           NEW t, t = TurnedOff(d, conns)
    PROVE  /\ Blocking(d, t, conns, conns, conns, None, [c \in conns |-> None])
           /\ t.status = d.status /\ t.nocrtc = d.nocrtc
<1> DEFINE req == [c \in conns |-> [active |-> FALSE, fb |-> None]]
           s == Show(d, req, conns)
<1>1. t = drm_connector_apply_commit(s, req, None)
  BY DEF TurnedOff
<1>2. req \in [conns -> Request] /\ OffIn(req) = conns /\ \A c \in conns : req[c].fb = None
  BY DEF Request, OffIn
<1>3. s = Show(d, req, conns)
  OBVIOUS
<1>4. d \in Devs /\ Once(d)
  BY DEF Good
<1> HIDE DEF req, s
<1>5. /\ s \in Devs
      /\ s.status = d.status /\ s.crtc = d.crtc /\ s.flip = d.flip /\ s.flips = d.flips
      /\ s.queued = d.queued /\ s.current = d.current /\ s.nocrtc = d.nocrtc
      /\ \A k \in Crtc \ Driven(d, conns) :
           s.hw[k] = d.hw[k] /\ s.inflight[k] = d.inflight[k] /\ s.events[k] = d.events[k]
      /\ \A k \in Driven(d, conns) :
           /\ s.inflight[k] = <<>> /\ s.hw[k] = FbFor(d, req, k)
           /\ Unread(s, k) = Owes(d, k) /\ Distinct(s.events[k])
  BY <1>2, <1>3, <1>4, Shown
<1>6. /\ Driven(s, conns) = Driven(d, conns) /\ \A k \in Crtc : FbFor(s, req, k) = FbFor(d, req, k)
      /\ \A g \in Flip : Remain(s, conns, g) = Remain(d, conns, g)
  BY <1>5 DEF Driven, FbFor, Remain, Forgotten
<1>7. /\ t \in Devs
      /\ t.status = s.status /\ t.nocrtc = s.nocrtc
      /\ t.hw = s.hw /\ t.inflight = s.inflight /\ t.events = s.events
      /\ \A g \in Flip : t.flips[g] = Remain(s, conns, g)
      /\ (\A c \in conns : t.flip[c] = None) /\ \A c \in Conn \ conns : t.flip[c] = s.flip[c]
      /\ \A c \in Conn : t.crtc[c] = IF c \in conns THEN None ELSE s.crtc[c]
      /\ \A k \in Crtc :
           /\ t.queued[k] = IF k \in Driven(s, conns) THEN FbFor(s, req, k) ELSE s.queued[k]
           /\ t.current[k] = IF k \in Driven(s, conns) THEN None ELSE s.current[k]
  <2>1. IsApplied(s, t, conns, req, None)
    BY <1>1, <1>2, <1>5, Applied
  <2> QED
    BY <1>2, <2>1 DEF IsApplied
<1>8. \A c \in conns : d.crtc[c] \in Crtc /\ d.crtc[c] \in Driven(d, conns) /\ FbFor(d, req, d.crtc[c]) = None
  <2>1. ASSUME NEW c \in conns PROVE FbFor(d, req, d.crtc[c]) = None
    BY <1>2, OwnRequest
  <2> QED
    BY <1>4, <2>1, DrivenTyped
<1>9. \A g \in Flip : t.flips[g] = Stay(d, conns, g) /\ g # None
  BY <1>6, <1>7, RemainUnlisted, Nones
<1>10. \A c \in conns : Unread(t, d.crtc[c]) = Owes(d, d.crtc[c])
  BY <1>5, <1>7, <1>8 DEF Unread
<1> DEFINE fb == [c \in conns |-> None]
<1>11. \A c \in conns : fb[c] = None
  OBVIOUS
<1> HIDE DEF fb
<1>12. \A c \in conns :
         /\ t.hw[d.crtc[c]] = fb[c] /\ t.queued[d.crtc[c]] = fb[c]
         /\ t.inflight[d.crtc[c]] = <<>> /\ Distinct(t.events[d.crtc[c]])
         /\ Unread(t, d.crtc[c]) = Owes(d, d.crtc[c]) \cup ({None} \ {None})
         /\ t.current[d.crtc[c]] = None
  BY <1>5, <1>6, <1>7, <1>8, <1>10, <1>11
<1>13. \A k \in Crtc \ Driven(d, conns) :
         /\ t.hw[k] = d.hw[k] /\ t.queued[k] = d.queued[k] /\ t.current[k] = d.current[k]
         /\ t.inflight[k] = d.inflight[k] /\ t.events[k] = d.events[k]
  BY <1>5, <1>6, <1>7
<1>14. Blocking(d, t, conns, conns, conns, None, fb)
  <2>1. \A c \in Conn : t.crtc[c] = IF c \in conns THEN None ELSE d.crtc[c]
    BY <1>5, <1>7
  <2>2. \A c \in Conn : t.flip[c] = IF c \in conns THEN None ELSE d.flip[c]
    BY <1>5, <1>7
  <2>3. t \in Devs
    BY <1>7
  <2> QED
    BY <1>9, <1>11, <1>12, <1>13, <2>1, <2>2, <2>3 DEF Blocking
<1> QED
  BY <1>5, <1>7, <1>14 DEF fb

LEMMA ForgettingBlocks ==
    ASSUME NEW d, Good(d), NEW conns, conns \subseteq Conn,
           NEW t, t = drm_connector_set_pending_page_flip(d, conns, None)
    PROVE  /\ Blocking(d, t, conns, {}, {}, None, <<>>)
           /\ t.status = d.status /\ t.nocrtc = d.nocrtc
<1>1. d \in Devs
  BY DEF Good
<1>2. IsPended(d, t, conns, None)
  BY <1>1, Pended
<1>3. \A g \in Flip : t.flips[g] = Stay(d, conns, g) /\ g # None
  BY <1>2, RemainUnlisted, Nones DEF IsPended
<1>4. \A c \in Conn : t.flip[c] = IF c \in conns THEN None ELSE d.flip[c]
  BY <1>2 DEF IsPended
<1>5. /\ t \in Devs /\ t.status = d.status /\ t.crtc = d.crtc
      /\ t.queued = d.queued /\ t.current = d.current /\ t.nocrtc = d.nocrtc
      /\ t.hw = d.hw /\ t.inflight = d.inflight /\ t.events = d.events
  BY <1>2 DEF IsPended
<1> QED
  BY <1>3, <1>4, <1>5 DEF Blocking

(* No event of a free page-flip is owed and nobody waits for it. *)
LEMMA FreeFlip ==
    ASSUME NEW d, Good(d), NEW f \in FreeFlips(d)
    PROVE  /\ f \in Flip /\ d.flips[f] = {} /\ f # None
           /\ \A k \in Crtc : f \notin Owes(d, k)
           /\ \A c \in Conn : d.flip[c] # f
<1>1. f \in Flip /\ d.flips[f] = {} /\ f # None
  BY Nones DEF FreeFlips
<1>2. Owing(d) /\ Waits(d)
  BY DEF Good
<1> QED
  BY <1>1, <1>2 DEF Owing, Waits

(* The entries of a new page-flip survive its own commit. *)
LEMMA RemainCreated ==
    ASSUME NEW d, Good(d), NEW conns, conns \subseteq Conn, NEW f \in FreeFlips(d), NEW b,
           b.flip = d.flip, b.flips[f] = Entered(d, conns),
           \A g \in Flip : g # f => b.flips[g] = d.flips[g],
           NEW g \in Flip
    PROVE  Remain(b, conns, g) = IF g = f THEN Entered(d, conns)
                                 ELSE Stay(d, conns, g)
<1>1. CASE g = f
  <2>1. \A e \in b.flips[f] : Forgotten(b, conns, f, e) = e
    BY FreeFlip DEF Forgotten, Entered
  <2>2. {Forgotten(b, conns, f, e) : e \in b.flips[f]} = b.flips[f]
    BY <2>1
  <2> QED
    BY <1>1, <2>2 DEF Remain
<1>2. CASE g # f
  <2>1. Remain(b, conns, g) = Remain(d, conns, g)
    BY <1>2 DEF Remain, Forgotten
  <2> QED
    BY <1>2, <2>1, RemainUnlisted
<1> QED
  BY <1>1, <1>2

(* The record after the commit req of conns with page-flip f. *)
After(d, conns, req, nonblock, f) ==
    drm_connector_apply_commit(
        AtomicShow(drm_page_flip_create(d, f, conns), req, nonblock, f), req, f)

BlocksFor(d, t, conns, req, f) ==
    \E fb : Blocking(d, t, conns, conns, OffIn(req), f, fb) /\ t.status = d.status

LEMMA CommitBlocks ==
    ASSUME NEW d, Good(d), NEW conns, conns \subseteq Conn, \A c \in conns : d.crtc[c] # None,
           NEW req \in [conns -> Request], \A c \in conns : ~req[c].active => req[c].fb = None,
           ~Legacy, NEW f \in FreeFlips(d), NEW t, t = After(d, conns, req, FALSE, f)
    PROVE  BlocksFor(d, t, conns, req, f)
<1> DEFINE p == drm_page_flip_create(d, f, conns)
           ks == Driven(d, conns)
           a == Show(p, req, conns)
           b == Signal(a, ks, f)
<1>1. f \in Flip /\ d.flips[f] = {} /\ f # None /\ (\A k \in Crtc : f \notin Owes(d, k))
  BY FreeFlip
<1>2. d \in Devs /\ Once(d)
  BY DEF Good
<1>3. p = drm_page_flip_create(d, f, conns) /\ a = Show(p, req, conns) /\ b = Signal(a, ks, f)
  OBVIOUS
<1> HIDE DEF p, ks, a, b
<1>4. /\ p \in Devs
      /\ p.status = d.status /\ p.crtc = d.crtc /\ p.flip = d.flip
      /\ p.queued = d.queued /\ p.current = d.current /\ p.nocrtc = d.nocrtc
      /\ p.hw = d.hw /\ p.inflight = d.inflight /\ p.events = d.events
      /\ p.flips[f] = Entered(d, conns)
      /\ \A g \in Flip : g # f => p.flips[g] = d.flips[g]
  <2>1. IsCreated(d, p, conns, f)
    BY <1>1, <1>2, <1>3, Created
  <2> QED
    BY <2>1 DEF IsCreated
<1>5. DOMAIN req = conns /\ Driven(p, conns) = ks /\ \A k \in Crtc : FbFor(p, req, k) = FbFor(d, req, k)
  BY <1>4 DEF Driven, FbFor, ks
<1>6. t = drm_connector_apply_commit(b, req, f)
  BY <1>5 DEF After, AtomicShow, p, a, b
<1>7. ks \subseteq Crtc /\ \A c \in conns : d.crtc[c] \in ks
  BY <1>2, DrivenTyped DEF ks
<1>8. /\ \A k \in Crtc : Owes(p, k) = Owes(d, k)
      /\ Once(p)
  BY <1>2, <1>4 DEF Owes, Unread, Flying, Once
<1>9. /\ a \in Devs
      /\ a.status = p.status /\ a.crtc = p.crtc /\ a.flip = p.flip /\ a.flips = p.flips
      /\ a.queued = p.queued /\ a.current = p.current /\ a.nocrtc = p.nocrtc
      /\ \A k \in Crtc \ Driven(p, conns) :
           a.hw[k] = p.hw[k] /\ a.inflight[k] = p.inflight[k] /\ a.events[k] = p.events[k]
      /\ \A k \in Driven(p, conns) :
           /\ a.inflight[k] = <<>> /\ a.hw[k] = FbFor(p, req, k)
           /\ Unread(a, k) = Owes(p, k) /\ Distinct(a.events[k])
  BY <1>3, <1>4, <1>8, Shown
<1>10. /\ b \in Devs
       /\ b.status = a.status /\ b.crtc = a.crtc /\ b.flip = a.flip /\ b.flips = a.flips
       /\ b.queued = a.queued /\ b.current = a.current /\ b.nocrtc = a.nocrtc
       /\ b.hw = a.hw /\ b.inflight = a.inflight
       /\ \A k \in Crtc \ ks : b.events[k] = a.events[k]
       /\ \A k \in ks : /\ Unread(b, k) = Unread(a, k) \cup {f}
                        /\ Distinct(a.events[k]) /\ f \notin Unread(a, k) => Distinct(b.events[k])
  <2>1. a \in Devs /\ b = Signal(a, ks, f) /\ f \in Flip /\ ks \subseteq Crtc
    BY <1>1, <1>3, <1>7, <1>9
  <2>2. IsSignalled(a, b, ks, f)
    BY <2>1, Signalled
  <2> QED
    BY <2>2 DEF IsSignalled
<1>11. \A c \in conns : b.crtc[c] # None
  BY <1>4, <1>9, <1>10
<1>12. IsApplied(b, t, conns, req, f)
  BY <1>1, <1>6, <1>10, <1>11, Applied
<1>13. /\ Driven(b, conns) = ks /\ Driven(b, OffIn(req)) = Driven(d, OffIn(req))
       /\ \A k \in Crtc : FbFor(b, req, k) = FbFor(d, req, k)
  BY <1>4, <1>9, <1>10 DEF Driven, FbFor, ks
<1>14. \A g \in Flip : t.flips[g] = IF g = f THEN Entered(d, conns)
                                    ELSE Stay(d, conns, g)
  <2>1. b.flip = d.flip /\ b.flips = p.flips
    BY <1>4, <1>9, <1>10
  <2>2. b.flips[f] = Entered(d, conns)
    BY <1>4, <2>1
  <2>3. \A g \in Flip : g # f => b.flips[g] = d.flips[g]
    BY <1>4, <2>1
  <2>4. \A g \in Flip : t.flips[g] = Remain(b, conns, g)
    BY <1>12 DEF IsApplied
  <2>5. \A g \in Flip : Remain(b, conns, g) = IF g = f THEN Entered(d, conns) ELSE Stay(d, conns, g)
    BY <2>1, <2>2, <2>3, RemainCreated
  <2> QED
    BY <2>4, <2>5
<1> DEFINE fb == [c \in conns |-> req[c].fb]
<1>15. \A c \in conns : fb[c] = req[c].fb
  OBVIOUS
<1> HIDE DEF fb
<1>16. ASSUME NEW c \in conns
       PROVE  /\ t.hw[d.crtc[c]] = fb[c] /\ t.queued[d.crtc[c]] = fb[c]
              /\ t.inflight[d.crtc[c]] = <<>> /\ Distinct(t.events[d.crtc[c]])
              /\ Unread(t, d.crtc[c]) = Owes(d, d.crtc[c]) \cup ({f} \ {None})
              /\ c \in OffIn(req) => fb[c] = None /\ t.current[d.crtc[c]] = None
              /\ c \notin OffIn(req) => t.current[d.crtc[c]] = d.current[d.crtc[c]]
  <2> DEFINE k == d.crtc[c]
  <2>1. k \in Crtc /\ k \in ks
    BY <1>7
  <2>2. FbFor(d, req, k) = req[c].fb
    BY OwnRequest
  <2> HIDE DEF k
  <2>3. t.hw[k] = fb[c] /\ t.queued[k] = fb[c] /\ t.inflight[k] = <<>>
    <3>1. b.hw[k] = FbFor(d, req, k) /\ b.inflight[k] = <<>>
      BY <1>5, <1>9, <1>10, <2>1
    <3>2. t.hw = b.hw /\ t.inflight = b.inflight /\ t.queued[k] = FbFor(d, req, k)
      BY <1>12, <1>13, <2>1 DEF IsApplied
    <3> QED
      BY <1>15, <2>2, <3>1, <3>2
  <2>4. Distinct(t.events[k]) /\ Unread(t, k) = Owes(d, k) \cup ({f} \ {None})
    <3>1. Unread(a, k) = Owes(d, k) /\ Distinct(a.events[k])
      BY <1>5, <1>8, <1>9, <2>1
    <3>2. Unread(b, k) = Owes(d, k) \cup {f} /\ Distinct(b.events[k])
      BY <1>1, <1>10, <2>1, <3>1
    <3>3. t.events = b.events /\ {f} \ {None} = {f}
      <4>1. t.events = b.events
        BY <1>12 DEF IsApplied
      <4> QED
        BY <1>1, <4>1
    <3> QED
      BY <3>2, <3>3 DEF Unread
  <2>5. ASSUME c \in OffIn(req) PROVE fb[c] = None /\ t.current[k] = None
    <3>1. k \in Driven(b, OffIn(req))
      BY <1>13, <2>5 DEF Driven, k
    <3>2. \A x \in Crtc : t.current[x] = IF x \in Driven(b, OffIn(req)) THEN None ELSE b.current[x]
      BY <1>12 DEF IsApplied
    <3>3. ~req[c].active
      BY <2>5 DEF OffIn
    <3> QED
      BY <1>15, <2>1, <2>5, <3>1, <3>2, <3>3
  <2>6. ASSUME c \notin OffIn(req) PROVE t.current[k] = d.current[k]
    <3>1. OffIn(req) \subseteq conns
      BY <1>5 DEF OffIn
    <3>2. k \notin Driven(d, OffIn(req))
      BY <2>6, <3>1 DEF Driven, Good, Excl, k
    <3>3. b.current = d.current
      BY <1>4, <1>9, <1>10
    <3> QED
      BY <1>12, <1>13, <2>1, <3>2, <3>3 DEF IsApplied
  <2> QED
    BY <2>3, <2>4, <2>5, <2>6 DEF k
<1>17. ASSUME NEW k \in Crtc \ Driven(d, conns)
       PROVE  /\ t.hw[k] = d.hw[k] /\ t.queued[k] = d.queued[k] /\ t.current[k] = d.current[k]
              /\ t.inflight[k] = d.inflight[k] /\ t.events[k] = d.events[k]
  <2>1. k \in Crtc \ ks /\ k \notin Driven(d, OffIn(req))
    BY <1>5 DEF ks, OffIn, Driven
  <2>2. /\ b.hw[k] = d.hw[k] /\ b.inflight[k] = d.inflight[k] /\ b.events[k] = d.events[k]
        /\ b.queued[k] = d.queued[k] /\ b.current[k] = d.current[k]
    BY <1>4, <1>5, <1>9, <1>10, <2>1
  <2> QED
    BY <1>12, <1>13, <2>1, <2>2 DEF IsApplied
<1>18. /\ OffIn(req) \subseteq conns /\ t \in Devs /\ t.status = d.status /\ t.nocrtc = d.nocrtc
       /\ \A c \in Conn : t.crtc[c] = IF c \in OffIn(req) THEN None ELSE d.crtc[c]
       /\ \A c \in Conn : t.flip[c] = IF c \in conns THEN f ELSE d.flip[c]
  <2>1. OffIn(req) \subseteq conns
    BY <1>5 DEF OffIn
  <2>2. b.status = d.status /\ b.nocrtc = d.nocrtc /\ b.crtc = d.crtc /\ b.flip = d.flip
    BY <1>4, <1>9, <1>10
  <2> QED
    BY <1>12, <2>1, <2>2 DEF IsApplied
<1>19. Blocking(d, t, conns, conns, OffIn(req), f, fb)
  BY <1>1, <1>14, <1>16, <1>17, <1>18 DEF Blocking
<1> QED
  BY <1>18, <1>19 DEF BlocksFor

-----------------------------------------------------------------------------
(***************************************************************************)
(* A page-flip queued for connector c, seen from outside.                  *)
(***************************************************************************)
Flipping(d, t, c, f, fb) ==
    /\ t \in Devs /\ t.status = d.status /\ t.nocrtc = d.nocrtc
    /\ t.hw = d.hw /\ t.events = d.events
    /\ (\A x \in Conn : t.crtc[x] = d.crtc[x]) /\ (\A k \in Crtc : t.current[k] = d.current[k])
    /\ t.flip[c] = f /\ \A x \in Conn : x # c => t.flip[x] = d.flip[x]
    /\ t.flips[f] = {[conn |-> c, crtc |-> d.crtc[c]]}
    /\ \A g \in Flip : g # f => t.flips[g] = d.flips[g]
    /\ t.queued[d.crtc[c]] = fb /\ t.inflight[d.crtc[c]] = <<fb, f>>
    /\ \A k \in Crtc : k # d.crtc[c] => t.queued[k] = d.queued[k] /\ t.inflight[k] = d.inflight[k]

LEMMA FlippingIsGood ==
    ASSUME NEW d, Good(d), NEW c \in Conn, d.crtc[c] # None, d.flip[c] = None,
           d.queued[d.crtc[c]] = None, d.inflight[d.crtc[c]] = <<>>,
           NEW f \in FreeFlips(d), NEW fb \in Buffer, NEW t, Flipping(d, t, c, f, fb)
    PROVE  Good(t)
<1> DEFINE k0 == d.crtc[c]
           e0 == [conn |-> c, crtc |-> k0]
           n0 == <<fb, f>>
<1>1. /\ d \in Devs /\ Excl(d) /\ Owing(d) /\ Single(d) /\ Once(d) /\ Listed(d) /\ Waits(d)
      /\ Moved(d) /\ Newest(d) /\ Clean(d) /\ Plane(d)
  BY DEF Good
<1>2. /\ k0 \in Crtc /\ d.crtc[c] = k0 /\ d.queued[k0] = None /\ d.inflight[k0] = <<>> /\ c # None
      /\ e0.conn = c /\ e0.crtc = k0 /\ n0 # <<>> /\ n0[1] = fb /\ n0[2] = f
  BY <1>1, DevTyped, Nones
<1>3. /\ t \in Devs /\ t.hw = d.hw /\ t.events = d.events
      /\ (\A x \in Conn : t.crtc[x] = d.crtc[x]) /\ (\A k \in Crtc : t.current[k] = d.current[k])
      /\ t.flip[c] = f /\ (\A x \in Conn : x # c => t.flip[x] = d.flip[x])
      /\ t.flips[f] = {e0} /\ (\A g \in Flip : g # f => t.flips[g] = d.flips[g])
      /\ t.queued[k0] = fb /\ t.inflight[k0] = n0
      /\ \A k \in Crtc : k # k0 => t.queued[k] = d.queued[k] /\ t.inflight[k] = d.inflight[k]
  BY DEF Flipping
<1>4. /\ f \in Flip /\ d.flips[f] = {} /\ f # None
      /\ \A k \in Crtc : f \notin Owes(d, k)
      /\ \A x \in Conn : d.flip[x] # f
  BY FreeFlip
<1> HIDE DEF k0, e0, n0
<1>5. /\ \A k \in Crtc : Unread(t, k) = Unread(d, k)
      /\ Flying(t, k0) = {f} /\ Flying(d, k0) = {}
      /\ \A k \in Crtc : k # k0 => Flying(t, k) = Flying(d, k)
  BY <1>2, <1>3 DEF Unread, Flying
<1>6. Once(t)
  BY <1>1, <1>3, <1>4, <1>5 DEF Once, Owes
<1>7. Owing(t)
  <2>1. \A k \in Crtc, g \in Flip : g # f => (g \in Owes(t, k) <=> g \in Owes(d, k))
    BY <1>2, <1>5 DEF Owes
  <2>2. \A k \in Crtc : f \in Owes(t, k) <=> k = k0
    BY <1>2, <1>4, <1>5 DEF Owes
  <2>3. \A k \in Crtc : (\E e \in t.flips[f] : e.crtc = k) <=> k = k0
    BY <1>2, <1>3
  <2>4. \A k \in Crtc : f \in Owes(t, k) <=> \E e \in t.flips[f] : e.crtc = k
    BY <2>2, <2>3
  <2>5. ASSUME NEW k \in Crtc, NEW g \in Flip, g # f
        PROVE  g \in Owes(t, k) <=> \E e \in t.flips[g] : e.crtc = k
    BY <1>1, <1>3, <2>1, <2>5 DEF Owing
  <2> QED
    BY <2>4, <2>5 DEF Owing
<1>8. Single(t)
  BY <1>1, <1>3 DEF Single
<1>9. ASSUME NEW g \in Flip, NEW e \in t.flips[g], e.conn # None
      PROVE  /\ t.flip[e.conn] = g
             /\ t.crtc[e.conn] \in {e.crtc, None} \/ t.queued[t.crtc[e.conn]] = None
  <2>1. CASE g = f
    BY <1>2, <1>3, <2>1
  <2>2. CASE g # f
    <3>1. e \in d.flips[g] /\ e.conn \in Conn /\ d.flip[e.conn] = g
          /\ (d.crtc[e.conn] \in {e.crtc, None} \/ d.queued[d.crtc[e.conn]] = None)
      BY <1>1, <1>3, <1>9, <2>2, EntryTyped DEF Listed, Moved
    <3>2. e.conn # c
      BY <3>1, Nones
    <3>3. d.crtc[e.conn] # None => d.crtc[e.conn] \in Crtc /\ d.crtc[e.conn] # k0
      BY <1>1, <1>2, <3>1, <3>2, DevTyped DEF Excl
    <3> QED
      BY <1>3, <3>1, <3>2, <3>3
  <2> QED
    BY <2>1, <2>2
<1>10. Waits(t)
  <2>1. \A x \in Conn : d.flip[x] \in Flip \cup {None}
    BY <1>1, DevTyped
  <2> QED
    BY <1>1, <1>2, <1>3, <1>4, <2>1 DEF Waits
<1>11. Newest(t)
  <2>1. ASSUME NEW x \in Conn, x # c, d.crtc[x] # None PROVE d.crtc[x] \in Crtc /\ d.crtc[x] # k0
    BY <1>1, <1>2, <2>1, DevTyped DEF Excl
  <2> QED
    BY <1>1, <1>2, <1>3, <2>1 DEF Newest
<1>12. Clean(t)
  BY <1>1, <1>2, <1>3 DEF Clean
<1>13. Plane(t)
  BY <1>1, <1>2, <1>3 DEF Plane
<1>14. Excl(t)
  BY <1>1, <1>3 DEF Excl
<1>15. Listed(t) /\ Moved(t)
  BY <1>9 DEF Listed, Moved
<1> QED
  BY <1>3, <1>6, <1>7, <1>8, <1>10, <1>11, <1>12, <1>13, <1>14, <1>15 DEF Good

LEMMA CommitFlips ==
    ASSUME NEW d, Good(d), NEW c \in Conn, d.crtc[c] # None, d.flip[c] = None,
           NEW req, NEW fb \in Buffer, req = [x \in {c} |-> [active |-> TRUE, fb |-> fb]],
           ~Legacy, NEW f \in FreeFlips(d), NEW t, t = After(d, {c}, req, TRUE, f)
    PROVE  Flipping(d, t, c, f, fb)
<1> DEFINE p == drm_page_flip_create(d, f, {c})
           b == Queue(p, req, {c}, f)
           k0 == d.crtc[c]
<1>1. f \in Flip /\ d.flips[f] = {} /\ f # None
  BY FreeFlip
<1>2. d \in Devs /\ Listed(d) /\ k0 \in Crtc /\ {c} \subseteq Conn /\ \A x \in {c} : d.crtc[x] # None
  BY DevTyped DEF Good
<1>3. /\ DOMAIN req = {c} /\ req \in [{c} -> Request] /\ req[c].fb = fb /\ OffIn(req) = {}
  BY DEF Request, OffIn
<1>4. p = drm_page_flip_create(d, f, {c}) /\ b = Queue(p, req, {c}, f)
  OBVIOUS
<1>5. t = drm_connector_apply_commit(b, req, f)
  BY <1>3 DEF After, AtomicShow
<1> HIDE DEF p, b
<1>6. IsCreated(d, p, {c}, f)
  BY <1>1, <1>2, <1>4, Created
<1>7. FbFor(d, req, k0) = fb
  BY <1>2, <1>3, OwnRequest
<1>8. /\ p \in Devs /\ p.crtc = d.crtc /\ Driven(p, {c}) = {k0} /\ FbFor(p, req, k0) = fb
      /\ \A x \in {c} : p.crtc[x] # None
  BY <1>2, <1>6, <1>7 DEF IsCreated, Driven, FbFor
<1>9. /\ b \in Devs
      /\ b.status = p.status /\ b.crtc = p.crtc /\ b.flip = p.flip /\ b.flips = p.flips
      /\ b.queued = p.queued /\ b.current = p.current /\ b.nocrtc = p.nocrtc
      /\ b.hw = p.hw /\ b.events = p.events
      /\ \A k \in Crtc : b.inflight[k] =
           IF k \in Driven(p, {c}) THEN <<FbFor(p, req, k), f>> ELSE p.inflight[k]
  <2>1. \A k \in Driven(p, {c}) : FbFor(p, req, k) # None
    BY <1>8, Nones
  <2> QED
    <3>1. IsInFlight(p, b, {c}, req, f)
      BY <1>1, <1>2, <1>3, <1>4, <1>8, <2>1, InFlight
    <3> QED
      BY <3>1 DEF IsInFlight
<1>10. IsApplied(b, t, {c}, req, f)
  <2>1. \A x \in {c} : b.crtc[x] # None
    BY <1>8, <1>9
  <2> QED
    BY <1>1, <1>2, <1>3, <1>5, <1>9, <2>1, Applied
<1>11. Driven(b, {c}) = {k0} /\ FbFor(b, req, k0) = fb /\ Driven(b, OffIn(req)) = {}
  BY <1>3, <1>8, <1>9 DEF Driven, FbFor
<1>12. \A g \in Flip : t.flips[g] = IF g = f THEN Entered(d, {c}) ELSE Stay(d, {c}, g)
  <2>1. b.flip = d.flip /\ b.flips[f] = Entered(d, {c}) /\ \A g \in Flip : g # f => b.flips[g] = d.flips[g]
    BY <1>6, <1>9 DEF IsCreated
  <2>2. \A g \in Flip : Remain(b, {c}, g) = IF g = f THEN Entered(d, {c}) ELSE Stay(d, {c}, g)
    BY <1>2, <2>1, RemainCreated
  <2> QED
    BY <1>10, <2>2 DEF IsApplied
<1>13. Entered(d, {c}) = {[conn |-> c, crtc |-> d.crtc[c]]}
  BY DEF Entered
<1>14. ASSUME NEW g \in Flip PROVE Stay(d, {c}, g) = d.flips[g]
  <2>1. \A e \in d.flips[g] : Unlisted({c}, e) = e
    BY <1>2, Nones DEF Listed, Unlisted
  <2> QED
    BY <2>1 DEF Stay
<1>15. /\ t.status = d.status /\ t.nocrtc = d.nocrtc /\ t.hw = d.hw /\ t.events = d.events
       /\ t \in Devs /\ t.flip[c] = f /\ \A x \in Conn : x # c => t.flip[x] = d.flip[x]
  <2>1. b.status = d.status /\ b.nocrtc = d.nocrtc /\ b.hw = d.hw /\ b.events = d.events /\ b.flip = d.flip
    BY <1>6, <1>9 DEF IsCreated
  <2> QED
    BY <1>10, <2>1 DEF IsApplied
<1>16. \A x \in Conn : t.crtc[x] = d.crtc[x]
  <2>1. b.crtc = d.crtc
    BY <1>8, <1>9
  <2>2. \A x \in Conn : t.crtc[x] = IF x \in OffIn(req) THEN None ELSE b.crtc[x]
    BY <1>10 DEF IsApplied
  <2> QED
    BY <1>3, <2>1, <2>2
<1>17. \A k \in Crtc : t.current[k] = d.current[k]
  <2>1. b.current = d.current
    BY <1>6, <1>9 DEF IsCreated
  <2>2. \A k \in Crtc : t.current[k] = IF k \in Driven(b, OffIn(req)) THEN None ELSE b.current[k]
    BY <1>10 DEF IsApplied
  <2> QED
    BY <1>11, <2>1, <2>2
<1>18. \A k \in Crtc : /\ t.queued[k] = IF k = k0 THEN fb ELSE d.queued[k]
                       /\ t.inflight[k] = IF k = k0 THEN <<fb, f>> ELSE d.inflight[k]
  <2>1. t.inflight = b.inflight /\ b.queued = d.queued
    BY <1>6, <1>9, <1>10 DEF IsApplied, IsCreated
  <2>2. \A k \in Crtc : b.inflight[k] = IF k = k0 THEN <<fb, f>> ELSE d.inflight[k]
    BY <1>6, <1>8, <1>9 DEF IsCreated
  <2>3. \A k \in Crtc : t.queued[k] = IF k \in Driven(b, {c}) THEN FbFor(b, req, k) ELSE b.queued[k]
    BY <1>10 DEF IsApplied
  <2>4. \A k \in Crtc : t.queued[k] = IF k = k0 THEN fb ELSE d.queued[k]
    BY <1>11, <2>1, <2>3
  <2> QED
    BY <2>1, <2>2, <2>4
<1>19. t.flips[f] = {[conn |-> c, crtc |-> d.crtc[c]]} /\ \A g \in Flip : g # f => t.flips[g] = d.flips[g]
  BY <1>1, <1>12, <1>13, <1>14
<1>20. /\ t.queued[d.crtc[c]] = fb /\ t.inflight[d.crtc[c]] = <<fb, f>>
       /\ \A k \in Crtc : k # d.crtc[c] => t.queued[k] = d.queued[k] /\ t.inflight[k] = d.inflight[k]
  BY <1>2, <1>18
<1> QED
  BY <1>15, <1>16, <1>17, <1>19, <1>20 DEF Flipping

IsResult(d, conns, req, nonblock, r) ==
    \/ ~r.ok /\ r.d = d
    \/ /\ r.ok /\ \E f \in FreeFlips(d) : r.d = After(d, conns, req, nonblock, f)
       /\ nonblock => \A c \in conns : d.inflight[d.crtc[c]] = <<>>

(* A commit takes effect as a whole or not at all. *)
LEMMA CommitResult ==
    ASSUME NEW d, Good(d), NEW conns, conns \subseteq Conn, \A c \in conns : d.crtc[c] # None,
           NEW req \in [conns -> Request], ~Legacy, NEW modeset, NEW nonblock,
           NEW r \in drm_commit(d, req, modeset, nonblock)
    PROVE  IsResult(d, conns, req, nonblock, r)
<1>1. DOMAIN req = conns /\ d \in Devs
  BY DEF Good
<1>2. PICK f \in FreeFlips(d) :
        \E q \in Commits(drm_page_flip_create(d, f, conns), req, modeset, nonblock, f) :
          r = IF q.ok THEN [ok |-> TRUE, d |-> drm_connector_apply_commit(q.d, req, f)]
              ELSE [ok |-> FALSE, d |-> drm_page_flip_destroy(q.d, f)]
  BY <1>1 DEF drm_commit
<1> DEFINE p == drm_page_flip_create(d, f, conns)
<1>3. PICK q \in Commits(p, req, modeset, nonblock, f) :
        r = IF q.ok THEN [ok |-> TRUE, d |-> drm_connector_apply_commit(q.d, req, f)]
            ELSE [ok |-> FALSE, d |-> drm_page_flip_destroy(q.d, f)]
  BY <1>2
<1>4. drm_page_flip_destroy(p, f) = d
  BY <1>1, Undone
<1>5. p.inflight = d.inflight /\ p.crtc = d.crtc
  <2>1. f \in Flip /\ p = drm_page_flip_create(d, f, conns)
    BY DEF FreeFlips
  <2> HIDE DEF p
  <2>2. IsCreated(d, p, conns, f)
    BY <1>1, <2>1, Created
  <2> QED
    BY <2>2 DEF IsCreated
<1>6. p = drm_page_flip_create(d, f, conns)
  OBVIOUS
<1> HIDE DEF p
<1>7. \/ q = [ok |-> FALSE, d |-> p]
      \/ /\ q = [ok |-> TRUE, d |-> AtomicShow(p, req, nonblock, f)]
         /\ ~(nonblock /\ \E c \in conns : p.inflight[p.crtc[c]] # <<>>)
  <2>1. q \in {[ok |-> FALSE, d |-> p]} \cup
              (IF nonblock /\ \E c \in conns : p.inflight[p.crtc[c]] # <<>> THEN {}
               ELSE {[ok |-> TRUE, d |-> AtomicShow(p, req, nonblock, f)]})
    BY <1>1 DEF Commits
  <2> QED
    BY <2>1
<1>8. CASE q = [ok |-> FALSE, d |-> p]
  <2>1. r = [ok |-> FALSE, d |-> d]
    BY <1>3, <1>4, <1>8
  <2> QED
    BY <2>1 DEF IsResult
<1>9. CASE /\ q = [ok |-> TRUE, d |-> AtomicShow(p, req, nonblock, f)]
           /\ ~(nonblock /\ \E c \in conns : p.inflight[p.crtc[c]] # <<>>)
  <2>1. r = [ok |-> TRUE, d |-> drm_connector_apply_commit(AtomicShow(p, req, nonblock, f), req, f)]
    BY <1>3, <1>9
  <2>2. r.ok /\ r.d = drm_connector_apply_commit(AtomicShow(p, req, nonblock, f), req, f)
    BY <2>1
  <2>3. nonblock => \A c \in conns : d.inflight[d.crtc[c]] = <<>>
    BY <1>5, <1>9
  <2> QED
    BY <1>6, <2>2, <2>3 DEF IsResult, After
<1> QED
  BY <1>7, <1>8, <1>9

-----------------------------------------------------------------------------
(***************************************************************************)
(* CRTC allocation.                                                        *)
(***************************************************************************)

(* Connectors without a CRTC take ones that nobody drives. *)
LEMMA TakingIsGood ==
    ASSUME NEW e, Good(e), NEW r \in [Conn -> Crtc \cup {None}], NEW t, t = [e EXCEPT !.crtc = r],
           \A c \in Conn : \/ r[c] = e.crtc[c]
                           \/ e.crtc[c] = None /\ r[c] \in Crtc /\ \A x \in Conn : e.crtc[x] # r[c],
           \A c, x \in Conn : r[c] = r[x] /\ r[c] # None => c = x
    PROVE  /\ Good(t) /\ t.crtc = r /\ t.status = e.status /\ t.nocrtc = e.nocrtc
           /\ t.flip = e.flip /\ t.flips = e.flips /\ t.queued = e.queued
           /\ \A c \in Conn : r[c] = e.crtc[c] \/ e.queued[r[c]] = None
<1>1. /\ e \in Devs /\ Excl(e) /\ Owing(e) /\ Single(e) /\ Once(e) /\ Listed(e) /\ Waits(e)
      /\ Moved(e) /\ Newest(e) /\ Clean(e) /\ Plane(e)
  BY DEF Good
<1>2. /\ t \in Devs /\ t.crtc = r /\ t.status = e.status /\ t.nocrtc = e.nocrtc
      /\ t.flip = e.flip /\ t.flips = e.flips /\ t.queued = e.queued /\ t.current = e.current
      /\ t.hw = e.hw /\ t.inflight = e.inflight /\ t.events = e.events
  BY <1>1 DEF Devs
<1>3. \A c \in Conn : r[c] = e.crtc[c] \/ (e.queued[r[c]] = None /\ e.inflight[r[c]] = <<>>)
  BY <1>1 DEF Clean
<1>4. Owing(t) /\ Once(t)
  BY <1>1, <1>2 DEF Owing, Once, Owes, Unread, Flying
<1>5. Single(t) /\ Listed(t) /\ Waits(t)
  BY <1>1, <1>2 DEF Single, Listed, Waits
<1>6. Plane(t) /\ Excl(t)
  BY <1>1, <1>2 DEF Plane, Excl
<1>7. Moved(t)
  <2>1. \A f \in Flip : \A x \in e.flips[f] : x.conn # None => x.conn \in Conn
    BY <1>1, EntryTyped
  <2> QED
    BY <1>1, <1>2, <1>3, <2>1 DEF Moved
<1>8. Newest(t)
  BY <1>1, <1>2, <1>3 DEF Newest
<1>9. Clean(t)
  <2>1. ASSUME NEW k \in Crtc, \A c \in Conn : r[c] # k PROVE \A c \in Conn : e.crtc[c] # k
    BY <2>1, Nones
  <2> QED
    BY <1>1, <1>2, <2>1 DEF Clean
<1> QED
  BY <1>2, <1>3, <1>4, <1>5, <1>6, <1>7, <1>8, <1>9 DEF Good

(* What an allocation leaves alone: the CRTCs and page-flips of enabled     *)
(* outputs; and no other connector finds a buffer queued on a new CRTC.     *)
Reassigned(d, t) ==
    /\ Good(t) /\ t.status = d.status /\ t.nocrtc = d.nocrtc
    /\ \A c \in Conn : Connected(d, c) /\ output[c].enabled =>
         /\ t.crtc[c] = d.crtc[c] /\ t.flip[c] = d.flip[c]
         /\ \A g \in Flip : \A e \in d.flips[g] : e.conn = c => e \in t.flips[g]
    /\ \A c \in Conn : \/ t.crtc[c] = None \/ t.queued[t.crtc[c]] = None
                       \/ /\ t.crtc[c] = d.crtc[c] /\ t.flip[c] = d.flip[c]
                          /\ t.queued[t.crtc[c]] = d.queued[d.crtc[c]]

LEMMA ReassignedSelf ==
    ASSUME NEW d, Good(d)
    PROVE  Reassigned(d, d)
BY DEF Reassigned

LEMMA ReassignedAgain ==
    ASSUME NEW d, NEW s, NEW t, Reassigned(d, s), Reassigned(s, t)
    PROVE  Reassigned(d, t)
<1>1. Good(t) /\ t.status = d.status /\ t.nocrtc = d.nocrtc /\ s.status = d.status
  BY DEF Reassigned
<1>2. ASSUME NEW c \in Conn, Connected(d, c), output[c].enabled
      PROVE  /\ t.crtc[c] = d.crtc[c] /\ t.flip[c] = d.flip[c]
             /\ \A g \in Flip : \A e \in d.flips[g] : e.conn = c => e \in t.flips[g]
  <2>1. Connected(s, c)
    BY <1>1, <1>2 DEF Connected
  <2>2. /\ s.crtc[c] = d.crtc[c] /\ s.flip[c] = d.flip[c]
        /\ \A g \in Flip : \A e \in d.flips[g] : e.conn = c => e \in s.flips[g]
    BY <1>2 DEF Reassigned
  <2>3. /\ t.crtc[c] = s.crtc[c] /\ t.flip[c] = s.flip[c]
        /\ \A g \in Flip : \A e \in s.flips[g] : e.conn = c => e \in t.flips[g]
    BY <1>2, <2>1 DEF Reassigned
  <2> QED
    BY <2>2, <2>3
<1>3. \A c \in Conn : \/ t.crtc[c] = None \/ t.queued[t.crtc[c]] = None
                      \/ /\ t.crtc[c] = d.crtc[c] /\ t.flip[c] = d.flip[c]
                         /\ t.queued[t.crtc[c]] = d.queued[d.crtc[c]]
  BY DEF Reassigned
<1> QED
  BY <1>1, <1>2, <1>3 DEF Reassigned

LEMMA Matched ==
    ASSUME NEW m \in [Crtc -> Conn \cup {None}], NEW c
    PROVE  MatchOf(m, c) # None => MatchOf(m, c) \in Crtc /\ m[MatchOf(m, c)] = c
<1>1. CASE \E k \in Crtc : m[k] = c
  BY <1>1 DEF MatchOf
<1>2. CASE ~\E k \in Crtc : m[k] = c
  BY <1>2 DEF MatchOf
<1> QED
  BY <1>1, <1>2

LEMMA TakeCrtcsKeeps ==
    ASSUME NEW d, Good(d), session, ~DisableFails, NEW want \in Conn, d.crtc[want] = None,
           NEW m \in Matches(d, want), NEW t \in TakeCrtcs(d, m),
           \A c \in Conn : Connected(d, c) /\ output[c].enabled => MatchOf(m, c) = d.crtc[c]
    PROVE  Reassigned(d, t)
<1> DEFINE lost == {c \in Conn : MatchOf(m, c) = None}
           lit == {c \in lost : d.crtc[c] # None}
           e == TurnedOff(d, lit)
           r == [c \in Conn |-> IF d.crtc[c] = None /\ MatchOf(m, c) # None THEN MatchOf(m, c)
                                ELSE e.crtc[c]]
<1>1. t = [e EXCEPT !.crtc = r]
  BY DEF TakeCrtcs, dealloc_crtc
<1>2. /\ lit \subseteq Conn /\ \A c \in lit : d.crtc[c] # None
      /\ \A c \in Conn : c \in lit <=> MatchOf(m, c) = None /\ d.crtc[c] # None
  OBVIOUS
<1>3. e = TurnedOff(d, lit)
  OBVIOUS
<1>4. \A c \in Conn : r[c] = IF d.crtc[c] = None /\ MatchOf(m, c) # None THEN MatchOf(m, c) ELSE e.crtc[c]
  OBVIOUS
<1>5. /\ m \in [Crtc -> Conn \cup {None}]
      /\ \A k \in Crtc : m[k] \in {None, Orig(d, k)} \/ (Wants(d, m[k], want) /\ k \in Possible[m[k]])
  BY DEF Matches
<1>6. DOMAIN r = Conn /\ r = [c \in Conn |-> r[c]]
  OBVIOUS
<1> HIDE DEF lost, lit, e, r
<1>7. d \in Devs /\ \A c \in Conn : d.crtc[c] \in Crtc \cup {None}
  BY DevTyped DEF Good
<1>8. /\ Blocking(d, e, lit, lit, lit, None, [c \in lit |-> None])
      /\ e.status = d.status /\ e.nocrtc = d.nocrtc
  BY <1>2, <1>3, TurnedOffBlocks
<1>9. Good(e)
  BY <1>8, BlockingIsGood
<1>10. \A c \in Conn : e.crtc[c] = IF c \in lit THEN None ELSE d.crtc[c]
  BY <1>8 DEF Blocking
<1>11. ASSUME NEW c \in Conn, d.crtc[c] # None, MatchOf(m, c) # None PROVE MatchOf(m, c) = d.crtc[c]
  <2> DEFINE k == MatchOf(m, c)
  <2>1. k \in Crtc /\ m[k] = c /\ c # want /\ c # None
    BY <1>5, <1>11, Matched, Nones
  <2> HIDE DEF k
  <2>2. c = Orig(d, k) \/ Wants(d, c, want)
    BY <1>5, <2>1
  <2>3. CASE c = Orig(d, k)
    <3>1. \E x \in Conn : d.crtc[x] = k
      BY <2>1, <2>3 DEF Orig
    <3>2. PICK x \in Conn : d.crtc[x] = k
      BY <3>1
    <3>3. \A y \in Conn : d.crtc[y] = k => y = x
      BY <2>1, <3>2, Nones DEF Good, Excl
    <3>4. x <= x
      BY DEF Conn
    <3>5. \E z \in Conn : d.crtc[z] = k /\ \A y \in Conn : d.crtc[y] = k => y <= z
      BY <3>2, <3>3, <3>4
    <3>6. d.crtc[Orig(d, k)] = k
      BY <3>1, <3>5 DEF Orig
    <3> QED
      BY <2>3, <3>6 DEF k
  <2>4. CASE Wants(d, c, want)
    BY <1>11, <2>1, <2>4 DEF Wants, k
  <2> QED
    BY <2>2, <2>3, <2>4
<1>12. \A c \in Conn : r[c] = MatchOf(m, c)
  BY <1>2, <1>4, <1>10, <1>11
<1>13. \A c \in Conn : r[c] # None => r[c] \in Crtc /\ m[r[c]] = c
  BY <1>5, <1>12, Matched
<1>14. r \in [Conn -> Crtc \cup {None}]
  BY <1>6, <1>13
<1>15. \A c, x \in Conn : r[c] = r[x] /\ r[c] # None => c = x
  BY <1>13
<1>16. ASSUME NEW c \in Conn
       PROVE  \/ r[c] = e.crtc[c]
              \/ e.crtc[c] = None /\ r[c] \in Crtc /\ \A x \in Conn : e.crtc[x] # r[c]
  <2>1. CASE d.crtc[c] = None /\ MatchOf(m, c) # None
    <3>1. e.crtc[c] = None /\ r[c] \in Crtc /\ r[c] # None
      BY <1>10, <1>12, <1>13, <2>1
    <3>2. ASSUME NEW x \in Conn, e.crtc[x] = r[c] PROVE FALSE
      <4>1. x \notin lit /\ d.crtc[x] = r[c]
        BY <1>10, <3>1, <3>2
      <4>2. r[x] = d.crtc[x]
        BY <1>2, <1>11, <1>12, <3>1, <4>1
      <4>3. x = c
        BY <1>15, <3>1, <4>1, <4>2
      <4> QED
        BY <2>1, <3>1, <4>1, <4>3
    <3> QED
      BY <3>1, <3>2
  <2>2. CASE ~(d.crtc[c] = None /\ MatchOf(m, c) # None)
    BY <1>4, <2>2
  <2> QED
    BY <2>1, <2>2
<1>17. /\ Good(t) /\ t.crtc = r /\ t.status = e.status /\ t.nocrtc = e.nocrtc
       /\ t.flip = e.flip /\ t.flips = e.flips /\ t.queued = e.queued
       /\ \A c \in Conn : r[c] = e.crtc[c] \/ e.queued[r[c]] = None
  BY <1>1, <1>9, <1>14, <1>15, <1>16, TakingIsGood
<1>18. \A c \in Conn \ lit :
         /\ e.flip[c] = d.flip[c] /\ e.crtc[c] = d.crtc[c]
         /\ d.crtc[c] # None => e.queued[d.crtc[c]] = d.queued[d.crtc[c]]
  <2>1. \A c \in Conn \ lit : /\ e.flip[c] = d.flip[c] /\ e.crtc[c] = d.crtc[c]
                              /\ d.crtc[c] # None => d.crtc[c] \in Crtc \ Driven(d, lit)
    BY <1>8, BlockingFacts
  <2>2. \A k \in Crtc \ Driven(d, lit) : e.queued[k] = d.queued[k]
    BY <1>8 DEF Blocking
  <2> QED
    BY <2>1, <2>2
<1>19. ASSUME NEW c \in Conn, Connected(d, c), output[c].enabled
       PROVE  /\ t.crtc[c] = d.crtc[c] /\ t.flip[c] = d.flip[c]
              /\ \A g \in Flip : \A x \in d.flips[g] : x.conn = c => x \in t.flips[g]
  <2>1. MatchOf(m, c) = d.crtc[c]
    BY <1>19
  <2>2. c \notin lit
    BY <1>2, <2>1
  <2>3. \A g \in Flip : \A x \in d.flips[g] : x.conn = c => x \in e.flips[g]
    BY <1>8, <2>2, BlockingFacts, Nones
  <2> QED
    BY <1>12, <1>17, <1>18, <2>1, <2>2, <2>3
<1>20. ASSUME NEW c \in Conn
       PROVE  \/ t.crtc[c] = None \/ t.queued[t.crtc[c]] = None
              \/ /\ t.crtc[c] = d.crtc[c] /\ t.flip[c] = d.flip[c]
                 /\ t.queued[t.crtc[c]] = d.queued[d.crtc[c]]
  <2>1. CASE e.queued[r[c]] = None
    BY <1>17, <2>1
  <2>2. CASE r[c] = e.crtc[c] /\ c \in lit
    BY <1>10, <1>17, <2>2
  <2>3. CASE r[c] = e.crtc[c] /\ c \notin lit
    BY <1>17, <1>18, <2>3
  <2> QED
    BY <1>17, <2>1, <2>2, <2>3
<1> QED
  BY <1>8, <1>17, <1>19, <1>20 DEF Reassigned

LEMMA AllocKeeps ==
    ASSUME NEW d, Good(d), session, ~DisableFails, NEW c \in Conn,
           NEW t \in drm_connector_alloc_crtc(d, c)
    PROVE  Reassigned(d, t) /\ (d.crtc[c] # None => t = d)
<1>1. CASE d.crtc[c] # None
  BY <1>1, ReassignedSelf DEF drm_connector_alloc_crtc
<1>2. CASE d.crtc[c] = None
  <2>1. t \in realloc_crtcs(d, c)
    BY <1>2 DEF drm_connector_alloc_crtc
  <2>2. PICK m \in BestMatches(d, c) :
          t \in IF \E x \in Conn : /\ Connected(d, x) /\ output[x].enabled /\ MatchOf(m, x) # d.crtc[x]
                  THEN {d} ELSE TakeCrtcs(d, m)
    BY <2>1 DEF realloc_crtcs
  <2>3. m \in Matches(d, c)
    BY DEF BestMatches
  <2>4. CASE \E x \in Conn : /\ Connected(d, x) /\ output[x].enabled /\ MatchOf(m, x) # d.crtc[x]
    BY <1>2, <2>2, <2>4, ReassignedSelf
  <2>5. CASE ~\E x \in Conn : /\ Connected(d, x) /\ output[x].enabled /\ MatchOf(m, x) # d.crtc[x]
    <3>1. t \in TakeCrtcs(d, m)
      BY <2>2, <2>5
    <3>2. \A x \in Conn : Connected(d, x) /\ output[x].enabled => MatchOf(m, x) = d.crtc[x]
      BY <2>5
    <3> QED
      BY <1>2, <2>3, <3>1, <3>2, TakeCrtcsKeeps
  <2> QED
    BY <2>4, <2>5
<1> QED
  BY <1>1, <1>2

-----------------------------------------------------------------------------
(***************************************************************************)
(* The allocation for several connectors, one after the other.             *)
(***************************************************************************)
AllocFor(conns, n, X) ==
    UNION {IF r.ok /\ n \in conns
             THEN {[ok |-> e.crtc[n] # None, d |-> e] : e \in drm_connector_alloc_crtc(r.d, n)}
             ELSE {r} : r \in X}

AllocUpto(d, conns, N, h) ==
    [n \in 0..N |-> IF n = 0 THEN {[ok |-> TRUE, d |-> d]} ELSE AllocFor(conns, n, h[n - 1])]

LEMMA Least ==
    ASSUME NEW T, T \subseteq Nat, T # {}
    PROVE  \E x \in T : \A y \in T : x <= y
<1>1. PICK x \in T : \A y \in T : ~(<<y, x>> \in OpToRel(<, Nat))
  <2> DEFINE R == OpToRel(<, Nat)
  <2>1. IsWellFoundedOn(R, Nat)
    BY NatLessThanWellFounded
  <2> HIDE DEF R
  <2>2. \E x \in T : \A y \in T : ~(<<y, x>> \in R)
    BY <2>1, WFMin
  <2> QED
    BY <2>2 DEF R
<1>2. ASSUME NEW y \in T PROVE x <= y
  <2>1. ~(y < x)
    BY <1>1 DEF OpToRel
  <2> QED
    BY <2>1
<1> QED
  BY <1>2

LEMMA AllocAllExists ==
    ASSUME NEW d, NEW conns, NEW N \in Nat
    PROVE  \E h : h = AllocUpto(d, conns, N, h)
<1> DEFINE a == {[ok |-> TRUE, d |-> d]}
           Rec(n) == \E h : h = [i \in 0..n |-> IF i = 0 THEN a ELSE AllocFor(conns, i, h[i - 1])]
           T == {n \in Nat : ~Rec(n)}
<1>1. SUFFICES ASSUME T # {} PROVE FALSE
  <2>1. T = {}
    BY <1>1
  <2>2. Rec(N)
    BY <2>1
  <2> QED
    BY <2>2 DEF AllocUpto
<1>2. PICK n \in T : \A y \in T : n <= y
  <2>1. T \subseteq Nat
    OBVIOUS
  <2> HIDE DEF T
  <2> QED
    BY <1>1, <2>1, Least
<1>3. n \in Nat /\ ~Rec(n) /\ \A y \in Nat : y < n => Rec(y)
  BY <1>2
<1>0. n \in Nat
  BY <1>3
<1> HIDE DEF a, T
<1>4. n # 0
  <2>1. ASSUME n = 0 PROVE Rec(n)
    <3> DEFINE h == [i \in 0..0 |-> a]
    <3>1. h = [i \in 0..0 |-> IF i = 0 THEN a ELSE AllocFor(conns, i, h[i - 1])]
      OBVIOUS
    <3> HIDE DEF h
    <3> QED
      BY <2>1, <3>1
  <2> QED
    BY <1>3, <2>1
<1>5. n - 1 \in Nat /\ n - 1 < n
  BY <1>3, <1>4
<1>6. PICK g : g = [i \in 0..(n - 1) |-> IF i = 0 THEN a ELSE AllocFor(conns, i, g[i - 1])]
  BY <1>3, <1>5
<1> DEFINE h == [i \in 0..n |-> IF i = n THEN AllocFor(conns, n, g[n - 1]) ELSE g[i]]
<1>7. \A i \in 0..n : h[i] = IF i = 0 THEN a ELSE AllocFor(conns, i, h[i - 1])
  <2>1. ASSUME NEW i \in 0..n PROVE h[i] = IF i = 0 THEN a ELSE AllocFor(conns, i, h[i - 1])
    <3>1. CASE i = n
      <4>1. n - 1 \in 0..n /\ n - 1 # n /\ n # 0
        BY <1>0, <1>4
      <4>2. h[n - 1] = g[n - 1] /\ h[n] = AllocFor(conns, n, g[n - 1])
        BY <1>3, <4>1
      <4> QED
        BY <3>1, <4>1, <4>2
    <3>2. CASE i # n
      <4>1. i \in 0..(n - 1)
        BY <1>0, <3>2
      <4>2. h[i] = g[i]
        BY <3>2
      <4>3. g[i] = IF i = 0 THEN a ELSE AllocFor(conns, i, g[i - 1])
        BY <1>6, <4>1
      <4>4. i # 0 => i - 1 \in 0..n /\ i - 1 # n
        BY <1>0, <4>1
      <4>5. i # 0 => h[i - 1] = g[i - 1]
        BY <4>4
      <4> QED
        BY <4>2, <4>3, <4>5
    <3> QED
      BY <3>1, <3>2
  <2> QED
    BY <2>1
<1>8. h = [i \in 0..n |-> h[i]]
  OBVIOUS
<1> HIDE DEF h
<1>9. h = [i \in 0..n |-> IF i = 0 THEN a ELSE AllocFor(conns, i, h[i - 1])]
  BY <1>7, <1>8
<1> QED
  BY <1>3, <1>9

LEMMA AllocAllSteps ==
    ASSUME NEW d, NEW conns
    PROVE  \E u : /\ AllocAll(d, conns) = u[NumConn]
                  /\ u[0] = {[ok |-> TRUE, d |-> d]}
                  /\ \A n \in 1..NumConn : u[n] = AllocFor(conns, n, u[n - 1])
<1> DEFINE u == CHOOSE h : h = AllocUpto(d, conns, NumConn, h)
<1>1. NumConn \in Nat
  BY DrmAssumption
<1>2. \E h : h = AllocUpto(d, conns, NumConn, h)
  BY <1>1, AllocAllExists
<1>3. u = AllocUpto(d, conns, NumConn, u)
  BY <1>2
<1>4. AllocAll(d, conns) = u[NumConn]
  BY DEF AllocAll, AllocFor, AllocUpto
<1> HIDE DEF u
<1>5. /\ u[0] = {[ok |-> TRUE, d |-> d]}
      /\ \A n \in 1..NumConn : u[n] = AllocFor(conns, n, u[n - 1])
  <2>1. 0 \in 0..NumConn /\ \A n \in 1..NumConn : n \in 0..NumConn /\ n # 0
    BY <1>1
  <2> QED
    BY <1>3, <2>1 DEF AllocUpto
<1> QED
  BY <1>4, <1>5

LEMMA AllocAllKeeps ==
    ASSUME NEW d, Good(d), session, ~DisableFails, NEW conns, NEW r \in AllocAll(d, conns)
    PROVE  Reassigned(d, r.d)
<1>1. PICK u : /\ AllocAll(d, conns) = u[NumConn]
               /\ u[0] = {[ok |-> TRUE, d |-> d]}
               /\ \A n \in 1..NumConn : u[n] = AllocFor(conns, n, u[n - 1])
  BY AllocAllSteps
<1> DEFINE P(n) == \A q \in u[n] : Reassigned(d, q.d)
           T == {n \in 0..NumConn : ~P(n)}
<1>2. NumConn \in Nat
  BY DrmAssumption
<1>3. P(0)
  BY <1>1, ReassignedSelf
<1>4. ASSUME NEW n \in 1..NumConn, P(n - 1) PROVE P(n)
  <2>1. SUFFICES ASSUME NEW q \in AllocFor(conns, n, u[n - 1]) PROVE Reassigned(d, q.d)
    BY <1>1
  <2>2. PICK x \in u[n - 1] :
          q \in IF x.ok /\ n \in conns
                  THEN {[ok |-> e.crtc[n] # None, d |-> e] : e \in drm_connector_alloc_crtc(x.d, n)}
                  ELSE {x}
    BY <2>1 DEF AllocFor
  <2>3. Reassigned(d, x.d) /\ Good(x.d)
    BY <1>4 DEF Reassigned
  <2>4. CASE x.ok /\ n \in conns
    <3>1. PICK e \in drm_connector_alloc_crtc(x.d, n) : q = [ok |-> e.crtc[n] # None, d |-> e]
      BY <2>2, <2>4
    <3>2. q.d = e /\ n \in Conn
      BY <3>1 DEF Conn
    <3>3. Reassigned(x.d, e)
      BY <2>3, <3>2, AllocKeeps
    <3> QED
      BY <2>3, <3>2, <3>3, ReassignedAgain
  <2>5. CASE ~(x.ok /\ n \in conns)
    BY <2>2, <2>3, <2>5
  <2> QED
    BY <2>4, <2>5
<1>5. ASSUME NEW n \in 0..NumConn PROVE n = 0 \/ (n \in 1..NumConn /\ n - 1 \in 0..NumConn /\ n - 1 < n)
  BY <1>2
<1>6. T = {}
  <2>1. SUFFICES ASSUME T # {} PROVE FALSE
    OBVIOUS
  <2>2. T \subseteq Nat
    BY <1>2
  <2> HIDE DEF P
  <2>3. PICK n \in T : \A y \in T : n <= y
    <3> HIDE DEF T
    <3> QED
      BY <2>1, <2>2, Least
  <2>4. n \in 0..NumConn /\ ~P(n) /\ n # 0
    BY <1>3
  <2>5. n \in 1..NumConn /\ n - 1 \in 0..NumConn /\ ~(n <= n - 1)
    BY <1>2, <2>4
  <2>6. P(n - 1)
    BY <2>3, <2>5
  <2> QED
    BY <1>4, <2>4, <2>5, <2>6
<1>7. P(NumConn)
  <2>1. NumConn \in 0..NumConn
    BY <1>2
  <2> HIDE DEF P
  <2> QED
    BY <1>6, <2>1
<1> QED
  BY <1>1, <1>7

-----------------------------------------------------------------------------
(***************************************************************************)
(* A page-flip event.  t is the record once the event is read and its      *)
(* connector c, None if it moved on, no longer waits.                      *)
(***************************************************************************)
Reading(d, t, k, f, e) ==
    /\ t \in Devs /\ t.status = d.status /\ t.nocrtc = d.nocrtc
    /\ t.crtc = d.crtc /\ t.queued = d.queued /\ t.current = d.current
    /\ t.hw = d.hw /\ t.inflight = d.inflight
    /\ f \in Flip /\ e \in d.flips[f] /\ e.crtc = k
    /\ f \in Unread(d, k) /\ Unread(t, k) = Unread(d, k) \ {f} /\ Distinct(t.events[k])
    /\ \A j \in Crtc : j # k => t.events[j] = d.events[j]
    /\ t.flips[f] = d.flips[f] \ {e} /\ \A g \in Flip : g # f => t.flips[g] = d.flips[g]
    /\ \A c \in Conn : t.flip[c] = IF c = e.conn THEN None ELSE d.flip[c]

LEMMA ReadingIsGood ==
    ASSUME NEW d, Good(d), NEW t, NEW k \in Crtc, NEW f, NEW e, Reading(d, t, k, f, e)
    PROVE  Good(t)
<1>1. /\ d \in Devs /\ Excl(d) /\ Owing(d) /\ Single(d) /\ Once(d) /\ Listed(d) /\ Waits(d)
      /\ Moved(d) /\ Newest(d) /\ Clean(d) /\ Plane(d)
  BY DEF Good
<1>2. /\ t \in Devs /\ t.crtc = d.crtc /\ t.queued = d.queued /\ t.current = d.current
      /\ t.hw = d.hw /\ t.inflight = d.inflight
      /\ f \in Flip /\ e \in d.flips[f] /\ e.crtc = k
      /\ f \in Unread(d, k) /\ Unread(t, k) = Unread(d, k) \ {f} /\ Distinct(t.events[k])
      /\ (\A j \in Crtc : j # k => t.events[j] = d.events[j])
      /\ t.flips[f] = d.flips[f] \ {e} /\ (\A g \in Flip : g # f => t.flips[g] = d.flips[g])
      /\ \A c \in Conn : t.flip[c] = IF c = e.conn THEN None ELSE d.flip[c]
  BY DEF Reading
<1>3. /\ \A j \in Crtc : j # k => Unread(t, j) = Unread(d, j)
      /\ \A j \in Crtc : Flying(t, j) = Flying(d, j)
  BY <1>2 DEF Unread, Flying
<1>4. Once(t)
  BY <1>1, <1>2, <1>3 DEF Once
<1>5. \A j \in Crtc, g \in Flip : g \in Owes(t, j) <=> g \in Owes(d, j) /\ ~(g = f /\ j = k)
  BY <1>1, <1>2, <1>3 DEF Once, Owes
<1>6. Owing(t)
  <2>1. ASSUME NEW j \in Crtc, NEW g \in Flip
        PROVE (\E x \in t.flips[g] : x.crtc = j) <=> (\E x \in d.flips[g] : x.crtc = j) /\ ~(g = f /\ j = k)
    <3>1. CASE g # f
      BY <1>2, <3>1
    <3>2. CASE g = f
      BY <1>1, <1>2, <3>2 DEF Single
    <3> QED
      BY <3>1, <3>2
  <2> QED
    BY <1>1, <1>5, <2>1 DEF Owing
<1>7. \A g \in Flip : t.flips[g] \subseteq d.flips[g]
  BY <1>2
<1>8. Single(t)
  BY <1>1, <1>7 DEF Single
<1>9. ASSUME NEW g \in Flip, NEW x \in t.flips[g], x.conn # None
      PROVE  x.conn \in Conn /\ x.conn # e.conn /\ t.flip[x.conn] = g
  <2>1. x \in d.flips[g] /\ x.conn \in Conn /\ d.flip[x.conn] = g
    BY <1>1, <1>7, <1>9, EntryTyped DEF Listed
  <2>2. ASSUME x.conn = e.conn PROVE FALSE
    <3>1. g = f
      BY <1>1, <1>2, <1>9, <2>1, <2>2 DEF Listed
    <3>2. x = e
      BY <1>1, <1>2, <1>9, <2>1, <2>2, <3>1 DEF Single
    <3> QED
      BY <1>2, <3>1, <3>2
  <2> QED
    BY <1>2, <2>1, <2>2
<1>10. Listed(t)
  BY <1>9 DEF Listed
<1>11. ASSUME NEW c \in Conn, t.flip[c] # None PROVE \E x \in t.flips[t.flip[c]] : x.conn = c
  <2>1. c # e.conn /\ t.flip[c] = d.flip[c] /\ d.flip[c] \in Flip
    BY <1>1, <1>2, <1>11, DevTyped
  <2>2. PICK x \in d.flips[d.flip[c]] : x.conn = c
    BY <1>1, <1>11, <2>1 DEF Waits
  <2>3. x \in t.flips[d.flip[c]]
    BY <1>2, <2>1, <2>2
  <2> QED
    BY <2>1, <2>2, <2>3
<1>12. Moved(t)
  BY <1>1, <1>2, <1>7 DEF Moved
<1>13. Newest(t)
  BY <1>1, <1>2 DEF Newest
<1>14. Clean(t) /\ Plane(t) /\ Excl(t)
  BY <1>1, <1>2 DEF Clean, Plane, Excl
<1> QED
  BY <1>2, <1>4, <1>6, <1>8, <1>10, <1>11, <1>12, <1>13, <1>14 DEF Good, Waits

IsFlipped(d, t, u, c) ==
    /\ Good(u) /\ u.status = d.status /\ u.nocrtc = d.nocrtc
    /\ u.crtc = d.crtc /\ u.flip = t.flip /\ u.flips = t.flips
    /\ u.queued[d.crtc[c]] = None
    /\ \A j \in Crtc : j # d.crtc[c] => u.queued[j] = d.queued[j]

(* The frame whose event connector c has read is the newest of its CRTC, so  *)
(* that the queued framebuffer is the one on screen.                         *)
LEMMA FlippedIsGood ==
    ASSUME NEW d, Good(d), NEW t, NEW k \in Crtc, NEW f, NEW e, Reading(d, t, k, f, e),
           e.conn # None, d.crtc[e.conn] # None, NEW u, u = Flipped(t, t.crtc[e.conn])
    PROVE  IsFlipped(d, t, u, e.conn)
<1> DEFINE c == e.conn
           j == d.crtc[c]
<1>1. /\ d \in Devs /\ Excl(d) /\ Once(d) /\ Listed(d) /\ Moved(d) /\ Newest(d) /\ Plane(d)
  BY DEF Good
<1>2. /\ t \in Devs /\ Excl(t) /\ Owing(t) /\ Single(t) /\ Once(t) /\ Listed(t) /\ Waits(t)
      /\ Moved(t) /\ Newest(t) /\ Clean(t) /\ Plane(t)
  BY ReadingIsGood DEF Good
<1>3. /\ t.status = d.status /\ t.nocrtc = d.nocrtc
      /\ t.crtc = d.crtc /\ t.queued = d.queued /\ t.current = d.current
      /\ t.hw = d.hw /\ t.inflight = d.inflight
      /\ f \in Flip /\ e \in d.flips[f] /\ e.crtc = k /\ f \in Unread(d, k)
  BY DEF Reading
<1>4. c \in Conn /\ d.flip[c] = f /\ j \in Crtc
  BY <1>1, <1>3, EntryTyped, DevTyped DEF Listed
<1>5. CASE d.queued[j] = None
  <2>1. u = t
    BY <1>3, <1>5 DEF Flipped
  <2> QED
    BY <1>3, <1>5, <2>1, ReadingIsGood DEF IsFlipped
<1>6. CASE d.queued[j] # None
  <2>1. j = k
    BY <1>1, <1>3, <1>4, <1>6, Nones DEF Moved
  <2>2. d.inflight[j] = <<>>
    <3>1. ASSUME d.inflight[j] # <<>> PROVE FALSE
      <4>1. d.inflight[j][2] = f
        BY <1>1, <1>3, <1>4, <3>1, Nones DEF Newest
      <4>2. f \in Flying(d, k)
        BY <2>1, <3>1, <4>1 DEF Flying
      <4> QED
        BY <1>1, <1>3, <4>2 DEF Once
    <3> QED
      BY <3>1
  <2>3. d.hw[j] \in {None, d.queued[j]}
    BY <1>1, <1>4, <1>6, <2>2 DEF Plane
  <2> DEFINE q == [t.queued EXCEPT ![j] = None]
             n == [t.current EXCEPT ![j] = t.queued[j]]
  <2>4. u = [t EXCEPT !.current = n, !.queued = q]
    BY <1>3, <1>6 DEF Flipped
  <2>5. q \in [Crtc -> Buffer \cup {None}] /\ n \in [Crtc -> Buffer \cup {None}]
    BY <1>2, <1>4, DevTyped
  <2>6. /\ q[j] = None /\ n[j] = d.queued[j]
        /\ \A i \in Crtc : i # j => q[i] = d.queued[i] /\ n[i] = d.current[i]
    BY <1>2, <1>3, <1>4, DevTyped
  <2> HIDE DEF q, n, j, c
  <2>7. /\ u \in Devs /\ u.queued = q /\ u.current = n
        /\ u.status = t.status /\ u.nocrtc = t.nocrtc /\ u.crtc = t.crtc /\ u.flip = t.flip
        /\ u.flips = t.flips /\ u.hw = t.hw /\ u.inflight = t.inflight /\ u.events = t.events
    BY <1>2, <2>4, <2>5 DEF Devs
  <2>8. Owing(u) /\ Once(u)
    BY <1>2, <2>7 DEF Owing, Once, Owes, Unread, Flying
  <2>9. Single(u) /\ Listed(u) /\ Waits(u) /\ Newest(u) /\ Excl(u)
    BY <1>2, <2>7 DEF Single, Listed, Waits, Newest, Excl
  <2>10. \A i \in Crtc : q[i] \in {None, t.queued[i]}
    BY <1>3, <2>6
  <2>11. Moved(u)
    <3>1. ASSUME NEW g \in Flip, NEW x \in u.flips[g], x.conn # None
          PROVE  u.crtc[x.conn] \in {x.crtc, None} \/ u.queued[u.crtc[x.conn]] = None
      <4>1. x \in t.flips[g] /\ x.conn \in Conn
        BY <1>2, <2>7, <3>1, EntryTyped
      <4>2. t.crtc[x.conn] \in Crtc \cup {None}
        BY <1>2, <4>1, DevTyped
      <4>3. t.crtc[x.conn] \in {x.crtc, None} \/ t.queued[t.crtc[x.conn]] = None
        BY <1>2, <3>1, <4>1 DEF Moved
      <4> QED
        BY <2>7, <2>10, <4>2, <4>3
    <3> QED
      BY <3>1 DEF Moved
  <2>12. ASSUME NEW i \in Crtc, \A x \in Conn : u.crtc[x] # i
         PROVE  u.queued[i] = None /\ u.current[i] = None /\ u.hw[i] = None /\ u.inflight[i] = <<>>
    <3>1. i # j
      BY <1>3, <1>4, <2>7, <2>12 DEF j
    <3>2. t.queued[i] = None /\ t.current[i] = None /\ t.hw[i] = None /\ t.inflight[i] = <<>>
      BY <1>2, <2>7, <2>12 DEF Clean
    <3> QED
      BY <1>3, <2>6, <2>7, <3>1, <3>2
  <2>13. Plane(u)
    <3>1. ASSUME NEW i \in Crtc
          PROVE  /\ u.hw[i] \in {None, u.queued[i], u.current[i]}
                 /\ u.inflight[i] = <<>> /\ u.queued[i] # None => u.hw[i] \in {None, u.queued[i]}
                 /\ u.inflight[i] # <<>> => u.inflight[i][1] = u.queued[i]
      <4>1. CASE i = j
        BY <1>3, <2>2, <2>3, <2>6, <2>7, <4>1
      <4>2. CASE i # j
        BY <1>1, <1>3, <2>6, <2>7, <4>2 DEF Plane
      <4> QED
        BY <4>1, <4>2
    <3> QED
      BY <3>1 DEF Plane
  <2> QED
    BY <1>3, <2>6, <2>7, <2>8, <2>9, <2>11, <2>12, <2>13 DEF Good, Clean, j, c, IsFlipped
<1> QED
  BY <1>5, <1>6

IsRead(d, t, k, f, conns) == \E e : Reading(d, t, k, f, e) /\ conns = {e.conn} \ {None}

LEMMA EventRead ==
    ASSUME NEW d, Good(d), NEW k \in Crtc, d.events[k] # <<>>, NEW f, f = Head(d.events[k]),
           NEW conns, conns = {e.conn : e \in Entries(d, f, k)} \ {None}, NEW t,
           t = [drm_page_flip_pop(d, f, k) EXCEPT
                  !.events[k] = Tail(@),
                  !.flip = [c \in Conn |-> IF c \in conns THEN None ELSE @[c]]]
    PROVE  IsRead(d, t, k, f, conns)
<1>1. d \in Devs /\ Owing(d) /\ Single(d) /\ Once(d)
  BY DEF Good
<1>2. d.events[k] \in Seq(Flip) /\ Distinct(d.events[k])
  BY <1>1, UnreadTyped DEF Once
<1>3. /\ Tail(d.events[k]) \in Seq(Flip) /\ f \in Flip /\ f \in Unread(d, k)
      /\ SetOf(Tail(d.events[k])) = Unread(d, k) \ {f} /\ Distinct(Tail(d.events[k]))
  BY <1>2, Read DEF Unread
<1>4. PICK e \in d.flips[f] : e.crtc = k
  BY <1>1, <1>3 DEF Owing, Owes
<1>5. Entries(d, f, k) = {e}
  BY <1>1, <1>3, <1>4 DEF Entries, Single
<1>6. conns = {e.conn} \ {None}
  BY <1>5
<1> DEFINE l == [d.flips EXCEPT ![f] = d.flips[f] \ {e}]
           v == [d.events EXCEPT ![k] = Tail(d.events[k])]
           p == [c \in Conn |-> IF c \in conns THEN None ELSE d.flip[c]]
<1>7. t = [d EXCEPT !.flips = l, !.events = v, !.flip = p]
  <2> DEFINE q == [d EXCEPT !.flips = l]
  <2>1. drm_page_flip_pop(d, f, k) = q
    BY <1>5 DEF drm_page_flip_pop
  <2>2. q.events = d.events /\ q.flip = d.flip
    BY <1>1 DEF Devs
  <2> HIDE DEF l, q
  <2>3. t = [q EXCEPT !.events = v, !.flip = p]
    BY <2>1, <2>2
  <2> HIDE DEF v, p
  <2> QED
    BY <1>1, <2>3 DEF Devs, q
<1>8. /\ l \in [Flip -> SUBSET Entry] /\ l[f] = d.flips[f] \ {e}
      /\ \A g \in Flip : g # f => l[g] = d.flips[g]
  BY <1>1, <1>3, DevTyped
<1>9. /\ v \in [Crtc -> Seq(Flip)] /\ v[k] = Tail(d.events[k])
      /\ \A j \in Crtc : j # k => v[j] = d.events[j]
  BY <1>1, <1>3, DevTyped
<1>10. p \in [Conn -> Flip \cup {None}] /\ \A c \in Conn : p[c] = IF c \in conns THEN None ELSE d.flip[c]
  BY <1>1, DevTyped
<1> HIDE DEF l, v, p
<1>11. /\ t \in Devs /\ t.flips = l /\ t.events = v /\ t.flip = p
       /\ t.status = d.status /\ t.nocrtc = d.nocrtc
       /\ t.crtc = d.crtc /\ t.queued = d.queued /\ t.current = d.current
       /\ t.hw = d.hw /\ t.inflight = d.inflight
  BY <1>1, <1>7, <1>8, <1>9, <1>10 DEF Devs
<1>12. \A c \in Conn : t.flip[c] = IF c = e.conn THEN None ELSE d.flip[c]
  BY <1>6, <1>10, <1>11, Nones
<1>13. Unread(t, k) = Unread(d, k) \ {f} /\ Distinct(t.events[k])
  BY <1>3, <1>9, <1>11 DEF Unread
<1>14. Reading(d, t, k, f, e)
  BY <1>3, <1>4, <1>8, <1>9, <1>11, <1>12, <1>13 DEF Reading
<1> QED
  BY <1>6, <1>14 DEF IsRead

LEMMA SameFlips ==
    ASSUME NEW d, NEW t, Single(d), Listed(d), Waits(d), t.flip = d.flip, t.flips = d.flips
    PROVE  Single(t) /\ Listed(t) /\ Waits(t)
BY DEF Single, Listed, Waits

LEMMA LatchIsGood ==
    ASSUME NEW d, Good(d), NEW k \in Crtc, d.inflight[k] # <<>>, NEW t, t = Latch(d, {k})
    PROVE  /\ Good(t) /\ t.status = d.status /\ t.crtc = d.crtc
           /\ t.flip = d.flip /\ t.flips = d.flips /\ t.queued = d.queued
<1>1. /\ d \in Devs /\ Excl(d) /\ Owing(d) /\ Single(d) /\ Once(d) /\ Listed(d) /\ Waits(d)
      /\ Moved(d) /\ Newest(d) /\ Clean(d) /\ Plane(d)
  BY DEF Good
<1>2. {k} \subseteq Crtc
  OBVIOUS
<1>3. /\ t \in Devs
      /\ t.status = d.status /\ t.crtc = d.crtc /\ t.flip = d.flip /\ t.flips = d.flips
      /\ t.queued = d.queued /\ t.current = d.current /\ t.nocrtc = d.nocrtc
      /\ \A j \in Crtc \ {k} : /\ t.hw[j] = d.hw[j] /\ t.inflight[j] = d.inflight[j]
                               /\ t.events[j] = d.events[j]
      /\ t.inflight[k] = <<>> /\ t.hw[k] = d.inflight[k][1]
      /\ Unread(t, k) = Owes(d, k) /\ Flying(t, k) = {} /\ Distinct(t.events[k])
  BY <1>1, <1>2, Latched
<1>4. \A j \in Crtc \ {k} : Unread(t, j) = Unread(d, j) /\ Flying(t, j) = Flying(d, j)
  BY <1>3 DEF Unread, Flying
<1>5. Once(t)
  BY <1>1, <1>3, <1>4 DEF Once
<1>6. \A j \in Crtc : Owes(t, j) = Owes(d, j)
  BY <1>3, <1>4 DEF Owes
<1>7. Owing(t)
  <2>1. t.flips = d.flips
    BY <1>3
  <2> QED
    BY <1>1, <1>6, <2>1 DEF Owing
<1>8. t.flips = d.flips /\ t.flip = d.flip /\ t.crtc = d.crtc /\ t.queued = d.queued /\ t.current = d.current
  BY <1>3
<1>9. Single(t) /\ Listed(t) /\ Waits(t) /\ Moved(t) /\ Excl(t)
  <2>1. Single(t) /\ Listed(t) /\ Waits(t)
    BY <1>1, <1>8, SameFlips
  <2>2. Moved(t)
    BY <1>1, <1>8, SMTT(30) DEF Moved
  <2>3. Excl(t)
    BY <1>1, <1>8 DEF Excl
  <2> QED
    BY <2>1, <2>2, <2>3
<1>10. ASSUME NEW j \in Crtc, t.inflight[j] # <<>> PROVE j # k /\ t.inflight[j] = d.inflight[j]
  BY <1>3, <1>10
<1>11. Newest(t)
  <2>1. ASSUME NEW c \in Conn, t.crtc[c] # None, t.inflight[t.crtc[c]] # <<>>
        PROVE  t.flip[c] \in {None, t.inflight[t.crtc[c]][2]}
    <3>1. t.crtc[c] = d.crtc[c] /\ d.crtc[c] \in Crtc /\ t.flip[c] = d.flip[c]
      BY <1>1, <1>8, <2>1, DevTyped
    <3>2. t.inflight[t.crtc[c]] = d.inflight[d.crtc[c]]
      BY <1>10, <2>1, <3>1
    <3> QED
      BY <1>1, <2>1, <3>1, <3>2 DEF Newest
  <2> QED
    BY <2>1 DEF Newest
<1>12. Clean(t)
  <2>1. ASSUME NEW j \in Crtc, \A c \in Conn : t.crtc[c] # j
        PROVE  j # k /\ d.queued[j] = None /\ d.current[j] = None /\ d.hw[j] = None /\ d.inflight[j] = <<>>
    BY <1>1, <1>8, <2>1 DEF Clean
  <2>2. \A j \in Crtc \ {k} : t.hw[j] = d.hw[j] /\ t.inflight[j] = d.inflight[j]
    BY <1>3
  <2> QED
    BY <1>8, <2>1, <2>2 DEF Clean
<1>13. Plane(t)
  <2>1. ASSUME NEW j \in Crtc
        PROVE  /\ t.hw[j] \in {None, t.queued[j], t.current[j]}
               /\ t.inflight[j] = <<>> /\ t.queued[j] # None => t.hw[j] \in {None, t.queued[j]}
               /\ t.inflight[j] # <<>> => t.inflight[j][1] = t.queued[j]
    <3>1. CASE j = k
      <4>1. t.hw[k] = d.queued[k] /\ t.inflight[k] = <<>>
        BY <1>1, <1>3 DEF Plane
      <4> QED
        BY <1>8, <3>1, <4>1
    <3>2. CASE j # k
      <4>1. t.hw[j] = d.hw[j] /\ t.inflight[j] = d.inflight[j]
        BY <1>3, <3>2
      <4> QED
        BY <1>1, <1>8, <4>1 DEF Plane
    <3> QED
      BY <3>1, <3>2
  <2> QED
    BY <2>1 DEF Plane
<1> QED
  BY <1>3, <1>5, <1>7, <1>9, <1>11, <1>12, <1>13 DEF Good

LEMMA ShadowedIsGood ==
    ASSUME NEW d, Good(d), NEW k \in Crtc, d.inflight[k] = <<>>, NEW t, t = [d EXCEPT !.hw[k] = None]
    PROVE  /\ Good(t) /\ t.status = d.status /\ t.crtc = d.crtc
           /\ t.flip = d.flip /\ t.flips = d.flips /\ t.queued = d.queued
<1>1. /\ d \in Devs /\ Excl(d) /\ Owing(d) /\ Single(d) /\ Once(d) /\ Listed(d) /\ Waits(d)
      /\ Moved(d) /\ Newest(d) /\ Clean(d) /\ Plane(d)
  BY DEF Good
<1> DEFINE h == [d.hw EXCEPT ![k] = None]
<1>2. t = [d EXCEPT !.hw = h]
  OBVIOUS
<1>3. h \in [Crtc -> Buffer \cup {None}] /\ h[k] = None /\ \A j \in Crtc : j # k => h[j] = d.hw[j]
  BY <1>1, DevTyped
<1> HIDE DEF h
<1>4. /\ t \in Devs /\ t.hw = h
      /\ t.status = d.status /\ t.crtc = d.crtc /\ t.flip = d.flip /\ t.flips = d.flips
      /\ t.queued = d.queued /\ t.current = d.current /\ t.nocrtc = d.nocrtc
      /\ t.inflight = d.inflight /\ t.events = d.events
  BY <1>1, <1>2, <1>3 DEF Devs
<1>5. Owing(t) /\ Once(t)
  BY <1>1, <1>4 DEF Owing, Once, Owes, Unread, Flying
<1>6. Single(t) /\ Listed(t) /\ Waits(t) /\ Moved(t) /\ Newest(t) /\ Excl(t)
  BY <1>1, <1>4 DEF Single, Listed, Waits, Moved, Newest, Excl
<1>7. Clean(t) /\ Plane(t)
  BY <1>1, <1>3, <1>4 DEF Clean, Plane
<1> QED
  BY <1>4, <1>5, <1>6, <1>7 DEF Good

(* status and nocrtc matter to none of it. *)
LEMMA RelabelledIsGood ==
    ASSUME NEW d, Good(d), NEW t,
           \/ t = [d EXCEPT !.nocrtc = TRUE]
           \/ \E s \in [Conn -> {"connected", "disconnected"}] : t = [d EXCEPT !.status = s]
    PROVE  /\ Good(t) /\ t.crtc = d.crtc /\ t.flip = d.flip /\ t.flips = d.flips /\ t.queued = d.queued
<1>1. /\ d \in Devs /\ Excl(d) /\ Owing(d) /\ Single(d) /\ Once(d) /\ Listed(d) /\ Waits(d)
      /\ Moved(d) /\ Newest(d) /\ Clean(d) /\ Plane(d)
  BY DEF Good
<1>2. /\ t \in Devs
      /\ t.crtc = d.crtc /\ t.flip = d.flip /\ t.flips = d.flips
      /\ t.queued = d.queued /\ t.current = d.current /\ t.hw = d.hw
      /\ t.inflight = d.inflight /\ t.events = d.events
  BY <1>1 DEF Devs
<1>3. Owing(t) /\ Once(t)
  BY <1>1, <1>2 DEF Owing, Once, Owes, Unread, Flying
<1>4. Single(t) /\ Listed(t) /\ Waits(t) /\ Moved(t) /\ Newest(t) /\ Excl(t)
  BY <1>1, <1>2 DEF Single, Listed, Waits, Moved, Newest, Excl
<1>5. Clean(t) /\ Plane(t)
  BY <1>1, <1>2 DEF Clean, Plane
<1> QED
  BY <1>2, <1>3, <1>4, <1>5 DEF Good

-----------------------------------------------------------------------------
(***************************************************************************)
(* What the output o of connector c expects of the device: an enabled one  *)
(* has a CRTC and, once it awaits a frame event, waits for a page-flip of  *)
(* that CRTC; and one that waits for none, after its first modeset, has    *)
(* nothing queued.                                                         *)
(***************************************************************************)
InFlip(d, c) == d.flip[c] # None /\ [conn |-> c, crtc |-> d.crtc[c]] \in d.flips[d.flip[c]]

Meets(d, c, o) ==
    /\ ~Connected(d, c) => o = NoOutput
    /\ Connected(d, c) =>
         /\ ~o.fresh /\ d.crtc[c] # None /\ d.flip[c] = None => d.queued[d.crtc[c]] = None
         /\ o.enabled => d.crtc[c] # None
         /\ o.enabled /\ o.frame_pending => InFlip(d, c)

(* A commit of the connectors on and off that succeeded or not, by what it  *)
(* makes of dev.                                                            *)
Served(d, t, on, off, ok) ==
    /\ Good(t) /\ t.status = d.status
    /\ ok => (\A c \in on : t.crtc[c] # None /\ InFlip(t, c)) /\ \A c \in off : t.crtc[c] = None
    /\ \A c \in Conn : ~ok \/ c \notin on \cup off => Meets(t, c, output[c])
    /\ \A c \in Conn : (~ok \/ c \notin off) /\ Connected(d, c) /\ output[c].enabled
                         => t.crtc[c] = d.crtc[c]

LEMMA MeetsReassigned ==
    ASSUME NEW d, Good(d), NEW t, Reassigned(d, t), NEW c \in Conn, Meets(d, c, output[c])
    PROVE  Meets(t, c, output[c])
<1>1. t.status = d.status
  BY DEF Reassigned
<1>2. CASE ~Connected(d, c)
  BY <1>1, <1>2 DEF Meets, Connected
<1>3. CASE Connected(d, c)
  <2>1. Connected(t, c)
    BY <1>1, <1>3 DEF Connected
  <2>2. \/ t.crtc[c] = None \/ t.queued[t.crtc[c]] = None
        \/ /\ t.crtc[c] = d.crtc[c] /\ t.flip[c] = d.flip[c]
           /\ t.queued[t.crtc[c]] = d.queued[d.crtc[c]]
    BY DEF Reassigned
  <2>3. /\ ~output[c].fresh /\ d.crtc[c] # None /\ d.flip[c] = None => d.queued[d.crtc[c]] = None
        /\ output[c].enabled => d.crtc[c] # None
        /\ output[c].enabled /\ output[c].frame_pending => InFlip(d, c)
    BY <1>3 DEF Meets
  <2>4. ~output[c].fresh /\ t.crtc[c] # None /\ t.flip[c] = None => t.queued[t.crtc[c]] = None
    BY <2>2, <2>3
  <2>5. ASSUME output[c].enabled
        PROVE  /\ t.crtc[c] = d.crtc[c] /\ t.flip[c] = d.flip[c]
               /\ \A g \in Flip : \A e \in d.flips[g] : e.conn = c => e \in t.flips[g]
    BY <1>3, <2>5 DEF Reassigned
  <2>6. ASSUME output[c].enabled, output[c].frame_pending PROVE InFlip(t, c)
    <3> DEFINE e == [conn |-> c, crtc |-> d.crtc[c]]
    <3>1. d.flip[c] # None /\ e \in d.flips[d.flip[c]] /\ e.conn = c
      BY <2>3, <2>6 DEF InFlip
    <3>2. d.flip[c] \in Flip
      BY <3>1, DevTyped DEF Good
    <3> HIDE DEF e
    <3>3. e \in t.flips[t.flip[c]]
      BY <2>5, <2>6, <3>1, <3>2
    <3> QED
      BY <2>5, <2>6, <3>1, <3>3 DEF InFlip, e
  <2> QED
    BY <2>1, <2>3, <2>4, <2>5, <2>6 DEF Meets
<1> QED
  BY <1>2, <1>3

LEMMA MeetsBlocked ==
    ASSUME NEW d, Good(d), NEW conns, NEW drv, NEW off, NEW f, NEW fb, NEW t,
           Blocking(d, t, conns, drv, off, f, fb), t.status = d.status,
           NEW c \in Conn \ conns, NEW o, Meets(d, c, o)
    PROVE  Meets(t, c, o) /\ t.crtc[c] = d.crtc[c]
<1>1. /\ t.flip[c] = d.flip[c] /\ t.crtc[c] = d.crtc[c]
      /\ d.crtc[c] # None => d.crtc[c] \in Crtc \ Driven(d, drv)
  BY BlockingFacts
<1>2. d.crtc[c] # None => t.queued[d.crtc[c]] = d.queued[d.crtc[c]]
  BY <1>1 DEF Blocking
<1>3. Connected(t, c) <=> Connected(d, c)
  BY DEF Connected
<1>4. ASSUME InFlip(d, c) PROVE InFlip(t, c)
  <2> DEFINE e == [conn |-> c, crtc |-> d.crtc[c]]
  <2>1. d.flip[c] # None /\ e \in d.flips[d.flip[c]] /\ e.conn = c
    BY <1>4 DEF InFlip
  <2>2. d.flip[c] \in Flip
    BY <2>1, DevTyped DEF Good
  <2>3. d.flip[c] # f
    BY <2>1, <2>2, Nones DEF Blocking
  <2> HIDE DEF e
  <2>4. e \in t.flips[d.flip[c]]
    BY <2>1, <2>2, <2>3, BlockingFacts
  <2> QED
    BY <1>1, <2>1, <2>4 DEF InFlip, e
<1> QED
  BY <1>1, <1>2, <1>3, <1>4 DEF Meets

LEMMA InFlipBlocked ==
    ASSUME NEW d, Good(d), NEW conns, NEW drv, NEW off, NEW f \in Flip, NEW fb, NEW t,
           Blocking(d, t, conns, drv, off, f, fb), NEW c \in conns \ off
    PROVE  t.crtc[c] # None /\ t.crtc[c] = d.crtc[c] /\ InFlip(t, c)
<1>1. f # None /\ drv = conns /\ t.flips[f] = Entered(d, conns) /\ conns \subseteq Conn
  BY Nones DEF Blocking
<1>2. t.flip[c] = f /\ t.crtc[c] = d.crtc[c] /\ d.crtc[c] # None
  BY <1>1 DEF Blocking
<1>3. [conn |-> c, crtc |-> d.crtc[c]] \in t.flips[f]
  BY <1>1 DEF Entered
<1> QED
  BY <1>1, <1>2, <1>3 DEF InFlip

LEMMA ServedFailed ==
    ASSUME NEW d, Good(d), \A c \in Conn : Meets(d, c, output[c]), NEW t, Reassigned(d, t), NEW on, NEW off
    PROVE  Served(d, t, on, off, FALSE)
BY MeetsReassigned DEF Served, Reassigned

(* A blocking commit of on and off after the CRTCs were allocated. *)
LEMMA ServedBlocked ==
    ASSUME NEW d, Good(d), \A c \in Conn : Meets(d, c, output[c]), NEW e, Reassigned(d, e),
           NEW on, NEW off, on \cap off = {}, NEW f, on = {} \/ f \in Flip, NEW fb, NEW t,
           Blocking(e, t, on \cup off, on \cup off, off, f, fb), t.status = e.status
    PROVE  Served(d, t, on, off, TRUE)
<1>1. Good(e) /\ e.status = d.status /\ \A c \in Conn : Meets(e, c, output[c])
  BY MeetsReassigned DEF Reassigned
<1>2. Good(t) /\ t.status = d.status
  BY <1>1, BlockingIsGood
<1>3. on \cup off \subseteq Conn
  BY DEF Blocking
<1>4. ASSUME NEW c \in on PROVE t.crtc[c] # None /\ t.crtc[c] = e.crtc[c] /\ InFlip(t, c)
  BY <1>1, InFlipBlocked
<1>5. \A c \in off : t.crtc[c] = None
  BY <1>3 DEF Blocking
<1>6. \A c \in Conn \ (on \cup off) : Meets(t, c, output[c]) /\ t.crtc[c] = e.crtc[c]
  BY <1>1, MeetsBlocked
<1>7. \A c \in Conn : Connected(d, c) /\ output[c].enabled => e.crtc[c] = d.crtc[c]
  BY DEF Reassigned
<1> QED
  BY <1>2, <1>4, <1>5, <1>6, <1>7 DEF Served

LEMMA ServedCommit ==
    ASSUME NEW d, Good(d), \A c \in Conn : Meets(d, c, output[c]), NEW e, Reassigned(d, e),
           NEW on, NEW off, on \cap off = {}, NEW both, both = on \cup off, NEW f \in Flip,
           NEW req, OffIn(req) = off, NEW t, BlocksFor(e, t, both, req, f)
    PROVE  Served(d, t, on, off, TRUE)
<1>1. PICK fb : Blocking(e, t, both, both, OffIn(req), f, fb) /\ t.status = e.status
  BY DEF BlocksFor
<1>2. Blocking(e, t, on \cup off, on \cup off, off, f, fb)
  BY <1>1
<1> QED
  BY <1>1, <1>2, ServedBlocked

LEMMA ServedIff ==
    ASSUME NEW d, NEW t, NEW on, NEW off, NEW p, NEW ok \in BOOLEAN, p <=> ok, Served(d, t, on, off, ok)
    PROVE  Served(d, t, on, off, p)
BY DEF Served

LEMMA FbTyped ==
    ASSUME NEW d \in Devs, NEW k \in Crtc, NEW fb \in Buffer \cup {None}, PrimaryFb(d, k, fb) # None
    PROVE  PrimaryFb(d, k, fb) \in Buffer
<1>1. d.queued[k] \in Buffer \cup {None} /\ d.current[k] \in Buffer \cup {None}
  BY DevTyped
<1> QED
  BY <1>1 DEF PrimaryFb

LEMMA FlippedServed ==
    ASSUME NEW d, Good(d), \A c \in Conn : Meets(d, c, output[c]),
           NEW c \in Conn, d.crtc[c] # None, d.flip[c] = None, d.queued[d.crtc[c]] = None,
           d.inflight[d.crtc[c]] = <<>>,
           NEW f \in FreeFlips(d), NEW fb \in Buffer, NEW t, Flipping(d, t, c, f, fb)
    PROVE  Served(d, t, {c}, {}, TRUE)
<1>1. Good(t) /\ t.status = d.status
  <2>1. Good(t)
    BY FlippingIsGood
  <2>2. t.status = d.status
    BY DEF Flipping
  <2> QED
    BY <2>1, <2>2
<1>2. d \in Devs /\ Excl(d)
  BY DEF Good
<1>3. f # None /\ f \in Flip /\ d.flips[f] = {}
  BY FreeFlip
<1>4. /\ t.flip[c] = f /\ \A x \in Conn : x # c => t.flip[x] = d.flip[x]
      /\ \A x \in Conn : t.crtc[x] = d.crtc[x]
      /\ t.flips[f] = {[conn |-> c, crtc |-> d.crtc[c]]}
      /\ \A g \in Flip : g # f => t.flips[g] = d.flips[g]
      /\ \A k \in Crtc : k # d.crtc[c] => t.queued[k] = d.queued[k]
  BY DEF Flipping
<1>5. t.crtc[c] # None /\ InFlip(t, c)
  <2>1. [conn |-> c, crtc |-> d.crtc[c]] \in t.flips[f]
    BY <1>4
  <2> QED
    BY <1>3, <1>4, <2>1 DEF InFlip
<1>6. ASSUME NEW x \in Conn, x # c PROVE Meets(t, x, output[x])
  <2>1. t.flip[x] = d.flip[x] /\ t.crtc[x] = d.crtc[x] /\ (Connected(t, x) <=> Connected(d, x))
    BY <1>1, <1>4, <1>6 DEF Connected
  <2>2. d.crtc[x] # None => d.crtc[x] \in Crtc /\ d.crtc[x] # d.crtc[c]
    BY <1>2, <1>6, DevTyped DEF Excl
  <2>3. d.crtc[x] # None => t.queued[d.crtc[x]] = d.queued[d.crtc[x]]
    BY <1>4, <2>2
  <2>4. ASSUME InFlip(d, x) PROVE InFlip(t, x)
    <3>1. d.flip[x] \in Flip /\ d.flip[x] # f
      BY <1>2, <1>3, <2>4, DevTyped DEF InFlip
    <3> QED
      BY <1>4, <2>1, <2>4, <3>1 DEF InFlip
  <2>5. Meets(d, x, output[x])
    OBVIOUS
  <2> QED
    BY <2>1, <2>3, <2>4, <2>5 DEF Meets
<1> QED
  BY <1>1, <1>4, <1>5, <1>6 DEF Served

LEMMA CommitOnServed ==
    ASSUME Atomic, session, Good(dev), \A x \in Conn : Meets(dev, x, output[x]),
           NEW c \in Conn, Connected(dev, c), NEW fb \in Buffer \cup {None}, NEW modeset \in BOOLEAN,
           output[c].enabled \/ modeset, output[c].fresh => modeset, modeset => fb # None,
           NEW r \in drm_connector_commit_state(dev, c, fb, modeset)
    PROVE  Served(dev, r.d, {c}, {}, r.ok)
<1> DEFINE nonblock == ~modeset /\ fb # None
<1>1. PICK e \in drm_connector_alloc_crtc(dev, c) :
        r \in IF e.crtc[c] = None THEN Failed(e)
              ELSE IF PrimaryFb(e, e.crtc[c], fb) = None THEN Failed(e)
              ELSE IF nonblock /\ e.flip[c] # None THEN Failed(e)
              ELSE drm_commit(e, [x \in {c} |-> [active |-> TRUE, fb |-> PrimaryFb(e, e.crtc[c], fb)]],
                              modeset, nonblock)
  BY DEF drm_connector_commit_state
<1>2. Reassigned(dev, e) /\ (dev.crtc[c] # None => e = dev)
  BY AllocKeeps DEF Atomic
<1>3. Good(e) /\ e \in Devs
  BY <1>2 DEF Reassigned, Good
<1>4. CASE r \in Failed(e)
  <2>1. ~r.ok /\ r.d = e
    BY <1>4 DEF Failed
  <2>2. Served(dev, e, {c}, {}, FALSE)
    BY <1>2, ServedFailed
  <2> QED
    BY <2>1, <2>2, ServedIff
<1>5. CASE r \notin Failed(e)
  <2> DEFINE k == e.crtc[c]
             b == PrimaryFb(e, k, fb)
             req == [x \in {c} |-> [active |-> TRUE, fb |-> b]]
  <2>1. /\ k # None /\ b # None /\ (nonblock => e.flip[c] = None)
        /\ r \in drm_commit(e, req, modeset, nonblock)
    BY <1>1, <1>5
  <2>2. k \in Crtc
    BY <1>3, <2>1, DevTyped
  <2>3. b \in Buffer
    BY <1>3, <2>1, <2>2, FbTyped
  <2>4. /\ req = [x \in {c} |-> [active |-> TRUE, fb |-> b]] /\ {c} \subseteq Conn
        /\ \A x \in {c} : e.crtc[x] # None
    BY <2>1
  <2> HIDE DEF k, b, req
  <2>5. req \in [{c} -> Request] /\ OffIn(req) = {} /\ \A x \in {c} : req[x].active
    BY <2>3, <2>4 DEF Request, OffIn
  <2> HIDE DEF nonblock
  <2>6. IsResult(e, {c}, req, nonblock, r)
    BY <1>3, <2>1, <2>4, <2>5, CommitResult DEF Atomic
  <2>7. CASE ~r.ok /\ r.d = e
    <3>1. Served(dev, e, {c}, {}, FALSE)
      BY <1>2, ServedFailed
    <3> QED
      BY <2>7, <3>1, ServedIff
  <2>8. CASE r.ok /\ ~(~r.ok /\ r.d = e)
    <3>1. PICK f \in FreeFlips(e) : r.d = After(e, {c}, req, nonblock, f)
      BY <2>6, <2>8 DEF IsResult
    <3>2. f \in Flip
      BY DEF FreeFlips
    <3>3. CASE ~nonblock
      <4>1. nonblock = FALSE
        BY <3>3 DEF nonblock
      <4>2. BlocksFor(e, r.d, {c}, req, f)
        <5>1. ~Legacy /\ {c} \subseteq Conn /\ r.d = After(e, {c}, req, FALSE, f)
          BY <2>4, <3>1, <4>1 DEF Atomic
        <5>2. \A x \in {c} : ~req[x].active => req[x].fb = None
          BY <2>5
        <5>3. \A x \in {c} : e.crtc[x] # None
          BY <2>4
        <5> QED
          BY <1>3, <2>5, <5>1, <5>2, <5>3, CommitBlocks
      <4>3. Served(dev, r.d, {c}, {}, TRUE)
        <5>1. {c} = {c} \cup {} /\ {c} \cap {} = {}
          OBVIOUS
        <5>2. OffIn(req) = {}
          BY <2>5
        <5> QED
          BY <1>2, <3>2, <4>2, <5>1, <5>2, ServedCommit
      <4> QED
        BY <2>8, <4>3, ServedIff
    <3>4. CASE nonblock
      <4>1. nonblock = TRUE /\ ~modeset /\ fb # None
        BY <3>4 DEF nonblock
      <4>2. dev.crtc[c] # None /\ (dev.flip[c] = None => dev.queued[dev.crtc[c]] = None)
        BY <4>1 DEF Meets
      <4>3. e = dev /\ dev.flip[c] = None
        BY <1>2, <2>1, <3>4, <4>2
      <4>4. dev.queued[dev.crtc[c]] = None /\ dev.inflight[dev.crtc[c]] = <<>>
        BY <2>6, <2>8, <3>4, <4>2, <4>3 DEF IsResult
      <4>5. Flipping(dev, r.d, c, f, b)
        BY <2>3, <2>4, <3>1, <4>1, <4>2, <4>3, CommitFlips DEF Atomic
      <4>6. Served(dev, r.d, {c}, {}, TRUE)
        BY <2>3, <4>2, <4>3, <4>4, <4>5, FlippedServed
      <4> QED
        BY <2>8, <4>6, ServedIff
    <3> QED
      BY <3>3, <3>4
  <2> QED
    BY <2>6, <2>7, <2>8 DEF IsResult
<1> QED
  BY <1>4, <1>5

LEMMA TurnOffServed ==
    ASSUME Atomic, session, Good(dev), \A x \in Conn : Meets(dev, x, output[x]),
           NEW c \in Conn, Connected(dev, c), output[c].enabled, NEW r \in TurnOff(dev, c, session)
    PROVE  r.ok /\ Served(dev, r.d, {}, {c}, r.ok)
<1>1. dev.crtc[c] # None
  BY DEF Meets
<1>2. r.ok /\ r.d = TurnedOff(dev, {c})
  BY <1>1 DEF TurnOff, Atomic
<1>3. /\ Blocking(dev, r.d, {c}, {c}, {c}, None, [x \in {c} |-> None])
      /\ r.d.status = dev.status
  <2>1. {c} \subseteq Conn /\ \A x \in {c} : dev.crtc[x] # None
    BY <1>1
  <2> QED
    BY <1>2, <2>1, TurnedOffBlocks
<1>4. Served(dev, r.d, {}, {c}, TRUE)
  <2>1. {} \cup {c} = {c} /\ {} \cap {c} = {}
    OBVIOUS
  <2> QED
    BY <1>3, <2>1, ReassignedSelf, ServedBlocked
<1> QED
  BY <1>2, <1>4, ServedIff

LEMMA DeviceServed ==
    ASSUME Atomic, session, Good(dev), \A x \in Conn : Meets(dev, x, output[x]),
           NEW conns, NEW off, conns \subseteq Conn, off \subseteq Conn, conns \cap off = {},
           NEW on \in [conns -> Buffer], NEW r \in commit_drm_device(on, off)
    PROVE  Served(dev, r.d, conns, off, r.ok)
<1> DEFINE both == conns \cup off
           req == [c \in both |-> IF c \in off THEN [active |-> FALSE, fb |-> None]
                                  ELSE [active |-> TRUE, fb |-> on[c]]]
<1>1. DOMAIN on = conns
  OBVIOUS
<1>2. PICK q \in AllocAll(dev, conns) :
        r \in IF ~q.ok THEN {q}
              ELSE IF \E c \in both : q.d.crtc[c] = None THEN Failed([q.d EXCEPT !.nocrtc = TRUE])
              ELSE drm_commit(q.d, req, TRUE, FALSE)
  BY <1>1 DEF commit_drm_device
<1>3. Reassigned(dev, q.d)
  BY AllocAllKeeps DEF Atomic
<1>4. /\ both \subseteq Conn /\ req \in [both -> Request] /\ OffIn(req) = off
      /\ \A c \in both : ~req[c].active => req[c].fb = None
  BY DEF Request, OffIn
<1> HIDE DEF req
<1>5. Good(q.d) /\ q.d \in Devs
  BY <1>3 DEF Reassigned, Good
<1>6. Served(dev, q.d, conns, off, FALSE)
  BY <1>3, ServedFailed
<1>7. CASE ~q.ok
  <2>1. ~r.ok /\ r.d = q.d
    BY <1>2, <1>7
  <2> QED
    BY <1>6, <2>1, ServedIff
<1>8. CASE q.ok /\ \E c \in both : q.d.crtc[c] = None
  <2> DEFINE t == [q.d EXCEPT !.nocrtc = TRUE]
  <2>1. ~r.ok /\ r.d = t
    <3>1. r \in Failed(t)
      BY <1>2, <1>8
    <3> HIDE DEF t
    <3> QED
      BY <3>1 DEF Failed
  <2>2. t = [q.d EXCEPT !.nocrtc = TRUE] /\ t.status = q.d.status
    BY <1>5 DEF Devs
  <2> HIDE DEF t
  <2>3. Good(t) /\ t.crtc = q.d.crtc /\ t.flip = q.d.flip /\ t.flips = q.d.flips /\ t.queued = q.d.queued
    BY <1>5, <2>2, RelabelledIsGood
  <2>4. \A c \in Conn : Meets(q.d, c, output[c]) => Meets(t, c, output[c])
    BY <2>2, <2>3 DEF Meets, InFlip, Connected
  <2>5. Served(dev, t, conns, off, FALSE)
    BY <1>6, <2>2, <2>3, <2>4 DEF Served
  <2> QED
    BY <2>1, <2>5, ServedIff
<1>9. CASE q.ok /\ ~\E c \in both : q.d.crtc[c] = None
  <2>1. r \in drm_commit(q.d, req, TRUE, FALSE)
    BY <1>2, <1>9
  <2>2. \A c \in both : q.d.crtc[c] # None
    BY <1>9
  <2>3. IsResult(q.d, both, req, FALSE, r)
    BY <1>4, <1>5, <2>1, <2>2, CommitResult DEF Atomic
  <2>4. CASE ~r.ok /\ r.d = q.d
    BY <1>6, <2>4, ServedIff
  <2>5. CASE r.ok /\ ~(~r.ok /\ r.d = q.d)
    <3>1. PICK f \in FreeFlips(q.d) : r.d = After(q.d, both, req, FALSE, f)
      BY <2>3, <2>5 DEF IsResult
    <3>2. f \in Flip
      BY DEF FreeFlips
    <3>3. both = conns \cup off /\ ~Legacy
      BY DEF Atomic
    <3> HIDE DEF both
    <3>4. BlocksFor(q.d, r.d, both, req, f)
      BY <1>4, <1>5, <2>2, <3>1, <3>3, CommitBlocks
    <3>5. Served(dev, r.d, conns, off, TRUE)
      BY <1>3, <1>4, <3>2, <3>3, <3>4, ServedCommit
    <3> QED
      BY <2>5, <3>5, ServedIff
  <2> QED
    BY <2>3, <2>4, <2>5 DEF IsResult
<1> QED
  BY <1>7, <1>8, <1>9

-----------------------------------------------------------------------------
(***************************************************************************)
(* Outputs destroyed: off page-flips, and off their CRTCs when the session *)
(* is active.                                                              *)
(***************************************************************************)
IsDestroyed(d, t, conns, s) ==
    /\ Good(t)
    /\ \A c \in Conn : t.status[c] = IF c \in conns THEN "disconnected" ELSE d.status[c]
    /\ s => \A c \in conns : t.crtc[c] = None
    /\ \A c \in Conn \ conns : Meets(d, c, output[c]) => Meets(t, c, output[c]) /\ t.crtc[c] = d.crtc[c]

LEMMA SameMeets ==
    ASSUME NEW d, NEW t, NEW c, t.status[c] = d.status[c], t.crtc = d.crtc, t.flip = d.flip,
           t.flips = d.flips, t.queued = d.queued, NEW o, Meets(d, c, o)
    PROVE  Meets(t, c, o)
BY DEF Meets, InFlip, Connected

LEMMA Destroyed ==
    ASSUME Atomic, NEW d, Good(d), NEW conns, conns \subseteq Conn, NEW s,
           NEW t \in DestroyOutputs(d, conns, s)
    PROVE  IsDestroyed(d, t, conns, s)
<1> DEFINE lit == {c \in conns : d.crtc[c] # None}
           off == IF s THEN lit ELSE {}
           st(e) == [c \in Conn |-> IF c \in conns THEN "disconnected" ELSE e.status[c]]
<1>1. PICK e \in dealloc_crtc(d, conns, s) :
        t = [drm_connector_set_pending_page_flip(e, conns, None) EXCEPT
               !.status = [c \in Conn |-> IF c \in conns THEN "disconnected" ELSE @[c]]]
  BY DEF DestroyOutputs
<1>2. e = TurnedOff(d, off)
  BY DEF dealloc_crtc, Atomic
<1>3. /\ off \subseteq conns /\ off \subseteq Conn /\ (\A c \in off : d.crtc[c] # None)
      /\ s => \A c \in conns : c \in off \/ d.crtc[c] = None
  OBVIOUS
<1> HIDE DEF off, lit
<1> DEFINE fb == [c \in off |-> None]
<1>4. Blocking(d, e, off, off, off, None, fb) /\ e.status = d.status
  BY <1>2, <1>3, TurnedOffBlocks
<1> HIDE DEF fb
<1>5. Good(e)
  BY <1>4, BlockingIsGood
<1> DEFINE p == drm_connector_set_pending_page_flip(e, conns, None)
<1>6. Blocking(e, p, conns, {}, {}, None, <<>>) /\ p.status = e.status
  BY <1>5, ForgettingBlocks
<1>7. Good(p)
  BY <1>5, <1>6, BlockingIsGood
<1>8. t = [p EXCEPT !.status = st(p)]
  BY <1>1
<1>9. st(p) \in [Conn -> {"connected", "disconnected"}]
  <2>1. p \in Devs
    BY <1>7 DEF Good
  <2>2. \A c \in Conn : p.status[c] \in {"connected", "disconnected"}
    BY <2>1 DEF Devs
  <2> QED
    BY <2>2
<1>10. \A c \in Conn : st(p)[c] = IF c \in conns THEN "disconnected" ELSE d.status[c]
  BY <1>4, <1>6
<1>11. t.status = st(p)
  BY <1>7, <1>8 DEF Good, Devs
<1> HIDE DEF st, p
<1>12. Good(t) /\ t.crtc = p.crtc /\ t.flip = p.flip /\ t.flips = p.flips /\ t.queued = p.queued
  BY <1>7, <1>8, <1>9, RelabelledIsGood
<1>13. ASSUME s, NEW c \in conns PROVE t.crtc[c] = None
  <2>1. p.crtc[c] = e.crtc[c]
    BY <1>6 DEF Blocking
  <2>2. e.crtc[c] = None
    BY <1>3, <1>4, <1>13 DEF Blocking
  <2> QED
    BY <1>12, <2>1, <2>2
<1>14. ASSUME NEW c \in Conn \ conns, Meets(d, c, output[c])
       PROVE  Meets(t, c, output[c]) /\ t.crtc[c] = d.crtc[c]
  <2>1. Meets(e, c, output[c]) /\ e.crtc[c] = d.crtc[c]
    BY <1>3, <1>4, <1>14, MeetsBlocked
  <2>2. Meets(p, c, output[c]) /\ p.crtc[c] = e.crtc[c]
    BY <1>5, <1>6, <2>1, MeetsBlocked
  <2>3. t.status[c] = p.status[c]
    BY <1>4, <1>6, <1>10, <1>11
  <2> QED
    BY <1>12, <2>1, <2>2, <2>3, SameMeets
<1> QED
  BY <1>10, <1>11, <1>12, <1>13, <1>14 DEF IsDestroyed

-----------------------------------------------------------------------------
(***************************************************************************)
(* The inductive invariant.  A paused session has no outputs; a frame      *)
(* event is due to an enabled output, from an idle callback or a page-flip.*)
(***************************************************************************)
Ok(d, out, s, du) ==
    /\ Good(d) /\ out \in [Conn -> Outputs] /\ s \in BOOLEAN /\ du \subseteq Conn
    /\ \A c \in Conn : Meets(d, c, out[c])
    /\ ~s => \A c \in Conn : ~Connected(d, c)
    /\ \A c \in du : out[c].enabled /\ (out[c].idle_frame \/ out[c].frame_pending)

DrmInv == Ok(dev, output, session, due) /\ plugged \subseteq Conn

(* An enabled output that stays one keeps its CRTC. *)
Keeps(d, out, t, o) ==
    \A c \in Conn : Connected(d, c) /\ out[c].enabled /\ Connected(t, c) /\ o[c].enabled
                      => t.crtc[c] = d.crtc[c]

Alike(o, q) ==
    q.enabled = o.enabled /\ q.frame_pending = o.frame_pending /\ q.fresh = o.fresh

LEMMA MeetsAlike ==
    ASSUME NEW d, NEW c, Connected(d, c), NEW o, NEW q, Alike(o, q), Meets(d, c, o)
    PROVE  Meets(d, c, q)
BY DEF Meets, Alike

(* What a commit of on and off makes of the outputs. *)
Committed(on, off, ok, out) ==
    /\ \A c \in on : ok => out[c].enabled /\ out[c].frame_pending
    /\ \A c \in on : ~ok => Alike(output[c], out[c])
    /\ \A c \in off : IF ok THEN ~out[c].enabled ELSE out[c] = output[c]
    /\ \A c \in Conn \ (on \cup off) : out[c] = output[c]

LEMMA CommitKeeps ==
    ASSUME DrmInv, NEW on, NEW off, on \subseteq Conn, off \subseteq Conn, on \cap off = {},
           \A c \in on \cup off : Connected(dev, c),
           NEW t, NEW ok, Served(dev, t, on, off, ok),
           NEW out \in [Conn -> Outputs], Committed(on, off, ok, out),
           NEW du, du \subseteq Conn,
           \A c \in du : out[c].enabled /\ (out[c].idle_frame \/ out[c].frame_pending)
    PROVE  Ok(t, out, session, du) /\ Keeps(dev, output, t, out)
<1>1. /\ Good(t) /\ t.status = dev.status
      /\ ok => (\A c \in on : t.crtc[c] # None /\ InFlip(t, c)) /\ \A c \in off : t.crtc[c] = None
      /\ \A c \in Conn : ~ok \/ c \notin on \cup off => Meets(t, c, output[c])
      /\ \A c \in Conn : (~ok \/ c \notin off) /\ Connected(dev, c) /\ output[c].enabled
                         => t.crtc[c] = dev.crtc[c]
  BY DEF Served
<1>2. \A c \in Conn : Connected(t, c) <=> Connected(dev, c)
  BY <1>1 DEF Connected
<1>3. ASSUME NEW c \in Conn PROVE Meets(t, c, out[c])
  <2>1. CASE ok /\ c \in on
    <3>1. t.crtc[c] # None /\ InFlip(t, c) /\ t.flip[c] # None /\ Connected(t, c)
      BY <1>1, <1>2, <2>1 DEF InFlip
    <3> QED
      BY <3>1 DEF Meets
  <2>2. CASE ok /\ c \in off
    <3>1. t.crtc[c] = None /\ ~out[c].enabled /\ Connected(t, c)
      BY <1>1, <1>2, <2>2 DEF Committed
    <3> QED
      BY <3>1 DEF Meets
  <2>3. CASE ~ok /\ c \in on
    <3>1. Connected(t, c) /\ Alike(output[c], out[c]) /\ Meets(t, c, output[c])
      BY <1>1, <1>2, <2>3 DEF Committed
    <3> QED
      BY <3>1, MeetsAlike
  <2>4. CASE (~ok /\ c \in off) \/ c \notin on \cup off
    <3>1. out[c] = output[c] /\ Meets(t, c, output[c])
      BY <1>1, <2>4 DEF Committed
    <3> QED
      BY <3>1
  <2> QED
    BY <2>1, <2>2, <2>3, <2>4
<1>4. session \in BOOLEAN /\ (~session => \A c \in Conn : ~Connected(dev, c))
  BY DEF DrmInv, Ok
<1>5. Ok(t, out, session, du)
  BY <1>1, <1>2, <1>3, <1>4 DEF Ok
<1>6. Keeps(dev, output, t, out)
  BY <1>1 DEF Keeps, Committed
<1> QED
  BY <1>5, <1>6

LEMMA OutputOn ==
    ASSUME NEW c \in Conn, output[c] \in Outputs, NEW fb, NEW ok, NEW q,
           q = Prepared(IF ok THEN output_apply_commit(c, TRUE) ELSE output[c], fb)
    PROVE  /\ q \in Outputs
           /\ ok => q.enabled /\ q.frame_pending
           /\ ~ok => Alike(output[c], q)
           /\ ~ok /\ fb = None => q = output[c]
<1> DEFINE o == output[c]
           a == [o EXCEPT !.enabled = TRUE, !.frame_pending = TRUE, !.fresh = FALSE]
<1>1. a \in Outputs /\ a.enabled /\ a.frame_pending
  BY DEF Outputs
<1>2. q = Prepared(IF ok THEN a ELSE o, fb) /\ o \in Outputs
  BY DEF output_apply_commit
<1> HIDE DEF a, o
<1>3. ASSUME NEW x \in Outputs
      PROVE  /\ Prepared(x, fb) \in Outputs /\ Alike(x, Prepared(x, fb))
             /\ fb = None => Prepared(x, fb) = x
  BY DEF Prepared, Outputs, Alike
<1>4. CASE ok
  <2>1. q = Prepared(a, fb)
    BY <1>2, <1>4
  <2> QED
    BY <1>1, <1>3, <1>4, <2>1 DEF Alike
<1>5. CASE ~ok
  <2>1. q = Prepared(o, fb)
    BY <1>2, <1>5
  <2> QED
    BY <1>2, <1>3, <1>5, <2>1 DEF o
<1> QED
  BY <1>4, <1>5

LEMMA OutputOff ==
    ASSUME NEW c \in Conn, output[c] \in Outputs
    PROVE  output_apply_commit(c, FALSE) \in Outputs /\ ~output_apply_commit(c, FALSE).enabled
BY DEF output_apply_commit, Outputs

LEMMA CommitOnKeeps ==
    ASSUME Atomic, DrmInv, NEW c \in Conn, NEW fb \in Buffer \cup {None}, NEW modeset \in BOOLEAN,
           CommitOn(c, fb, modeset)
    PROVE  DrmInv' /\ Keeps(dev, output, dev', output')
<1>1. /\ Good(dev) /\ output \in [Conn -> Outputs] /\ session \in BOOLEAN /\ due \subseteq Conn
      /\ \A x \in Conn : Meets(dev, x, output[x])
      /\ ~session => \A x \in Conn : ~Connected(dev, x)
      /\ \A x \in due : output[x].enabled /\ (output[x].idle_frame \/ output[x].frame_pending)
      /\ plugged \subseteq Conn
  BY DEF DrmInv, Ok
<1>2. /\ Connected(dev, c) /\ (output[c].enabled \/ modeset) /\ (output[c].fresh => modeset)
      /\ (modeset => fb # None) /\ plugged' = plugged /\ session' = session
  BY DEF CommitOn
<1> DEFINE q(ok) == Prepared(IF ok THEN output_apply_commit(c, TRUE) ELSE output[c], fb)
<1>3. PICK r \in drm_connector_commit_state(dev, c, fb, modeset) :
        /\ dev' = r.d /\ output' = [output EXCEPT ![c] = q(r.ok)]
        /\ due' = IF r.ok \/ fb = None THEN due ELSE Forgone({c})
  BY DEF CommitOn
<1>4. session
  BY <1>1, <1>2
<1>5. Served(dev, r.d, {c}, {}, r.ok)
  BY <1>1, <1>2, <1>4, CommitOnServed
<1>6. /\ q(r.ok) \in Outputs
      /\ r.ok => q(r.ok).enabled /\ q(r.ok).frame_pending
      /\ ~r.ok => Alike(output[c], q(r.ok))
      /\ ~r.ok /\ fb = None => q(r.ok) = output[c]
  BY <1>1, OutputOn
<1> HIDE DEF q
<1>7. /\ output' \in [Conn -> Outputs] /\ output'[c] = q(r.ok)
      /\ \A x \in Conn : x # c => output'[x] = output[x]
  BY <1>1, <1>3, <1>6
<1>8. Committed({c}, {}, r.ok, output')
  BY <1>6, <1>7 DEF Committed
<1>9. /\ due' \subseteq Conn
      /\ \A x \in due' : output'[x].enabled /\ (output'[x].idle_frame \/ output'[x].frame_pending)
  <2>1. CASE r.ok \/ fb = None
    BY <1>1, <1>3, <1>6, <1>7, <2>1
  <2>2. CASE ~(r.ok \/ fb = None)
    <3>1. due' = Forgone({c})
      BY <1>3, <2>2
    <3>2. \A x \in due' : x \in due /\ (x = c => output[x].frame_pending)
      BY <3>1 DEF Forgone
    <3>3. Alike(output[c], output'[c])
      BY <1>6, <1>7, <2>2
    <3> QED
      BY <1>1, <1>7, <3>2, <3>3 DEF Alike
  <2> QED
    BY <2>1, <2>2
<1>10. Ok(r.d, output', session, due') /\ Keeps(dev, output, r.d, output')
  <2>1. {c} \subseteq Conn /\ {} \subseteq Conn /\ {c} \cap {} = {} /\ \A x \in {c} \cup {} : Connected(dev, x)
    BY <1>2
  <2> QED
    BY <1>5, <1>7, <1>8, <1>9, <2>1, CommitKeeps
<1> QED
  BY <1>1, <1>2, <1>3, <1>10 DEF DrmInv

LEMMA CommitOffKeeps ==
    ASSUME Atomic, DrmInv, NEW c \in Conn, CommitOff(c)
    PROVE  DrmInv' /\ Keeps(dev, output, dev', output')
<1>1. /\ Good(dev) /\ output \in [Conn -> Outputs] /\ session \in BOOLEAN /\ due \subseteq Conn
      /\ \A x \in Conn : Meets(dev, x, output[x])
      /\ ~session => \A x \in Conn : ~Connected(dev, x)
      /\ \A x \in due : output[x].enabled /\ (output[x].idle_frame \/ output[x].frame_pending)
      /\ plugged \subseteq Conn
  BY DEF DrmInv, Ok
<1>2. Connected(dev, c) /\ output[c].enabled /\ plugged' = plugged /\ session' = session
  BY DEF CommitOff
<1>3. PICK r \in TurnOff(dev, c, session) :
        /\ dev' = r.d
        /\ output' = IF r.ok THEN [output EXCEPT ![c] = output_apply_commit(c, FALSE)] ELSE output
        /\ due' = IF r.ok THEN due \ {c} ELSE due
  BY DEF CommitOff
<1>4. session
  BY <1>1, <1>2
<1>5. r.ok /\ Served(dev, r.d, {}, {c}, r.ok)
  BY <1>1, <1>2, <1>4, TurnOffServed
<1>6. output_apply_commit(c, FALSE) \in Outputs /\ ~output_apply_commit(c, FALSE).enabled
  BY <1>1, OutputOff
<1>7. /\ output' \in [Conn -> Outputs] /\ ~output'[c].enabled
      /\ \A x \in Conn : x # c => output'[x] = output[x]
  BY <1>1, <1>3, <1>5, <1>6
<1>8. Committed({}, {c}, r.ok, output')
  BY <1>5, <1>7 DEF Committed
<1>9. /\ due' \subseteq Conn
      /\ \A x \in due' : output'[x].enabled /\ (output'[x].idle_frame \/ output'[x].frame_pending)
  BY <1>1, <1>3, <1>5, <1>7
<1>10. Ok(r.d, output', session, due') /\ Keeps(dev, output, r.d, output')
  <2>1. {c} \subseteq Conn /\ {} \subseteq Conn /\ {} \cap {c} = {} /\ \A x \in {} \cup {c} : Connected(dev, x)
    BY <1>2
  <2> QED
    BY <1>5, <1>7, <1>8, <1>9, <2>1, CommitKeeps
<1> QED
  BY <1>1, <1>2, <1>3, <1>10 DEF DrmInv

LEMMA CommitDeviceKeeps ==
    ASSUME Atomic, DrmInv, NEW off, off \subseteq Conn, NEW conns, conns \subseteq Conn \ off,
           NEW on \in [conns -> Buffer], CommitDevice(on, off)
    PROVE  DrmInv' /\ Keeps(dev, output, dev', output')
<1>1. /\ Good(dev) /\ output \in [Conn -> Outputs] /\ session \in BOOLEAN /\ due \subseteq Conn
      /\ \A x \in Conn : Meets(dev, x, output[x])
      /\ ~session => \A x \in Conn : ~Connected(dev, x)
      /\ \A x \in due : output[x].enabled /\ (output[x].idle_frame \/ output[x].frame_pending)
      /\ plugged \subseteq Conn
  BY DEF DrmInv, Ok
<1>2. DOMAIN on = conns
  OBVIOUS
<1> DEFINE q(c, ok) == Prepared(IF ok THEN output_apply_commit(c, TRUE) ELSE output[c], on[c])
<1>3. PICK r \in commit_drm_device(on, off) :
        /\ dev' = r.d
        /\ output' = [c \in Conn |-> IF c \in conns THEN q(c, r.ok)
                                     ELSE IF c \in off /\ r.ok THEN output_apply_commit(c, FALSE)
                                     ELSE output[c]]
        /\ due' = IF r.ok THEN due \ off ELSE Forgone(conns)
  BY <1>2 DEF CommitDevice
<1>4. /\ session /\ plugged' = plugged /\ session' = session
      /\ \A c \in conns \cup off : Connected(dev, c)
  BY <1>2 DEF CommitDevice
<1>5. Served(dev, r.d, conns, off, r.ok)
  <2>1. conns \subseteq Conn /\ conns \cap off = {}
    OBVIOUS
  <2> QED
    BY <1>1, <1>4, <2>1, DeviceServed
<1>6. ASSUME NEW c \in conns
      PROVE  /\ q(c, r.ok) \in Outputs
             /\ r.ok => q(c, r.ok).enabled /\ q(c, r.ok).frame_pending
             /\ ~r.ok => Alike(output[c], q(c, r.ok))
  BY <1>1, OutputOn
<1> HIDE DEF q
<1>7. ASSUME NEW c \in off
      PROVE  output_apply_commit(c, FALSE) \in Outputs /\ ~output_apply_commit(c, FALSE).enabled
  BY <1>1, OutputOff
<1>8. /\ \A c \in conns : output'[c] = q(c, r.ok)
      /\ \A c \in off : output'[c] = IF r.ok THEN output_apply_commit(c, FALSE) ELSE output[c]
      /\ \A c \in Conn \ (conns \cup off) : output'[c] = output[c]
  BY <1>3
<1>9. output' \in [Conn -> Outputs]
  BY <1>1, <1>3, <1>6, <1>7
<1>10. Committed(conns, off, r.ok, output')
  BY <1>6, <1>7, <1>8 DEF Committed
<1>11. /\ due' \subseteq Conn
       /\ \A x \in due' : output'[x].enabled /\ (output'[x].idle_frame \/ output'[x].frame_pending)
  <2>1. CASE r.ok
    <3>1. due' = due \ off
      BY <1>3, <2>1
    <3> QED
      BY <1>1, <2>1, <3>1, <1>10 DEF Committed
  <2>2. CASE ~r.ok
    <3>1. due' = Forgone(conns)
      BY <1>3, <2>2
    <3>2. \A x \in due' : x \in due /\ (x \in conns => output[x].frame_pending)
      BY <3>1 DEF Forgone
    <3> QED
      BY <1>1, <2>2, <3>2, <1>10 DEF Committed, Alike
  <2> QED
    BY <2>1, <2>2
<1>12. Ok(r.d, output', session, due') /\ Keeps(dev, output, r.d, output')
  <2>1. conns \subseteq Conn /\ conns \cap off = {}
    OBVIOUS
  <2> QED
    BY <1>4, <1>5, <1>9, <1>10, <1>11, <2>1, CommitKeeps
<1> QED
  BY <1>1, <1>3, <1>4, <1>12 DEF DrmInv

LEMMA DeviceKeeps ==
    ASSUME DrmInv, NEW t, dev' = t, UNCHANGED <<output, plugged, session, due>>,
           Good(t), t.status = dev.status, \A c \in Conn : Meets(t, c, output[c]),
           \A c \in Conn : Connected(dev, c) /\ output[c].enabled => t.crtc[c] = dev.crtc[c]
    PROVE  DrmInv' /\ Keeps(dev, output, dev', output')
<1>1. Ok(dev, output, session, due) /\ plugged \subseteq Conn
  BY DEF DrmInv
<1>2. \A c \in Conn : Connected(t, c) <=> Connected(dev, c)
  BY DEF Connected
<1>3. Ok(t, output, session, due)
  BY <1>1, <1>2 DEF Ok
<1>4. Keeps(dev, output, t, output)
  BY DEF Keeps
<1> QED
  BY <1>1, <1>3, <1>4 DEF DrmInv

LEMMA TestKeeps ==
    ASSUME Atomic, DrmInv, NEW c \in Conn, TestOn(c)
    PROVE  DrmInv' /\ Keeps(dev, output, dev', output')
<1>1. Good(dev) /\ \A x \in Conn : Meets(dev, x, output[x])
  BY DEF DrmInv, Ok
<1>2. PICK t \in drm_connector_alloc_crtc(dev, c) : dev' = t
  BY DEF TestOn
<1>3. session /\ UNCHANGED <<output, plugged, session, due>>
  BY DEF TestOn
<1>4. Reassigned(dev, t)
  BY <1>1, <1>3, AllocKeeps DEF Atomic
<1>5. \A x \in Conn : Meets(t, x, output[x])
  BY <1>1, <1>4, MeetsReassigned
<1>6. /\ Good(t) /\ t.status = dev.status
      /\ \A x \in Conn : Connected(dev, x) /\ output[x].enabled => t.crtc[x] = dev.crtc[x]
  BY <1>4 DEF Reassigned
<1> QED
  BY <1>2, <1>3, <1>5, <1>6, DeviceKeeps

LEMMA KernelKeeps ==
    ASSUME DrmInv, NEW k \in Crtc, VBlank(k) \/ OtherSession(k)
    PROVE  DrmInv' /\ Keeps(dev, output, dev', output')
<1>1. Good(dev) /\ \A x \in Conn : Meets(dev, x, output[x])
  BY DEF DrmInv, Ok
<1> DEFINE t == dev'
<1>2. /\ Good(t) /\ t.status = dev.status /\ t.crtc = dev.crtc
      /\ t.flip = dev.flip /\ t.flips = dev.flips /\ t.queued = dev.queued
  <2>1. CASE VBlank(k)
    BY <1>1, <2>1, LatchIsGood DEF VBlank
  <2>2. CASE OtherSession(k)
    BY <1>1, <2>2, ShadowedIsGood DEF OtherSession
  <2> QED
    BY <2>1, <2>2
<1>3. UNCHANGED <<output, plugged, session, due>>
  BY DEF VBlank, OtherSession
<1>4. t = dev'
  OBVIOUS
<1> HIDE DEF t
<1>5. \A x \in Conn : Meets(t, x, output[x])
  BY <1>1, <1>2, SameMeets
<1> QED
  BY <1>2, <1>3, <1>4, <1>5, DeviceKeeps

(* The connectors an event is not for notice nothing. *)
LEMMA MeetsRead ==
    ASSUME NEW d, Good(d), NEW t, NEW k, NEW f, NEW e, Reading(d, t, k, f, e),
           NEW u, u.status = d.status, u.crtc = d.crtc, u.flip = t.flip, u.flips = t.flips,
           NEW c \in Conn, c # e.conn, d.crtc[c] # None => u.queued[d.crtc[c]] = d.queued[d.crtc[c]],
           NEW o, Meets(d, c, o)
    PROVE  Meets(u, c, o)
<1>1. u.flip[c] = d.flip[c] /\ (Connected(u, c) <=> Connected(d, c))
  BY DEF Reading, Connected
<1>2. ASSUME InFlip(d, c) PROVE InFlip(u, c)
  <2> DEFINE x == [conn |-> c, crtc |-> d.crtc[c]]
  <2>1. d.flip[c] # None /\ x \in d.flips[d.flip[c]] /\ x.conn = c
    BY <1>2 DEF InFlip
  <2>2. d.flip[c] \in Flip
    BY <2>1, DevTyped DEF Good
  <2> HIDE DEF x
  <2>3. x \in u.flips[d.flip[c]]
    BY <2>1, <2>2 DEF Reading
  <2> QED
    BY <1>1, <2>1, <2>3 DEF InFlip, x
<1> QED
  BY <1>1, <1>2 DEF Meets

LEMMA PageFlipKeeps ==
    ASSUME DrmInv, NEW k \in Crtc, handle_page_flip(k)
    PROVE  DrmInv' /\ Keeps(dev, output, dev', output')
<1>1. /\ Good(dev) /\ output \in [Conn -> Outputs] /\ session \in BOOLEAN /\ due \subseteq Conn
      /\ \A x \in Conn : Meets(dev, x, output[x])
      /\ ~session => \A x \in Conn : ~Connected(dev, x)
      /\ \A x \in due : output[x].enabled /\ (output[x].idle_frame \/ output[x].frame_pending)
      /\ plugged \subseteq Conn
  BY DEF DrmInv, Ok
<1> DEFINE f == Head(dev.events[k])
           conns == {e.conn : e \in Entries(dev, f, k)} \ {None}
           t == [drm_page_flip_pop(dev, f, k) EXCEPT
                   !.events[k] = Tail(@),
                   !.flip = [c \in Conn |-> IF c \in conns THEN None ELSE @[c]]]
           shown == {c \in conns : Connected(dev, c) /\ dev.crtc[c] # None}
<1>2. /\ dev.events[k] # <<>>
      /\ IF shown = {} THEN dev' = t /\ UNCHANGED <<output, due>>
         ELSE \E c \in shown : /\ dev' = Flipped(t, t.crtc[c])
                               /\ IF session THEN SendFrame(c) ELSE UNCHANGED <<output, due>>
      /\ UNCHANGED <<plugged, session>>
  BY DEF handle_page_flip
<1>3. shown = {c \in conns : Connected(dev, c) /\ dev.crtc[c] # None}
  OBVIOUS
<1> HIDE DEF t, shown
<1>4. PICK e : Reading(dev, t, k, f, e) /\ conns = {e.conn} \ {None}
  <2>1. t = [drm_page_flip_pop(dev, f, k) EXCEPT
               !.events[k] = Tail(@),
               !.flip = [c \in Conn |-> IF c \in conns THEN None ELSE @[c]]]
    BY DEF t
  <2>2. f = Head(dev.events[k]) /\ conns = {e.conn : e \in Entries(dev, f, k)} \ {None}
    OBVIOUS
  <2>3. dev.events[k] # <<>>
    BY <1>2
  <2> HIDE DEF f, conns
  <2>4. IsRead(dev, t, k, f, conns)
    BY <1>1, <2>1, <2>2, <2>3, EventRead
  <2> QED
    BY <2>4 DEF IsRead
<1> HIDE DEF f, conns
<1>5. /\ t.status = dev.status /\ t.crtc = dev.crtc /\ t.queued = dev.queued
      /\ e \in dev.flips[f] /\ f \in Flip
  BY <1>4 DEF Reading
<1>6. CASE shown = {}
  <2>1. dev' = t /\ UNCHANGED <<output, plugged, session, due>>
    BY <1>2, <1>6
  <2>2. Good(t)
    BY <1>1, <1>4, ReadingIsGood
  <2>3. ASSUME NEW c \in Conn PROVE Meets(t, c, output[c])
    <3>1. CASE c # e.conn
      BY <1>1, <1>4, <1>5, <3>1, MeetsRead
    <3>2. CASE c = e.conn
      <4>1. ~Connected(dev, c) \/ dev.crtc[c] = None
        BY <1>3, <1>4, <1>6, <3>2, Nones
      <4>2. Meets(dev, c, output[c]) /\ (Connected(t, c) <=> Connected(dev, c)) /\ t.crtc[c] = dev.crtc[c]
        BY <1>1, <1>5 DEF Connected
      <4> QED
        BY <4>1, <4>2 DEF Meets
    <3> QED
      BY <3>1, <3>2
  <2> QED
    BY <1>5, <2>1, <2>2, <2>3, DeviceKeeps
<1>7. CASE shown # {}
  <2>1. PICK c \in shown : /\ dev' = Flipped(t, t.crtc[c])
                           /\ IF session THEN SendFrame(c) ELSE UNCHANGED <<output, due>>
    BY <1>2, <1>7
  <2>2. c = e.conn /\ c # None /\ Connected(dev, c) /\ dev.crtc[c] # None
    BY <1>3, <1>4, <2>1
  <2>3. c \in Conn
    <3>1. dev \in Devs
      BY <1>1 DEF Good
    <3> QED
      BY <1>5, <2>2, <3>1, EntryTyped
  <2>4. session
    BY <1>1, <2>2, <2>3
  <2> DEFINE u == dev'
  <2>5. /\ Good(u) /\ u.status = dev.status
        /\ u.crtc = dev.crtc /\ u.flip = t.flip /\ u.flips = t.flips
        /\ u.queued[dev.crtc[c]] = None
        /\ \A j \in Crtc : j # dev.crtc[c] => u.queued[j] = dev.queued[j]
    <3>1. Flipped(t, t.crtc[e.conn]) = u /\ e.conn # None /\ dev.crtc[e.conn] # None
      BY <2>1, <2>2
    <3> HIDE DEF u
    <3>2. IsFlipped(dev, t, u, e.conn)
      BY <1>1, <1>4, <3>1, FlippedIsGood
    <3> QED
      BY <2>2, <3>2 DEF IsFlipped
  <2>6. u = dev'
    OBVIOUS
  <2> HIDE DEF u
  <2>7. /\ output' = [output EXCEPT ![c].frame_pending = FALSE]
        /\ due' = IF output[c].enabled THEN due \ {c} ELSE due
    BY <2>1, <2>4 DEF SendFrame
  <2> DEFINE o == [output[c] EXCEPT !.frame_pending = FALSE]
  <2>8. /\ o \in Outputs /\ ~o.frame_pending
        /\ o.enabled = output[c].enabled /\ o.fresh = output[c].fresh
    BY <1>1, <2>3 DEF Outputs
  <2>9. output' = [output EXCEPT ![c] = o]
    BY <1>1, <2>3, <2>7
  <2> HIDE DEF o
  <2>10. /\ output' \in [Conn -> Outputs] /\ output'[c] = o
         /\ \A x \in Conn : x # c => output'[x] = output[x]
    BY <1>1, <2>3, <2>8, <2>9
  <2>11. ASSUME NEW x \in Conn PROVE Meets(u, x, output'[x])
    <3>1. CASE x # c
      <4>1. dev.crtc[x] # None => dev.crtc[x] \in Crtc /\ dev.crtc[x] # dev.crtc[c]
        BY <1>1, <2>3, <3>1, DevTyped DEF Good, Excl
      <4>2. Meets(u, x, output[x])
        BY <1>1, <1>4, <2>2, <2>5, <3>1, <4>1, MeetsRead
      <4> QED
        BY <2>10, <3>1, <4>2
    <3>2. CASE x = c
      <4>1. Connected(u, c) /\ u.queued[u.crtc[c]] = None /\ u.crtc[c] # None
        BY <2>2, <2>5 DEF Connected
      <4> QED
        BY <2>8, <2>10, <3>2, <4>1 DEF Meets
    <3> QED
      BY <3>1, <3>2
  <2>12. /\ due' \subseteq Conn
         /\ \A x \in due' : output'[x].enabled /\ (output'[x].idle_frame \/ output'[x].frame_pending)
    BY <1>1, <2>3, <2>7, <2>10
  <2>13. Ok(u, output', session, due')
    BY <2>4, <2>5, <2>10, <2>11, <2>12 DEF Ok
  <2>14. Keeps(dev, output, u, output')
    BY <2>5 DEF Keeps
  <2> QED
    BY <1>1, <1>2, <2>6, <2>13, <2>14 DEF DrmInv
<1> QED
  BY <1>6, <1>7

LEMMA OutputKeeps ==
    ASSUME DrmInv, NEW c \in Conn, Connected(dev, c), NEW o \in Outputs, Alike(output[c], o),
           output' = [output EXCEPT ![c] = o], UNCHANGED <<dev, plugged, session>>,
           NEW du, due' = du, du \subseteq due \cup {c},
           c \in du => output[c].enabled /\ (o.idle_frame \/ o.frame_pending)
    PROVE  DrmInv' /\ Keeps(dev, output, dev', output')
<1>1. /\ Good(dev) /\ output \in [Conn -> Outputs] /\ session \in BOOLEAN /\ due \subseteq Conn
      /\ \A x \in Conn : Meets(dev, x, output[x])
      /\ ~session => \A x \in Conn : ~Connected(dev, x)
      /\ \A x \in due : output[x].enabled /\ (output[x].idle_frame \/ output[x].frame_pending)
      /\ plugged \subseteq Conn
  BY DEF DrmInv, Ok
<1>2. /\ output' \in [Conn -> Outputs] /\ output'[c] = o
      /\ \A x \in Conn : x # c => output'[x] = output[x]
  BY <1>1
<1>3. Meets(dev, c, o)
  BY <1>1, MeetsAlike
<1>4. \A x \in Conn : Meets(dev, x, output'[x])
  BY <1>1, <1>2, <1>3
<1>5. \A x \in du : output'[x].enabled /\ (output'[x].idle_frame \/ output'[x].frame_pending)
  BY <1>1, <1>2 DEF Alike
<1>6. Ok(dev, output', session, du)
  BY <1>1, <1>2, <1>4, <1>5 DEF Ok
<1>7. Keeps(dev, output, dev, output')
  BY DEF Keeps
<1> QED
  BY <1>1, <1>6, <1>7 DEF DrmInv

LEMMA ScheduleKeeps ==
    ASSUME DrmInv, NEW c \in Conn, ScheduleFrame(c)
    PROVE  DrmInv' /\ Keeps(dev, output, dev', output')
<1>1. output \in [Conn -> Outputs] /\ output[c] \in Outputs
  BY DEF DrmInv, Ok
<1> DEFINE o == [output[c] EXCEPT !.idle_frame = @ \/ ~output[c].frame_pending]
           du == due'
<1>2. o \in Outputs /\ Alike(output[c], o) /\ (o.idle_frame \/ o.frame_pending)
  BY <1>1 DEF Outputs, Alike
<1>3. Connected(dev, c) /\ UNCHANGED <<dev, plugged, session>>
  BY DEF ScheduleFrame
<1>4. output' = [output EXCEPT ![c] = o]
  BY <1>1 DEF ScheduleFrame
<1>5. due' = du /\ du \subseteq due \cup {c} /\ (c \in du => c \in due \/ output[c].enabled)
  BY DEF ScheduleFrame
<1>6. c \in due => output[c].enabled
  BY DEF DrmInv, Ok
<1> HIDE DEF o, du
<1> QED
  BY <1>2, <1>3, <1>4, <1>5, <1>6, OutputKeeps

LEMMA IdleKeeps ==
    ASSUME DrmInv, NEW c \in Conn, IdleFrame(c)
    PROVE  DrmInv' /\ Keeps(dev, output, dev', output')
<1>1. output \in [Conn -> Outputs] /\ output[c] \in Outputs /\ Meets(dev, c, output[c])
  BY DEF DrmInv, Ok
<1>2. output[c].idle_frame /\ UNCHANGED <<dev, plugged, session>>
  BY DEF IdleFrame
<1>3. Connected(dev, c)
  BY <1>1, <1>2 DEF Meets, NoOutput
<1> DEFINE o == [output[c] EXCEPT !.idle_frame = FALSE]
           du == due'
<1>4. o \in Outputs /\ Alike(output[c], o)
  BY <1>1 DEF Outputs, Alike
<1>5. output' = [output EXCEPT ![c] = o]
  BY <1>1 DEF IdleFrame
<1>6. c \in due => output[c].enabled
  BY DEF DrmInv, Ok
<1>7. /\ due' = du /\ du \subseteq due \cup {c}
      /\ c \in du => c \in due /\ output[c].frame_pending
  BY <1>6 DEF IdleFrame
<1> HIDE DEF o, du
<1> QED
  BY <1>2, <1>3, <1>4, <1>5, <1>6, <1>7, OutputKeeps DEF Alike

LEMMA HotplugKeeps ==
    ASSUME DrmInv, NEW c \in Conn, Hotplug(c)
    PROVE  DrmInv' /\ Keeps(dev, output, dev', output')
<1>1. UNCHANGED <<dev, output, session, due>> /\ plugged' \subseteq Conn
  BY DEF Hotplug, DrmInv
<1> QED
  BY <1>1 DEF DrmInv, Keeps

LEMMA PauseKeeps ==
    ASSUME Atomic, DrmInv, SessionPause
    PROVE  DrmInv' /\ Keeps(dev, output, dev', output')
<1> DEFINE conns == {c \in Conn : Connected(dev, c)}
<1>1. PICK t \in DestroyOutputs(dev, conns, FALSE) : dev' = t
  BY DEF SessionPause
<1>2. /\ session' = FALSE /\ output' = [c \in Conn |-> NoOutput] /\ due' = {} /\ plugged' = plugged
  BY DEF SessionPause
<1>3. Good(dev) /\ plugged \subseteq Conn
  BY DEF DrmInv, Ok
<1>4. conns \subseteq Conn /\ \A c \in Conn : c \notin conns => ~Connected(dev, c)
  OBVIOUS
<1> HIDE DEF conns
<1>5. IsDestroyed(dev, t, conns, FALSE)
  BY <1>1, <1>3, <1>4, Destroyed
<1>6. Good(t) /\ \A c \in Conn : ~Connected(t, c)
  BY <1>4, <1>5 DEF IsDestroyed, Connected
<1>7. NoOutput \in Outputs
  BY DEF NoOutput, Outputs
<1>8. output' \in [Conn -> Outputs] /\ \A c \in Conn : output'[c] = NoOutput
  BY <1>2, <1>7
<1>9. \A c \in Conn : Meets(t, c, output'[c])
  BY <1>6, <1>8 DEF Meets
<1>10. Ok(t, output', FALSE, {})
  BY <1>6, <1>8, <1>9 DEF Ok
<1>11. Keeps(dev, output, t, output')
  BY <1>6 DEF Keeps
<1> QED
  BY <1>1, <1>2, <1>3, <1>10, <1>11 DEF DrmInv

LEMMA ScanKeeps ==
    ASSUME Atomic, DrmInv, NEW bad, Scan(TRUE, bad)
    PROVE  Ok(dev', output', TRUE, due') /\ Keeps(dev, output, dev', output')
<1>1. /\ Good(dev) /\ output \in [Conn -> Outputs] /\ session \in BOOLEAN /\ due \subseteq Conn
      /\ \A x \in Conn : Meets(dev, x, output[x])
      /\ \A x \in due : output[x].enabled /\ (output[x].idle_frame \/ output[x].frame_pending)
      /\ plugged \subseteq Conn
  BY DEF DrmInv, Ok
<1> DEFINE gone == {c \in Conn : Connected(dev, c) /\ (c \in bad \/ c \notin plugged)}
           new(d) == {c \in plugged : ~Connected(d, c)}
           st(d) == [c \in Conn |-> IF c \in new(d) THEN "connected" ELSE d.status[c]]
           fresh(d, c) == [NoOutput EXCEPT !.enabled = d.crtc[c] # None]
<1>2. PICK d \in DestroyOutputs(dev, gone, TRUE) :
        /\ dev' = [d EXCEPT !.status = st(d)]
        /\ output' = [c \in Conn |-> IF c \in new(d) THEN fresh(d, c)
                                     ELSE IF c \in gone THEN NoOutput ELSE output[c]]
        /\ due' = due \ gone
  BY DEF Scan
<1>3. gone \subseteq Conn /\ (\A c \in gone : Connected(dev, c))
  OBVIOUS
<1> HIDE DEF gone
<1>4. IsDestroyed(dev, d, gone, TRUE)
  BY <1>1, <1>2, <1>3, Destroyed
<1>5. /\ Good(d)
      /\ \A c \in Conn : d.status[c] = IF c \in gone THEN "disconnected" ELSE dev.status[c]
      /\ \A c \in gone : d.crtc[c] = None
      /\ \A c \in Conn \ gone : Meets(d, c, output[c]) /\ d.crtc[c] = dev.crtc[c]
  BY <1>1, <1>4 DEF IsDestroyed
<1> DEFINE t == dev'
           N == new(d)
<1>6. /\ N \subseteq Conn /\ \A c \in N : ~Connected(d, c)
  BY <1>1
<1>7. st(d) \in [Conn -> {"connected", "disconnected"}]
  <2>1. d \in Devs
    BY <1>5 DEF Good
  <2>2. \A c \in Conn : d.status[c] \in {"connected", "disconnected"}
    BY <2>1 DEF Devs
  <2> QED
    BY <2>2
<1>8. \A c \in Conn : st(d)[c] = IF c \in N THEN "connected" ELSE d.status[c]
  OBVIOUS
<1>9. t.status = st(d)
  BY <1>2, <1>5 DEF Good, Devs
<1>10. \A c \in Conn : output'[c] = IF c \in N THEN fresh(d, c) ELSE IF c \in gone THEN NoOutput ELSE output[c]
  BY <1>2
<1>11. Good(t) /\ t.crtc = d.crtc /\ t.flip = d.flip /\ t.flips = d.flips /\ t.queued = d.queued
  <2> HIDE DEF st
  <2> QED
    BY <1>2, <1>5, <1>7, RelabelledIsGood
<1>12. \A c \in Conn : /\ fresh(d, c) \in Outputs /\ fresh(d, c).fresh
                       /\ ~fresh(d, c).frame_pending /\ (fresh(d, c).enabled <=> d.crtc[c] # None)
  BY DEF NoOutput, Outputs
<1>13. NoOutput \in Outputs /\ ~NoOutput.enabled
  BY DEF NoOutput, Outputs
<1>14. output' = [c \in Conn |-> IF c \in N THEN fresh(d, c)
                                 ELSE IF c \in gone THEN NoOutput ELSE output[c]]
  BY <1>2
<1>15. t = dev'
  OBVIOUS
<1> HIDE DEF t, N, st, fresh, new
<1>16. output' \in [Conn -> Outputs]
  BY <1>1, <1>12, <1>13, <1>14
<1>17. ASSUME NEW c \in Conn PROVE Meets(t, c, output'[c])
  <2>1. CASE c \in N
    <3>1. Connected(t, c) /\ t.crtc[c] = d.crtc[c] /\ output'[c] = fresh(d, c)
      BY <1>8, <1>9, <1>10, <1>11, <2>1 DEF Connected
    <3> QED
      BY <1>12, <3>1 DEF Meets
  <2>2. CASE c \notin N /\ c \in gone
    <3>1. ~Connected(t, c) /\ output'[c] = NoOutput
      BY <1>5, <1>8, <1>9, <1>10, <2>2 DEF Connected
    <3> QED
      BY <3>1 DEF Meets
  <2>3. CASE c \notin N /\ c \notin gone
    <3>1. t.status[c] = d.status[c] /\ output'[c] = output[c] /\ Meets(d, c, output[c])
      BY <1>5, <1>8, <1>9, <1>10, <2>3
    <3> QED
      BY <1>11, <3>1, SameMeets
  <2> QED
    BY <2>1, <2>2, <2>3
<1>18. ASSUME NEW c \in due \ gone PROVE output'[c] = output[c]
  <2>1. c \in Conn /\ output[c].enabled /\ Meets(dev, c, output[c])
    BY <1>1
  <2>2. Connected(dev, c)
    BY <1>13, <2>1 DEF Meets
  <2>3. Connected(d, c)
    BY <1>5, <1>18, <2>1, <2>2 DEF Connected
  <2> QED
    BY <1>6, <1>10, <1>18, <2>1, <2>3
<1>19. Ok(t, output', TRUE, due \ gone)
  BY <1>1, <1>11, <1>16, <1>17, <1>18 DEF Ok
<1>20. ASSUME NEW c \in Conn, Connected(dev, c), output'[c].enabled PROVE t.crtc[c] = dev.crtc[c]
  <2>1. CASE c \in gone
    <3>1. d.crtc[c] = None
      BY <1>5, <2>1
    <3>2. ~output'[c].enabled
      BY <1>10, <1>12, <1>13, <2>1, <3>1
    <3> QED
      BY <1>20, <3>2
  <2>2. CASE c \notin gone
    BY <1>5, <1>11, <2>2
  <2> QED
    BY <2>1, <2>2
<1>21. Keeps(dev, output, t, output')
  BY <1>20 DEF Keeps
<1> QED
  BY <1>2, <1>15, <1>19, <1>21

LEMMA InitInv == DrmInit => DrmInv
<1> SUFFICES ASSUME DrmInit PROVE DrmInv
  OBVIOUS
<1>1. dev \in Devs
  BY DEF DrmInit, Devs
<1>2. /\ \A c \in Conn : dev.crtc[c] = None /\ dev.flip[c] = None /\ dev.status[c] = "connected"
      /\ \A f \in Flip : dev.flips[f] = {}
      /\ \A k \in Crtc : /\ dev.queued[k] = None /\ dev.current[k] = None /\ dev.hw[k] = None
                         /\ dev.inflight[k] = <<>> /\ dev.events[k] = <<>>
  BY DEF DrmInit
<1>3. output \in [Conn -> Outputs] /\ \A c \in Conn : output[c] = NoOutput
  BY DEF DrmInit, NoOutput, Outputs
<1>4. session = TRUE /\ due = {} /\ plugged = Conn
  BY DEF DrmInit
<1>5. \A k \in Crtc : Unread(dev, k) = {} /\ Flying(dev, k) = {} /\ Distinct(dev.events[k])
  <2>1. SetOf(<<>>) = {} /\ Distinct(<<>>)
    BY DEF SetOf, Distinct
  <2> QED
    BY <1>2, <2>1 DEF Unread, Flying
<1>6. Owing(dev) /\ Once(dev)
  BY <1>2, <1>5 DEF Owing, Once, Owes
<1>7. Single(dev) /\ Listed(dev) /\ Waits(dev) /\ Moved(dev)
  BY <1>2 DEF Single, Listed, Waits, Moved
<1>8. Excl(dev) /\ Newest(dev) /\ Clean(dev) /\ Plane(dev)
  BY <1>2 DEF Excl, Newest, Clean, Plane
<1>9. \A c \in Conn : Meets(dev, c, output[c])
  BY <1>2, <1>3 DEF Meets, NoOutput, Connected
<1> QED
  BY <1>1, <1>3, <1>4, <1>6, <1>7, <1>8, <1>9 DEF DrmInv, Ok, Good

LEMMA NextInv ==
    ASSUME Atomic, DrmInv, [DrmNext]_DrmVars
    PROVE  DrmInv' /\ Keeps(dev, output, dev', output')
<1>1. CASE UNCHANGED DrmVars
  BY <1>1 DEF DrmVars, DrmInv, Keeps
<1>2. ASSUME NEW c \in Conn, NEW fb \in Unused, NEW modeset \in BOOLEAN, CommitOn(c, fb, modeset)
      PROVE  DrmInv' /\ Keeps(dev, output, dev', output')
  BY <1>2, CommitOnKeeps DEF Unused
<1>3. ASSUME NEW c \in Conn, CommitOn(c, None, FALSE)
      PROVE  DrmInv' /\ Keeps(dev, output, dev', output')
  BY <1>3, CommitOnKeeps
<1>4. ASSUME NEW c \in Conn, CommitOff(c)
      PROVE  DrmInv' /\ Keeps(dev, output, dev', output')
  BY <1>4, CommitOffKeeps
<1>5. ASSUME NEW c \in Conn, TestOn(c)
      PROVE  DrmInv' /\ Keeps(dev, output, dev', output')
  BY <1>5, TestKeeps
<1>6. ASSUME NEW off \in SUBSET Conn, NEW conns \in SUBSET (Conn \ off),
             NEW on \in [conns -> Unused], CommitDevice(on, off)
      PROVE  DrmInv' /\ Keeps(dev, output, dev', output')
  <2>1. on \in [conns -> Buffer]
    BY DEF Unused
  <2> QED
    BY <1>6, <2>1, CommitDeviceKeeps
<1>7. ASSUME NEW k \in Crtc, VBlank(k) \/ OtherSession(k) \/ handle_page_flip(k)
      PROVE  DrmInv' /\ Keeps(dev, output, dev', output')
  BY <1>7, KernelKeeps, PageFlipKeeps
<1>8. ASSUME NEW c \in Scheduling, ScheduleFrame(c) \/ IdleFrame(c)
      PROVE  DrmInv' /\ Keeps(dev, output, dev', output')
  <2>1. c \in Conn
    BY DrmAssumption
  <2> QED
    BY <1>8, <2>1, ScheduleKeeps, IdleKeeps
<1>9. ASSUME NEW c \in Pluggable, Hotplug(c)
      PROVE  DrmInv' /\ Keeps(dev, output, dev', output')
  <2>1. c \in Conn
    BY DrmAssumption
  <2> QED
    BY <1>9, <2>1, HotplugKeeps
<1>10. CASE SessionPause
  BY <1>10, PauseKeeps
<1>11. CASE SessionResume
  <2>1. Scan(TRUE, {}) /\ session' = TRUE /\ plugged' = plugged
    BY <1>11 DEF SessionResume
  <2>2. Ok(dev', output', TRUE, due') /\ Keeps(dev, output, dev', output')
    BY <2>1, ScanKeeps
  <2> QED
    BY <2>1, <2>2 DEF DrmInv
<1>12. ASSUME NEW bad, HandleDevChange(bad)
       PROVE  DrmInv' /\ Keeps(dev, output, dev', output')
  <2>1. Scan(TRUE, bad) /\ session' = session /\ session /\ plugged' = plugged
    BY <1>12 DEF HandleDevChange
  <2>2. Ok(dev', output', TRUE, due') /\ Keeps(dev, output, dev', output')
    BY <2>1, ScanKeeps
  <2>3. session \in BOOLEAN
    BY DEF DrmInv, Ok
  <2> QED
    BY <2>1, <2>2, <2>3 DEF DrmInv
<1> QED
  <2>1. CASE DrmNext
    <3>1. Step
      BY <2>1 DEF DrmNext
    <3> QED
      BY <1>2, <1>3, <1>4, <1>5, <1>6, <1>7, <1>8, <1>9, <1>10, <1>11, <1>12, <3>1 DEF Step
  <2> QED
    BY <1>1, <2>1

-----------------------------------------------------------------------------
(***************************************************************************)
(* Scheduled frames, on either interface and whatever the kernel refuses:  *)
(* all that matters of the device is that commits connect and disconnect   *)
(* nothing.                                                                *)
(***************************************************************************)
Labelled(d, s) == "status" \in DOMAIN d /\ d.status = s

LEMMA KernelLabelled ==
    ASSUME NEW d, NEW s, Labelled(d, s), NEW req, NEW conns, NEW f
    PROVE  /\ Labelled(Latch(d, conns), s) /\ Labelled(Show(d, req, conns), s)
           /\ Labelled(Queue(d, req, conns, f), s) /\ Labelled(Signal(d, conns, f), s)
<1>1. \A ks : Labelled(Latch(d, ks), s)
  BY DEF Labelled, Latch
<1>2. Labelled(Show(d, req, conns), s)
  BY <1>1 DEF Labelled, Show
<1>3. Labelled(Queue(d, req, conns, f), s)
  BY DEF Labelled, Queue
<1>4. Labelled(Signal(d, conns, f), s)
  BY DEF Labelled, Signal
<1> QED
  BY <1>1, <1>2, <1>3, <1>4

LEMMA FlipLabelled ==
    ASSUME NEW d, NEW s, Labelled(d, s), NEW conns, NEW f
    PROVE  /\ Labelled(drm_page_flip_create(d, f, conns), s)
           /\ Labelled(drm_page_flip_destroy(d, f), s)
           /\ Labelled(drm_connector_set_pending_page_flip(d, conns, f), s)
           /\ Labelled(Flipped(d, f), s)
<1>1. Labelled(drm_page_flip_create(d, f, conns), s)
  BY DEF Labelled, drm_page_flip_create
<1>2. Labelled(drm_page_flip_destroy(d, f), s)
  BY DEF Labelled, drm_page_flip_destroy
<1>3. Labelled(drm_connector_set_pending_page_flip(d, conns, f), s)
  BY DEF Labelled, drm_connector_set_pending_page_flip
<1>4. Labelled(Flipped(d, f), s)
  BY DEF Labelled, Flipped
<1> QED
  BY <1>1, <1>2, <1>3, <1>4

LEMMA ApplyLabelled ==
    ASSUME NEW d, NEW s, Labelled(d, s), NEW req, NEW f
    PROVE  Labelled(drm_connector_apply_commit(d, req, f), s)
<1> DEFINE p == drm_connector_set_pending_page_flip(d, DOMAIN req, f)
<1>1. Labelled(p, s)
  BY FlipLabelled
<1> HIDE DEF p
<1> QED
  BY <1>1 DEF Labelled, drm_connector_apply_commit, p

LEMMA LegacyLabelled ==
    ASSUME NEW d, NEW s, Labelled(d, s), NEW req, NEW modeset, NEW f,
           NEW r \in LegacyShow(d, req, modeset, f)
    PROVE  Labelled(r.d, s)
<1>1. \A set : Labelled(IF modeset THEN Show(d, req, set) ELSE d, s)
  BY KernelLabelled
<1>2. \A set, conns : Labelled(Queue(IF modeset THEN Show(d, req, set) ELSE d, req, conns, f), s)
  BY <1>1, KernelLabelled
<1> DEFINE flipped(conns) == {c \in conns : req[c].active}
           before(c) == {x \in DOMAIN req : x < c}
           possible(conns) == modeset \/ \A c \in flipped(conns) : d.inflight[d.crtc[c]] = <<>>
           after(set, conns) == Queue(IF modeset THEN Show(d, req, set) ELSE d, req, flipped(conns), f)
           reached == {c \in DOMAIN req : possible(before(c))}
<1>3. r \in {[ok |-> FALSE, d |-> after(before(c), before(c))] : c \in reached} \cup
           {[ok |-> FALSE, d |-> after(before(c) \cup {c}, before(c))] : c \in flipped(reached)} \cup
           {[ok |-> TRUE, d |-> after(conns, conns)] : conns \in {x \in {DOMAIN req} : possible(x)}}
  BY DEF LegacyShow
<1>4. \A set, conns : Labelled(after(set, conns), s)
  BY <1>2
<1> HIDE DEF after, reached, flipped, before, possible
<1>5. CASE r \in {[ok |-> FALSE, d |-> after(before(c), before(c))] : c \in reached}
  BY <1>4, <1>5
<1>6. CASE r \in {[ok |-> FALSE, d |-> after(before(c) \cup {c}, before(c))] : c \in flipped(reached)}
  <2>1. PICK c \in flipped(reached) : r = [ok |-> FALSE, d |-> after(before(c) \cup {c}, before(c))]
    BY <1>6
  <2> DEFINE set == before(c) \cup {c}
  <2>2. r.d = after(set, before(c))
    BY <2>1
  <2> HIDE DEF set
  <2> QED
    BY <1>4, <2>2
<1>7. CASE r \in {[ok |-> TRUE, d |-> after(conns, conns)] : conns \in {x \in {DOMAIN req} : possible(x)}}
  BY <1>4, <1>7
<1> QED
  BY <1>3, <1>5, <1>6, <1>7

LEMMA CommitsLabelled ==
    ASSUME NEW d, NEW s, Labelled(d, s), NEW req, NEW modeset, NEW nonblock, NEW f,
           NEW r \in Commits(d, req, modeset, nonblock, f)
    PROVE  Labelled(r.d, s)
<1>1. CASE Legacy
  BY <1>1, LegacyLabelled DEF Commits
<1>2. CASE ~Legacy
  <2>1. Labelled(AtomicShow(d, req, nonblock, f), s)
    BY KernelLabelled DEF AtomicShow
  <2>2. r.d = d \/ r.d = AtomicShow(d, req, nonblock, f)
    BY <1>2 DEF Commits
  <2> QED
    BY <2>1, <2>2
<1> QED
  BY <1>1, <1>2

LEMMA CommitLabelled ==
    ASSUME NEW d, NEW s, Labelled(d, s), NEW req, NEW modeset, NEW nonblock,
           NEW r \in drm_commit(d, req, modeset, nonblock)
    PROVE  Labelled(r.d, s)
<1>1. PICK f \in FreeFlips(d) :
        \E q \in Commits(drm_page_flip_create(d, f, DOMAIN req), req, modeset, nonblock, f) :
          r = IF q.ok THEN [ok |-> TRUE, d |-> drm_connector_apply_commit(q.d, req, f)]
              ELSE [ok |-> FALSE, d |-> drm_page_flip_destroy(q.d, f)]
  BY DEF drm_commit
<1> DEFINE p == drm_page_flip_create(d, f, DOMAIN req)
<1>2. PICK q \in Commits(p, req, modeset, nonblock, f) :
        r = IF q.ok THEN [ok |-> TRUE, d |-> drm_connector_apply_commit(q.d, req, f)]
            ELSE [ok |-> FALSE, d |-> drm_page_flip_destroy(q.d, f)]
  BY <1>1
<1>3. Labelled(p, s)
  BY FlipLabelled
<1> HIDE DEF p
<1>4. Labelled(q.d, s)
  BY <1>3, CommitsLabelled
<1>5. r.d = drm_connector_apply_commit(q.d, req, f) \/ r.d = drm_page_flip_destroy(q.d, f)
  BY <1>2
<1> QED
  BY <1>4, <1>5, ApplyLabelled, FlipLabelled

LEMMA DeallocLabelled ==
    ASSUME NEW d, NEW s, Labelled(d, s), NEW conns, NEW a, NEW t \in dealloc_crtc(d, conns, a)
    PROVE  Labelled(t, s)
<1>1. PICK off : t = TurnedOff(d, off)
  BY DEF dealloc_crtc
<1> QED
  BY <1>1, KernelLabelled, ApplyLabelled DEF TurnedOff

LEMMA AllocLabelled ==
    ASSUME NEW d, NEW s, Labelled(d, s), NEW c, NEW t \in drm_connector_alloc_crtc(d, c)
    PROVE  Labelled(t, s)
<1>1. CASE t = d
  BY <1>1
<1>2. CASE t # d
  <2>1. PICK m \in BestMatches(d, c) : t \in TakeCrtcs(d, m)
    BY <1>2 DEF drm_connector_alloc_crtc, realloc_crtcs
  <2>2. PICK e \in dealloc_crtc(d, {x \in Conn : MatchOf(m, x) = None}, session) :
          t = [e EXCEPT !.crtc = [x \in Conn |->
                 IF d.crtc[x] = None /\ MatchOf(m, x) # None THEN MatchOf(m, x) ELSE @[x]]]
    BY <2>1 DEF TakeCrtcs
  <2>3. Labelled(e, s)
    BY DeallocLabelled
  <2> QED
    BY <2>2, <2>3 DEF Labelled
<1> QED
  BY <1>1, <1>2

LEMMA AllocAllLabelled ==
    ASSUME NEW d, NEW s, Labelled(d, s), NEW conns, NEW r \in AllocAll(d, conns)
    PROVE  Labelled(r.d, s)
<1>1. PICK u : /\ AllocAll(d, conns) = u[NumConn]
               /\ u[0] = {[ok |-> TRUE, d |-> d]}
               /\ \A n \in 1..NumConn : u[n] = AllocFor(conns, n, u[n - 1])
  BY AllocAllSteps
<1> DEFINE P(n) == \A q \in u[n] : Labelled(q.d, s)
           T == {n \in 0..NumConn : ~P(n)}
<1>2. NumConn \in Nat
  BY DrmAssumption
<1>3. P(0)
  BY <1>1
<1>4. ASSUME NEW n \in 1..NumConn, P(n - 1) PROVE P(n)
  <2>1. SUFFICES ASSUME NEW q \in AllocFor(conns, n, u[n - 1]) PROVE Labelled(q.d, s)
    BY <1>1
  <2>2. PICK x \in u[n - 1] :
          q = x \/ \E e \in drm_connector_alloc_crtc(x.d, n) : q = [ok |-> e.crtc[n] # None, d |-> e]
    BY <2>1 DEF AllocFor
  <2>3. Labelled(x.d, s)
    BY <1>4
  <2>4. q = x \/ q.d \in drm_connector_alloc_crtc(x.d, n)
    BY <2>2
  <2> QED
    BY <2>3, <2>4, AllocLabelled
<1>5. T = {}
  <2>1. SUFFICES ASSUME T # {} PROVE FALSE
    OBVIOUS
  <2>2. T \subseteq Nat
    BY <1>2
  <2> HIDE DEF P
  <2>3. PICK n \in T : \A y \in T : n <= y
    <3> HIDE DEF T
    <3> QED
      BY <2>1, <2>2, Least
  <2>4. n \in 0..NumConn /\ ~P(n) /\ n # 0
    BY <1>3
  <2>5. n \in 1..NumConn /\ n - 1 \in 0..NumConn /\ ~(n <= n - 1)
    BY <1>2, <2>4
  <2>6. P(n - 1)
    BY <2>3, <2>5
  <2> QED
    BY <1>4, <2>4, <2>5, <2>6
<1>6. P(NumConn)
  <2>1. NumConn \in 0..NumConn
    BY <1>2
  <2> HIDE DEF P
  <2> QED
    BY <1>5, <2>1
<1> QED
  BY <1>1, <1>6

LEMMA DeviceLabelled ==
    ASSUME Labelled(dev, dev.status), NEW on, NEW off, NEW r \in commit_drm_device(on, off)
    PROVE  Labelled(r.d, dev.status)
<1> DEFINE conns == DOMAIN on \cup off
           req == [c \in conns |-> IF c \in off THEN [active |-> FALSE, fb |-> None]
                                   ELSE [active |-> TRUE, fb |-> on[c]]]
<1>1. PICK q \in AllocAll(dev, DOMAIN on) :
        \/ r = q
        \/ r \in Failed([q.d EXCEPT !.nocrtc = TRUE])
        \/ r \in drm_commit(q.d, req, TRUE, FALSE)
  BY DEF commit_drm_device
<1>2. Labelled(q.d, dev.status)
  BY AllocAllLabelled
<1>3. r \in Failed([q.d EXCEPT !.nocrtc = TRUE]) => Labelled(r.d, dev.status)
  BY <1>2 DEF Failed, Labelled
<1> HIDE DEF req
<1> QED
  BY <1>1, <1>2, <1>3, CommitLabelled

LEMMA ConnectorLabelled ==
    ASSUME Labelled(dev, dev.status), NEW c, NEW fb, NEW modeset,
           NEW r \in drm_connector_commit_state(dev, c, fb, modeset)
    PROVE  Labelled(r.d, dev.status)
<1>1. CASE r \in Failed(dev)
  BY <1>1 DEF Failed
<1>2. CASE r \notin Failed(dev)
  <2>1. PICK e \in drm_connector_alloc_crtc(dev, c) :
          \/ r \in Failed(e)
          \/ r \in drm_commit(e, [x \in {c} |-> [active |-> TRUE, fb |-> PrimaryFb(e, e.crtc[c], fb)]],
                              modeset, ~modeset /\ fb # None)
    BY <1>2 DEF drm_connector_commit_state
  <2>2. Labelled(e, dev.status)
    BY AllocLabelled
  <2>3. r \in Failed(e) => r.d = e
    BY DEF Failed
  <2> QED
    BY <2>1, <2>2, <2>3, CommitLabelled
<1> QED
  BY <1>1, <1>2

LEMMA TurnOffLabelled ==
    ASSUME Labelled(dev, dev.status), NEW c, NEW a, NEW r \in TurnOff(dev, c, a)
    PROVE  Labelled(r.d, dev.status)
<1>1. r.d = dev \/ r.d = TurnedOff(dev, {c})
  BY DEF TurnOff, Failed
<1>2. Labelled(TurnedOff(dev, {c}), dev.status)
  BY KernelLabelled, ApplyLabelled DEF TurnedOff
<1> QED
  BY <1>1, <1>2

LEMMA DestroyLabelled ==
    ASSUME Labelled(dev, dev.status), NEW conns, NEW a, NEW t \in DestroyOutputs(dev, conns, a)
    PROVE  Labelled(t, [c \in Conn |-> IF c \in conns THEN "disconnected" ELSE dev.status[c]])
<1>1. PICK e \in dealloc_crtc(dev, conns, a) :
        t = [drm_connector_set_pending_page_flip(e, conns, None) EXCEPT
               !.status = [c \in Conn |-> IF c \in conns THEN "disconnected" ELSE @[c]]]
  BY DEF DestroyOutputs
<1>2. Labelled(e, dev.status)
  BY DeallocLabelled
<1> DEFINE p == drm_connector_set_pending_page_flip(e, conns, None)
<1>3. Labelled(p, dev.status)
  BY <1>2, FlipLabelled
<1> HIDE DEF p
<1>4. t = [p EXCEPT !.status = [c \in Conn |-> IF c \in conns THEN "disconnected" ELSE dev.status[c]]]
  BY <1>1, <1>3 DEF p, Labelled
<1> QED
  BY <1>3, <1>4 DEF Labelled

(* A frame event is due to enabled outputs of connected connectors, from an *)
(* idle callback or a page-flip.                                            *)
DueInv ==
    /\ Labelled(dev, dev.status) /\ output \in [Conn -> Outputs] /\ due \subseteq Conn
    /\ \A c \in Conn : ~Connected(dev, c) => output[c] = NoOutput
    /\ \A c \in due : output[c].enabled /\ (output[c].idle_frame \/ output[c].frame_pending)

(* A step that connects and disconnects nothing, and changes the outputs of *)
(* conns only.                                                              *)
LEMMA DueKept ==
    ASSUME DueInv, Labelled(dev', dev.status), NEW conns, \A c \in conns : Connected(dev, c),
           output' \in [Conn -> Outputs], \A c \in Conn \ conns : output'[c] = output[c],
           due' \subseteq due \cup conns, due' \subseteq Conn,
           \A c \in due' \cap conns : output'[c].enabled /\ (output'[c].idle_frame \/ output'[c].frame_pending)
    PROVE  DueInv'
<1>1. \A c \in Conn : Connected(dev', c) <=> Connected(dev, c)
  BY DEF Connected, Labelled
<1>2. \A c \in Conn : ~Connected(dev', c) => output'[c] = NoOutput
  BY <1>1 DEF DueInv
<1>3. \A c \in due' : output'[c].enabled /\ (output'[c].idle_frame \/ output'[c].frame_pending)
  BY DEF DueInv
<1>4. Labelled(dev', dev'.status)
  BY DEF Labelled
<1> QED
  BY <1>2, <1>3, <1>4 DEF DueInv

LEMMA DueKeptBy ==
    ASSUME DueInv, Labelled(dev', dev.status), NEW c, Connected(dev, c),
           output' \in [Conn -> Outputs], \A x \in Conn \ {c} : output'[x] = output[x],
           due' \subseteq due \cup {c}, due' \subseteq Conn,
           c \in due' => output'[c].enabled /\ (output'[c].idle_frame \/ output'[c].frame_pending)
    PROVE  DueInv'
<1> DEFINE conns == {c}
<1>1. /\ \A x \in conns : Connected(dev, x)
      /\ \A x \in Conn \ conns : output'[x] = output[x]
      /\ due' \subseteq due \cup conns
      /\ \A x \in due' \cap conns :
           output'[x].enabled /\ (output'[x].idle_frame \/ output'[x].frame_pending)
  OBVIOUS
<1> HIDE DEF conns
<1> QED
  BY <1>1, DueKept

LEMMA CommitOnDue ==
    ASSUME DueInv, NEW c \in Conn, NEW fb, NEW modeset, CommitOn(c, fb, modeset)
    PROVE  DueInv'
<1> DEFINE q(ok) == Prepared(IF ok THEN output_apply_commit(c, TRUE) ELSE output[c], fb)
<1>1. /\ Labelled(dev, dev.status) /\ output \in [Conn -> Outputs] /\ due \subseteq Conn
      /\ \A x \in due : output[x].enabled /\ (output[x].idle_frame \/ output[x].frame_pending)
  BY DEF DueInv
<1>2. PICK r \in drm_connector_commit_state(dev, c, fb, modeset) :
        /\ dev' = r.d /\ output' = [output EXCEPT ![c] = q(r.ok)]
        /\ due' = IF r.ok \/ fb = None THEN due ELSE Forgone({c})
  BY DEF CommitOn
<1>3. Labelled(dev', dev.status)
  BY <1>1, <1>2, ConnectorLabelled
<1>4. /\ q(r.ok) \in Outputs
      /\ r.ok => q(r.ok).enabled /\ q(r.ok).frame_pending
      /\ ~r.ok => Alike(output[c], q(r.ok))
      /\ ~r.ok /\ fb = None => q(r.ok) = output[c]
  BY <1>1, OutputOn
<1> HIDE DEF q
<1>5. /\ output' \in [Conn -> Outputs] /\ output'[c] = q(r.ok)
      /\ \A x \in Conn \ {c} : output'[x] = output[x]
  BY <1>1, <1>2, <1>4
<1>6. \A x \in due' : x \in due /\ (x = c => r.ok \/ fb = None \/ output[c].frame_pending)
  BY <1>2 DEF Forgone
<1>7. c \in due' => output'[c].enabled /\ (output'[c].idle_frame \/ output'[c].frame_pending)
  BY <1>1, <1>4, <1>5, <1>6 DEF Alike
<1>8. Connected(dev, c)
  BY DEF CommitOn
<1>9. due' \subseteq due \cup {c} /\ due' \subseteq Conn
  BY <1>1, <1>6
<1> QED
  BY <1>3, <1>5, <1>7, <1>8, <1>9, DueKeptBy

LEMMA CommitOffDue ==
    ASSUME DueInv, NEW c \in Conn, CommitOff(c)
    PROVE  DueInv'
<1>1. /\ Labelled(dev, dev.status) /\ output \in [Conn -> Outputs] /\ due \subseteq Conn
      /\ \A x \in due : output[x].enabled /\ (output[x].idle_frame \/ output[x].frame_pending)
  BY DEF DueInv
<1>2. PICK r \in TurnOff(dev, c, session) :
        /\ dev' = r.d
        /\ output' = IF r.ok THEN [output EXCEPT ![c] = output_apply_commit(c, FALSE)] ELSE output
        /\ due' = IF r.ok THEN due \ {c} ELSE due
  BY DEF CommitOff
<1>3. Labelled(dev', dev.status)
  BY <1>1, <1>2, TurnOffLabelled
<1>4. output_apply_commit(c, FALSE) \in Outputs
  BY <1>1, OutputOff
<1>5. output' \in [Conn -> Outputs] /\ \A x \in Conn \ {c} : output'[x] = output[x]
  BY <1>1, <1>2, <1>4
<1>6. c \in due' => output'[c].enabled /\ (output'[c].idle_frame \/ output'[c].frame_pending)
  BY <1>1, <1>2
<1>7. due' \subseteq due \cup {c} /\ due' \subseteq Conn /\ Connected(dev, c)
  BY <1>1, <1>2 DEF CommitOff
<1> QED
  BY <1>3, <1>5, <1>6, <1>7, DueKeptBy

LEMMA CommitDeviceDue ==
    ASSUME DueInv, NEW off, off \subseteq Conn, NEW conns, conns \subseteq Conn \ off,
           NEW on, DOMAIN on = conns, CommitDevice(on, off)
    PROVE  DueInv'
<1> DEFINE q(c, ok) == Prepared(IF ok THEN output_apply_commit(c, TRUE) ELSE output[c], on[c])
           both == conns \cup off
<1>1. /\ Labelled(dev, dev.status) /\ output \in [Conn -> Outputs] /\ due \subseteq Conn
      /\ \A x \in due : output[x].enabled /\ (output[x].idle_frame \/ output[x].frame_pending)
  BY DEF DueInv
<1>2. PICK r \in commit_drm_device(on, off) :
        /\ dev' = r.d
        /\ output' = [c \in Conn |-> IF c \in conns THEN q(c, r.ok)
                                     ELSE IF c \in off /\ r.ok THEN output_apply_commit(c, FALSE)
                                     ELSE output[c]]
        /\ due' = IF r.ok THEN due \ off ELSE Forgone(conns)
  BY DEF CommitDevice
<1>3. Labelled(dev', dev.status)
  BY <1>1, <1>2, DeviceLabelled
<1>4. ASSUME NEW c \in conns
      PROVE  /\ q(c, r.ok) \in Outputs
             /\ r.ok => q(c, r.ok).enabled /\ q(c, r.ok).frame_pending
             /\ ~r.ok => Alike(output[c], q(c, r.ok))
  BY <1>1, OutputOn
<1> HIDE DEF q
<1>5. \A c \in off : output_apply_commit(c, FALSE) \in Outputs
  BY <1>1, OutputOff
<1>6. output' \in [Conn -> Outputs]
  BY <1>1, <1>2, <1>4, <1>5
<1>7. /\ \A c \in conns : output'[c] = q(c, r.ok)
      /\ \A c \in off : ~r.ok => output'[c] = output[c]
      /\ \A c \in Conn \ both : output'[c] = output[c]
  BY <1>2
<1>8. \A x \in due' : x \in due /\ (r.ok => x \notin off) /\ (~r.ok /\ x \in conns => output[x].frame_pending)
  BY <1>2 DEF Forgone
<1>9. \A x \in due' \cap both : output'[x].enabled /\ (output'[x].idle_frame \/ output'[x].frame_pending)
  BY <1>1, <1>4, <1>7, <1>8 DEF Alike
<1>10. due' \subseteq due \cup both /\ due' \subseteq Conn /\ \A x \in both : Connected(dev, x)
  BY <1>1, <1>8 DEF CommitDevice
<1> HIDE DEF both
<1> QED
  BY <1>3, <1>6, <1>7, <1>9, <1>10, DueKept

(* Steps of the kernel, and allocations. *)
LEMMA DeviceDue ==
    ASSUME DueInv, Labelled(dev', dev.status), UNCHANGED <<output, due>>
    PROVE  DueInv'
<1>1. \A c \in Conn : Connected(dev', c) <=> Connected(dev, c)
  BY DEF Connected, Labelled
<1>2. Labelled(dev', dev'.status)
  BY DEF Labelled
<1> QED
  BY <1>1, <1>2 DEF DueInv

LEMMA PageFlipDue ==
    ASSUME DueInv, NEW k, handle_page_flip(k)
    PROVE  DueInv'
<1>1. /\ Labelled(dev, dev.status) /\ output \in [Conn -> Outputs] /\ due \subseteq Conn
      /\ \A x \in due : output[x].enabled /\ (output[x].idle_frame \/ output[x].frame_pending)
  BY DEF DueInv
<1> DEFINE f == Head(dev.events[k])
           conns == {e.conn : e \in Entries(dev, f, k)} \ {None}
           p == drm_page_flip_pop(dev, f, k)
           t == [p EXCEPT !.events[k] = Tail(@),
                          !.flip = [c \in Conn |-> IF c \in conns THEN None ELSE @[c]]]
           shown == {c \in conns : Connected(dev, c) /\ dev.crtc[c] # None}
<1>2. IF shown = {} THEN dev' = t /\ UNCHANGED <<output, due>>
      ELSE \E c \in shown : /\ dev' = Flipped(t, t.crtc[c])
                            /\ IF session THEN SendFrame(c) ELSE UNCHANGED <<output, due>>
  BY DEF handle_page_flip
<1>3. \A c \in shown : Connected(dev, c)
  OBVIOUS
<1> HIDE DEF shown, conns, f
<1>4. Labelled(p, dev.status)
  BY <1>1 DEF Labelled, drm_page_flip_pop
<1> HIDE DEF p
<1>5. Labelled(t, dev.status)
  BY <1>4 DEF Labelled
<1> HIDE DEF t
<1>6. Labelled(dev', dev.status)
  BY <1>2, <1>5, FlipLabelled
<1>7. CASE UNCHANGED <<output, due>>
  BY <1>6, <1>7, DeviceDue
<1>8. CASE ~UNCHANGED <<output, due>>
  <2>1. PICK c \in shown : SendFrame(c)
    BY <1>2, <1>8
  <2>2. output' = [output EXCEPT ![c].frame_pending = FALSE] /\ due' = IF output[c].enabled THEN due \ {c} ELSE due
    BY <2>1 DEF SendFrame
  <2>3. \A x \in Conn \ {c} : output'[x] = output[x]
    BY <1>1, <2>2
  <2>4. output' \in [Conn -> Outputs]
    BY <1>1, <2>2 DEF Outputs
  <2>5. due' \subseteq due \cup {c} /\ due' \subseteq Conn /\ Connected(dev, c) /\ c \notin due'
    BY <1>1, <1>3, <2>2
  <2> QED
    BY <1>6, <2>3, <2>4, <2>5, DueKeptBy
<1> QED
  BY <1>7, <1>8

LEMMA FrameDue ==
    ASSUME DueInv, NEW c \in Conn, ScheduleFrame(c) \/ IdleFrame(c)
    PROVE  DueInv'
<1>1. /\ Labelled(dev, dev.status) /\ output \in [Conn -> Outputs] /\ due \subseteq Conn
      /\ \A x \in Conn : ~Connected(dev, x) => output[x] = NoOutput
      /\ \A x \in due : output[x].enabled /\ (output[x].idle_frame \/ output[x].frame_pending)
      /\ output[c] \in Outputs
  BY DEF DueInv
<1>2. dev' = dev /\ Connected(dev, c)
  BY <1>1 DEF ScheduleFrame, IdleFrame, NoOutput
<1>3. CASE ScheduleFrame(c)
  <2> DEFINE o == [output[c] EXCEPT !.idle_frame = @ \/ ~output[c].frame_pending]
  <2>1. o \in Outputs /\ o.enabled = output[c].enabled /\ (o.idle_frame \/ o.frame_pending)
    BY <1>1 DEF Outputs
  <2>2. output' = [output EXCEPT ![c] = o]
    BY <1>1, <1>3 DEF ScheduleFrame
  <2>3. due' = IF output[c].enabled THEN due \cup {c} ELSE due
    BY <1>3 DEF ScheduleFrame
  <2> HIDE DEF o
  <2>4. output' \in [Conn -> Outputs] /\ output'[c] = o /\ \A x \in Conn \ {c} : output'[x] = output[x]
    BY <1>1, <2>1, <2>2
  <2>5. /\ due' \subseteq due \cup {c} /\ due' \subseteq Conn
        /\ c \in due' => output'[c].enabled /\ (output'[c].idle_frame \/ output'[c].frame_pending)
    BY <1>1, <1>2, <2>1, <2>3, <2>4
  <2> QED
    BY <1>1, <1>2, <2>4, <2>5, DueKeptBy
<1>4. CASE IdleFrame(c)
  <2> DEFINE o == [output[c] EXCEPT !.idle_frame = FALSE]
  <2>1. o \in Outputs /\ o.enabled = output[c].enabled /\ o.frame_pending = output[c].frame_pending
    BY <1>1 DEF Outputs
  <2>2. output' = [output EXCEPT ![c] = o]
    BY <1>1, <1>4 DEF IdleFrame
  <2>3. due' = IF ~output[c].frame_pending /\ output[c].enabled THEN due \ {c} ELSE due
    BY <1>4 DEF IdleFrame
  <2> HIDE DEF o
  <2>4. output' \in [Conn -> Outputs] /\ output'[c] = o /\ \A x \in Conn \ {c} : output'[x] = output[x]
    BY <1>1, <2>1, <2>2
  <2>5. /\ due' \subseteq due \cup {c} /\ due' \subseteq Conn
        /\ c \in due' => output'[c].enabled /\ (output'[c].idle_frame \/ output'[c].frame_pending)
    BY <1>1, <1>2, <2>1, <2>3, <2>4
  <2> QED
    BY <1>1, <1>2, <2>4, <2>5, DueKeptBy
<1> QED
  BY <1>3, <1>4

LEMMA PauseDue ==
    ASSUME DueInv, SessionPause
    PROVE  DueInv'
<1> DEFINE conns == {c \in Conn : Connected(dev, c)}
<1>1. PICK t \in DestroyOutputs(dev, conns, FALSE) : dev' = t
  BY DEF SessionPause
<1>2. output' = [c \in Conn |-> NoOutput] /\ due' = {} /\ Labelled(dev, dev.status)
  BY DEF SessionPause, DueInv
<1>3. Labelled(dev', dev'.status)
  BY <1>1, <1>2, DestroyLabelled DEF Labelled
<1>4. NoOutput \in Outputs
  BY DEF NoOutput, Outputs
<1> QED
  BY <1>2, <1>3, <1>4 DEF DueInv

LEMMA ScanDue ==
    ASSUME DueInv, NEW a, NEW bad, Scan(a, bad)
    PROVE  DueInv'
<1>1. /\ Labelled(dev, dev.status) /\ output \in [Conn -> Outputs] /\ due \subseteq Conn
      /\ \A c \in Conn : ~Connected(dev, c) => output[c] = NoOutput
      /\ \A c \in due : output[c].enabled /\ (output[c].idle_frame \/ output[c].frame_pending)
  BY DEF DueInv
<1> DEFINE gone == {c \in Conn : Connected(dev, c) /\ (c \in bad \/ c \notin plugged)}
           new(d) == {c \in plugged : ~Connected(d, c)}
           st(d) == [c \in Conn |-> IF c \in new(d) THEN "connected" ELSE d.status[c]]
           fresh(d, c) == [NoOutput EXCEPT !.enabled = d.crtc[c] # None]
           left == [c \in Conn |-> IF c \in gone THEN "disconnected" ELSE dev.status[c]]
<1>2. PICK d \in DestroyOutputs(dev, gone, a) :
        /\ dev' = [d EXCEPT !.status = st(d)]
        /\ output' = [c \in Conn |-> IF c \in new(d) THEN fresh(d, c)
                                     ELSE IF c \in gone THEN NoOutput ELSE output[c]]
        /\ due' = due \ gone
  BY DEF Scan
<1> HIDE DEF gone
<1>3. Labelled(d, left)
  BY <1>1, DestroyLabelled
<1>4. \A c \in Conn : Connected(d, c) <=> c \notin gone /\ Connected(dev, c)
  BY <1>3 DEF Labelled, Connected
<1>5. Labelled(dev', st(d))
  BY <1>2, <1>3 DEF Labelled
<1>6. \A c \in Conn : ~Connected(dev', c) => c \notin new(d) /\ ~Connected(d, c)
  BY <1>5 DEF Labelled, Connected
<1>7. \A c \in Conn : fresh(d, c) \in Outputs
  BY DEF NoOutput, Outputs
<1>8. NoOutput \in Outputs /\ ~NoOutput.enabled
  BY DEF NoOutput, Outputs
<1>9. \A c \in new(d) : ~Connected(d, c)
  OBVIOUS
<1> HIDE DEF new, st, fresh, left
<1>10. output' \in [Conn -> Outputs]
  BY <1>1, <1>2, <1>7, <1>8
<1>11. \A c \in Conn : output'[c] = IF c \in new(d) THEN fresh(d, c)
                                    ELSE IF c \in gone THEN NoOutput ELSE output[c]
  BY <1>2
<1>12. \A c \in Conn : ~Connected(dev', c) => output'[c] = NoOutput
  BY <1>1, <1>4, <1>6, <1>11
<1>13. ASSUME NEW c \in due \ gone PROVE output'[c] = output[c]
  <2>1. c \in Conn /\ Connected(dev, c)
    BY <1>1, <1>8
  <2> QED
    BY <1>4, <1>9, <1>11, <2>1
<1>14. Labelled(dev', dev'.status)
  BY <1>5 DEF Labelled
<1> QED
  BY <1>1, <1>2, <1>10, <1>12, <1>13, <1>14 DEF DueInv

LEMMA NextDue ==
    ASSUME DueInv, [DrmNext]_DrmVars
    PROVE  DueInv'
<1> USE DEF DueInv
<1>1. CASE UNCHANGED DrmVars
  BY <1>1 DEF DrmVars
<1> HIDE DEF DueInv
<1>2. ASSUME NEW c \in Conn, NEW fb, NEW modeset, CommitOn(c, fb, modeset) PROVE DueInv'
  BY <1>2, CommitOnDue
<1>3. ASSUME NEW c \in Conn, CommitOff(c) PROVE DueInv'
  BY <1>3, CommitOffDue
<1>4. ASSUME NEW off \in SUBSET Conn, NEW conns \in SUBSET (Conn \ off),
             NEW on \in [conns -> Unused], CommitDevice(on, off)
      PROVE  DueInv'
  BY <1>4, CommitDeviceDue
<1>5. ASSUME NEW c \in Conn, TestOn(c) PROVE DueInv'
  <2>1. Labelled(dev', dev.status)
    BY <1>5, AllocLabelled DEF DueInv, TestOn
  <2> QED
    BY <1>5, <2>1, DeviceDue DEF TestOn
<1>6. ASSUME NEW k \in Crtc, VBlank(k) \/ OtherSession(k) PROVE DueInv'
  <2>1. Labelled(dev, dev.status)
    BY DEF DueInv
  <2>2. VBlank(k) => Labelled(dev', dev.status)
    BY <2>1, KernelLabelled DEF VBlank
  <2>3. OtherSession(k) => Labelled(dev', dev.status)
    BY <2>1 DEF OtherSession, Labelled
  <2> QED
    BY <1>6, <2>2, <2>3, DeviceDue DEF VBlank, OtherSession
<1>7. ASSUME NEW k \in Crtc, handle_page_flip(k) PROVE DueInv'
  BY <1>7, PageFlipDue
<1>8. ASSUME NEW c \in Scheduling, ScheduleFrame(c) \/ IdleFrame(c) PROVE DueInv'
  <2>1. c \in Conn
    BY DrmAssumption
  <2> QED
    BY <1>8, <2>1, FrameDue
<1>9. ASSUME NEW c \in Pluggable, Hotplug(c) PROVE DueInv'
  BY <1>9 DEF Hotplug, DueInv
<1>10. CASE SessionPause
  BY <1>10, PauseDue
<1>11. CASE SessionResume
  BY <1>11, ScanDue DEF SessionResume
<1>12. ASSUME NEW bad, HandleDevChange(bad) PROVE DueInv'
  BY <1>12, ScanDue DEF HandleDevChange
<1> QED
  <2>1. CASE DrmNext
    <3>1. Step
      BY <2>1 DEF DrmNext
    <3> QED
      BY <1>2, <1>3, <1>4, <1>5, <1>6, <1>7, <1>8, <1>9, <1>10, <1>11, <1>12, <3>1 DEF Step
  <2> QED
    BY <1>1, <2>1

-----------------------------------------------------------------------------
(***************************************************************************)
(* The theorems.  All but ScheduledFramesKept are about the atomic         *)
(* interface and a kernel that turns a CRTC off when it is told to.        *)
(***************************************************************************)

(* The device's state stays in order (Good) and the outputs find what they  *)
(* expect of it (Meets), through commits, page-flip events, CRTC allocation *)
(* (realloc_crtcs), hotplug (scan_drm_connectors) and session switches      *)
(* (handle_session_active).                                                 *)
THEOREM DrmInvariant == Atomic /\ DrmSpec => []DrmInv
<1>1. Atomic /\ DrmInv /\ [DrmNext]_DrmVars => DrmInv'
  BY NextInv
<1> QED
  <2> SUFFICES ASSUME Atomic PROVE DrmSpec => []DrmInv
    OBVIOUS
  <2>1. DrmInv /\ [DrmNext]_DrmVars => DrmInv'
    BY <1>1
  <2> QED
    BY InitInv, <2>1, PTL DEF DrmSpec

(* Each variable keeps its type. *)
THEOREM DrmTyped == Atomic /\ DrmSpec => []DrmTypeOK
<1> SUFFICES ASSUME Atomic PROVE DrmSpec => []DrmTypeOK
  OBVIOUS
<1>1. DrmInv => DrmTypeOK
  BY DEF DrmInv, Ok, Good, DrmTypeOK
<1>2. DrmSpec => []DrmInv
  BY DrmInvariant
<1> QED
  BY <1>1, <1>2, PTL

(* What is on screen, and what is about to be, is held by queued_fb or      *)
(* current_fb, so that wlr_swapchain_acquire never hands it out to be       *)
(* rendered into (drm_connector_apply_commit, handle_page_flip).            *)
THEOREM ScreenBuffersHeld == Atomic /\ DrmSpec => []ScanoutHeld
<1> SUFFICES ASSUME Atomic PROVE DrmSpec => []ScanoutHeld
  OBVIOUS
<1>1. DrmInv => ScanoutHeld
  <2> SUFFICES ASSUME DrmInv, NEW k \in Crtc
               PROVE  /\ dev.hw[k] \in Held(dev) \cup {None}
                      /\ dev.inflight[k] # <<>> => dev.inflight[k][1] \in Held(dev)
    BY DEF ScanoutHeld
  <2>1. Plane(dev)
    BY DEF DrmInv, Ok, Good
  <2>2. dev.queued[k] \in Held(dev) /\ dev.current[k] \in Held(dev)
    BY DEF Held
  <2> QED
    BY <2>1, <2>2 DEF Plane
<1>2. DrmSpec => []DrmInv
  BY DrmInvariant
<1> QED
  BY <1>1, <1>2, PTL

LEMMA OwedIsOwes == ASSUME NEW k PROVE Owed(k) = Owes(dev, k)
BY DEF Owed, Owes, Unread, Flying, SetOf

(* An output that awaits a frame event waits for a page-flip whose event    *)
(* the kernel owes on the output's CRTC: frame_pending never stays set for  *)
(* good (output_apply_commit, drm_commit).                                  *)
THEOREM PendingFramesOwed == Atomic /\ DrmSpec => []FrameOwed
<1> SUFFICES ASSUME Atomic PROVE DrmSpec => []FrameOwed
  OBVIOUS
<1>1. DrmInv => FrameOwed
  <2> SUFFICES ASSUME DrmInv, NEW c \in Conn, Connected(dev, c), output[c].enabled, output[c].frame_pending
               PROVE  dev.flip[c] # None /\ dev.crtc[c] # None /\ dev.flip[c] \in Owed(dev.crtc[c])
    BY DEF FrameOwed
  <2>1. dev \in Devs /\ Owing(dev) /\ Meets(dev, c, output[c])
    BY DEF DrmInv, Ok, Good
  <2>2. InFlip(dev, c) /\ dev.crtc[c] # None
    BY <2>1 DEF Meets
  <2>3. dev.flip[c] \in Flip /\ dev.crtc[c] \in Crtc
    BY <2>1, <2>2, DevTyped DEF InFlip
  <2>4. \E e \in dev.flips[dev.flip[c]] : e.crtc = dev.crtc[c]
    BY <2>2 DEF InFlip
  <2>5. dev.flip[c] \in Owes(dev, dev.crtc[c])
    BY <2>1, <2>3, <2>4 DEF Owing
  <2> QED
    BY <2>2, <2>5, OwedIsOwes DEF InFlip
<1>2. DrmSpec => []DrmInv
  BY DrmInvariant
<1> QED
  BY <1>1, <1>2, PTL

(* An event the kernel owes never points to a freed page-flip, a page-flip  *)
(* lists only connectors that wait for it, and no two connectors drive one  *)
(* CRTC (drm_page_flip_pop, drm_connector_set_pending_page_flip,            *)
(* realloc_crtcs).                                                          *)
THEOREM FlipsStayOrdered == Atomic /\ DrmSpec => []FlipsOrdered
<1> SUFFICES ASSUME Atomic PROVE DrmSpec => []FlipsOrdered
  OBVIOUS
<1>1. DrmInv => FlipsOrdered
  <2> SUFFICES ASSUME DrmInv PROVE FlipsOrdered
    OBVIOUS
  <2>1. dev \in Devs /\ Owing(dev) /\ Listed(dev) /\ Excl(dev)
    BY DEF DrmInv, Ok, Good
  <2>2. ASSUME NEW k \in Crtc, NEW f \in Owed(k) PROVE Entries(dev, f, k) # {}
    <3>1. f \in Owes(dev, k)
      BY OwedIsOwes
    <3>2. f \in Flip
      BY <2>1, <3>1, InflightTyped, UnreadTyped DEF Owes, Flying
    <3> QED
      BY <2>1, <3>1, <3>2 DEF Owing, Entries
  <2> QED
    BY <2>1, <2>2 DEF FlipsOrdered, FlipsAgree, CrtcExclusive, Listed, Excl
<1>2. DrmSpec => []DrmInv
  BY DrmInvariant
<1> QED
  BY <1>1, <1>2, PTL

(* A frame that was scheduled is delivered by an idle callback or a         *)
(* page-flip, whatever is committed, refused or switched in between, unless *)
(* a commit with a buffer fails (wlr_output_schedule_frame); on the legacy  *)
(* interface too.                                                           *)
THEOREM ScheduledFramesKept == DrmSpec => []ScheduledFrameKept
<1>1. DrmInit => DueInv
  BY DEF DrmInit, DueInv, Labelled, NoOutput, Outputs
<1>2. DueInv /\ [DrmNext]_DrmVars => DueInv'
  BY NextDue
<1>3. DueInv => ScheduledFrameKept
  BY DEF DueInv, ScheduledFrameKept
<1> QED
  BY <1>1, <1>2, <1>3, PTL DEF DrmSpec

(* An output that is enabled and stays enabled keeps its CRTC: realloc_crtcs *)
(* takes none from it, whatever another output asks for, and a replugged     *)
(* connector is only enabled at once if it had kept its own.                 *)
THEOREM CrtcsKept == Atomic /\ DrmSpec => CrtcKept
<1> SUFFICES ASSUME Atomic PROVE DrmSpec => CrtcKept
  OBVIOUS
<1>1. DrmInv /\ [DrmNext]_DrmVars
        => [\A c \in Conn :
              Connected(dev, c) /\ output[c].enabled /\ Connected(dev', c) /\ output'[c].enabled
                => dev'.crtc[c] = dev.crtc[c]]_DrmVars
  BY NextInv DEF Keeps
<1>2. DrmSpec => []DrmInv
  BY DrmInvariant
<1> QED
  BY <1>1, <1>2, PTL DEF DrmSpec, CrtcKept
=============================================================================
