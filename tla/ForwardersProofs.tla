--------------------------- MODULE ForwardersProofs ---------------------------
(***************************************************************************)
(* Proofs about Forwarders, for any layers, widths of the counters and     *)
(* packets: a forwarder implements OneStream, and the IDs it writes keep   *)
(* the distances and the order of the frames.                              *)
(***************************************************************************)
EXTENDS Forwarders, TLAPS

\* The fields that the packets of a stream have, and the IDs such packets may have.
FieldsOf(s) == CASE s = "audio" -> {"seqnum"}
                 [] s # "audio" /\ Header[s] = "vp8" ->
                       {"seqnum", "timestamp", "picture_id", "tl0_pic_idx"}
                 [] OTHER -> {"seqnum", "timestamp", "frame_number"}

IdsOf(s) == {ids \in OptIds : \A f \in IdFields : ids[f] # None <=> f \in FieldsOf(s)}

\* The short IDs are short.
Short(ids) == \A f \in IdFields : f # "seqnum" /\ ids[f] # None => ids[f] < Cycle(f)
------------------------------------------------------------------------------
(* Division by the length of a cycle.                                      *)

LEMMA DivMod ==
    ASSUME NEW C \in Nat, C > 0, NEW z \in Int
    PROVE  z = C * (z \div C) + (z % C) /\ z % C \in 0..(C - 1) /\ z \div C \in Int
<1>1. z = C * (z \div C) + (z % C)
  OBVIOUS
<1>2. z % C \in 0..(C - 1)
  OBVIOUS
<1>3. z \div C \in Int
  OBVIOUS
<1> QED BY <1>1, <1>2, <1>3

LEMMA SmallMultiple ==
    ASSUME NEW C \in Nat, C > 0, NEW d \in Int, C * d > -C, C * d < C
    PROVE  d = 0
OBVIOUS

LEMMA Distribute ==
    ASSUME NEW C \in Int, NEW x \in Int, NEW y \in Int, NEW z \in Int
    PROVE  C * (x + y - z) = C * x + C * y - C * z
OBVIOUS

LEMMA SameRemainder ==
    ASSUME NEW C \in Nat, C > 0, NEW k \in Int, NEW u \in Int, NEW w \in Int,
           NEW r \in 0..(C - 1), NEW t \in 0..(C - 1), C * k + (C * u + r) = C * w + t
    PROVE  r = t
<1> DEFINE d == k + u - w
<1>1. C * d = C * k + C * u - C * w
  BY Distribute
<1>2. C * k \in Int /\ C * u \in Int /\ C * w \in Int /\ d \in Int
  OBVIOUS
<1> HIDE DEF d
<1>3. C * d = t - r
  BY <1>1, <1>2
<1>4. d = 0
  BY <1>2, <1>3, SmallMultiple
<1> QED BY <1>3, <1>4

LEMMA WholeCycles ==
    ASSUME NEW C \in Nat, C > 0, NEW z \in Int, NEW k \in Int
    PROVE  (C * k + z) % C = z % C
<1> DEFINE y == C * k + z
<1>1. y \in Int
  OBVIOUS
<1>2. PICK u \in Int, r \in 0..(C - 1) : z = C * u + r /\ z % C = r
  BY DivMod
<1>3. y = C * k + (C * u + r)
  BY <1>2
<1> HIDE DEF y
<1>4. PICK w \in Int, t \in 0..(C - 1) : y = C * w + t /\ y % C = t
  BY <1>1, DivMod
<1>5. C * k + (C * u + r) = C * w + t
  BY <1>3, <1>4
<1>6. r = t
  BY <1>5, SameRemainder
<1> QED BY <1>2, <1>4, <1>6 DEF y

LEMMA CycleFacts == \A f \in IdFields : Cycle(f) \in Nat /\ Cycle(f) > 1
BY WidthAssumption
------------------------------------------------------------------------------
(* The operations on IDs.                                                  *)

\* expand_truncated_counter adds whole cycles, and none to the largest number itself.
LEMMA ExpandFacts ==
    ASSUME NEW f \in IdFields, NEW t \in Nat, NEW m \in Nat
    PROVE  /\ \E q \in Nat : Expand(t, m, f) = t + Cycle(f) * q
           /\ Expand(t, m, f) \in Nat
           /\ t < Cycle(f) => Expand(t, t, f) = t
<1> DEFINE C == Cycle(f)
<1>1. C \in Nat /\ C > 1
  BY CycleFacts
<1> HIDE DEF C
<1>2. m \div C \in Nat /\ m % C \in Nat /\ C \div 2 \in Nat
  BY <1>1
<1> DEFINE E(x, roc, tmax, half) == C * (CASE tmax - x > half            -> roc + 1
                                           [] roc > 0 /\ x - tmax > half -> roc - 1
                                           [] OTHER                      -> roc) + x
<1>3. \A x, y : Expand(x, y, f) = E(x, y \div C, y % C, C \div 2)
  BY DEF Expand, C
<1>4. ASSUME NEW roc \in Nat, NEW tmax \in Nat, NEW half \in Nat
      PROVE  \E q \in Nat : E(t, roc, tmax, half) = t + C * q
  <2>1. \A q \in Nat : C * q + t = t + C * q
    BY <1>1
  <2>2. CASE tmax - t > half
    <3>1. E(t, roc, tmax, half) = C * (roc + 1) + t
      BY <2>2
    <3> QED BY <2>1, <3>1
  <2>3. CASE ~(tmax - t > half) /\ roc > 0 /\ t - tmax > half
    <3>1. E(t, roc, tmax, half) = C * (roc - 1) + t /\ roc - 1 \in Nat
      BY <2>3
    <3> QED BY <2>1, <3>1
  <2>4. CASE ~(tmax - t > half) /\ ~(roc > 0 /\ t - tmax > half)
    <3>1. E(t, roc, tmax, half) = C * roc + t
      BY <2>4
    <3> QED BY <2>1, <3>1
  <2> QED BY <2>2, <2>3, <2>4
<1> HIDE DEF E
<1>5. PICK q \in Nat : Expand(t, m, f) = t + C * q
  <2>1. PICK a, b, c \in Nat : Expand(t, m, f) = E(t, a, b, c)
    BY <1>2, <1>3
  <2>2. \E q \in Nat : E(t, a, b, c) = t + C * q
    BY <1>4
  <2> QED BY <2>1, <2>2
<1>6. Expand(t, m, f) \in Nat
  <2>1. C * q \in Nat
    BY <1>1
  <2> QED BY <1>5, <2>1
<1>7. ASSUME t < C PROVE Expand(t, t, f) = t
  <2>1. t \div C = 0 /\ t % C = t
    BY <1>1, <1>7
  <2>2. Expand(t, t, f) = E(t, 0, t, C \div 2)
    BY <1>3, <2>1
  <2> QED BY <1>1, <1>2, <2>2 DEF E
<1> QED BY <1>5, <1>6, <1>7 DEF C

LEMMA IdsFacts ==
    ASSUME NEW s \in Ssrcs \cup {"audio"}, NEW ids \in IdsOf(s)
    PROVE  /\ ids \in OptIds
           /\ \A f \in IdFields : f \notin FieldsOf(s) => ids[f] = None
           /\ FieldsOf(s) \subseteq IdFields /\ "seqnum" \in FieldsOf(s)
           /\ \A f \in FieldsOf(s) : ids[f] \in Nat /\ ids[f] # None
<1>1. /\ ids \in OptIds
      /\ \A f \in IdFields : ids[f] # None <=> f \in FieldsOf(s)
  BY DEF IdsOf
<1>2. FieldsOf(s) \subseteq IdFields /\ "seqnum" \in FieldsOf(s)
  BY DEF FieldsOf, IdFields
<1>3. \A f \in IdFields : ids[f] \in Nat \cup {None}
  BY <1>1 DEF OptIds
<1> QED BY <1>1, <1>2, <1>3

LEMMA ExpandIdsFacts ==
    ASSUME NEW s \in Ssrcs \cup {"audio"}, NEW ids \in IdsOf(s), NEW max \in IdsOf(s)
    PROVE  /\ ExpandIds(ids, max) \in IdsOf(s)
           /\ ExpandIds(ids, max)["seqnum"] = ids["seqnum"]
           /\ \A f \in FieldsOf(s) : \E q \in Int : ExpandIds(ids, max)[f] = ids[f] + Cycle(f) * q
           /\ Short(ids) => ExpandIds(ids, ids) = ids
<1> DEFINE x == ExpandIds(ids, max)
<1>1. /\ ids \in OptIds /\ FieldsOf(s) \subseteq IdFields /\ "seqnum" \in FieldsOf(s)
      /\ \A f \in FieldsOf(s) : ids[f] \in Nat /\ ids[f] # None /\ max[f] \in Nat /\ max[f] # None
      /\ \A f \in IdFields : f \notin FieldsOf(s) => ids[f] = None /\ max[f] = None
  BY IdsFacts
<1>2. /\ x = [f \in IdFields |-> x[f]]
      /\ \A f \in IdFields : x[f] = IF f = "seqnum" THEN ids[f]
                                    ELSE IF Both(ids, max, f) THEN Expand(ids[f], max[f], f)
                                    ELSE None
  BY DEF ExpandIds
<1> HIDE DEF x
<1>3. \A f \in FieldsOf(s) : f # "seqnum" => x[f] = Expand(ids[f], max[f], f)
  BY <1>1, <1>2 DEF Both
<1>4. \A f \in IdFields : f \notin FieldsOf(s) => x[f] = None
  BY <1>1, <1>2 DEF Both
<1>5. \A f \in FieldsOf(s) : x[f] \in Nat
  BY <1>1, <1>2, <1>3, ExpandFacts
<1>6. x \in IdsOf(s)
  BY <1>1, <1>2, <1>4, <1>5, NoneAssumption DEF IdsOf, OptIds
<1>7. x["seqnum"] = ids["seqnum"]
  BY <1>1, <1>2
<1>8. ASSUME NEW f \in FieldsOf(s)
      PROVE  \E q \in Int : x[f] = ids[f] + Cycle(f) * q
  <2>1. CASE f = "seqnum"
    <3>1. x[f] = ids[f] + Cycle(f) * 0
      BY <1>1, <1>7, <2>1, CycleFacts
    <3> QED BY <3>1
  <2>2. CASE f # "seqnum"
    <3>1. PICK q \in Nat : Expand(ids[f], max[f], f) = ids[f] + Cycle(f) * q
      BY <1>1, ExpandFacts
    <3> QED BY <1>3, <2>2, <3>1
  <2> QED BY <2>1, <2>2
<1>9. ASSUME Short(ids) PROVE ExpandIds(ids, ids) = ids
  <2>1. \A f \in FieldsOf(s) : f # "seqnum" => Expand(ids[f], ids[f], f) = ids[f]
    BY <1>1, <1>9, ExpandFacts DEF Short
  <2>2. \A f \in IdFields : (IF f = "seqnum" THEN ids[f]
                             ELSE IF Both(ids, ids, f) THEN Expand(ids[f], ids[f], f)
                             ELSE None) = ids[f]
    BY <1>1, <2>1 DEF Both
  <2> QED BY <1>1, <2>2 DEF ExpandIds, OptIds
<1> QED BY <1>6, <1>7, <1>8, <1>9 DEF x

LEMMA SubFacts ==
    ASSUME NEW s \in Ssrcs \cup {"audio"}, NEW a \in IdsOf(s), NEW b \in IdsOf(s)
    PROVE  /\ CheckedSub(a, a) # None
           /\ CheckedSub(a, b) # None =>
                 /\ CheckedSub(a, b) \in IdsOf(s)
                 /\ \A f \in FieldsOf(s) : a[f] >= b[f] /\ CheckedSub(a, b)[f] = a[f] - b[f]
<1>1. /\ FieldsOf(s) \subseteq IdFields
      /\ \A f \in FieldsOf(s) : a[f] \in Nat /\ a[f] # None /\ b[f] \in Nat /\ b[f] # None
      /\ \A f \in IdFields : f \notin FieldsOf(s) => a[f] = None /\ b[f] = None
  BY IdsFacts
<1>2. ASSUME NEW c \in IdsOf(s), ~\E f \in IdFields : Both(a, c, f) /\ a[f] < c[f]
      PROVE  /\ CheckedSub(a, c) \in IdsOf(s)
             /\ \A f \in FieldsOf(s) : a[f] >= c[f] /\ CheckedSub(a, c)[f] = a[f] - c[f]
  <2> DEFINE d == [f \in IdFields |-> IF Both(a, c, f) THEN a[f] - c[f] ELSE None]
  <2>1. CheckedSub(a, c) = d
    BY <1>2 DEF CheckedSub
  <2>2. /\ \A f \in FieldsOf(s) : c[f] \in Nat /\ c[f] # None
        /\ \A f \in IdFields : f \notin FieldsOf(s) => c[f] = None
    BY IdsFacts
  <2>3. \A f \in FieldsOf(s) : a[f] >= c[f]
    BY <1>1, <1>2, <2>2 DEF Both
  <2>4. \A f \in FieldsOf(s) : d[f] = a[f] - c[f] /\ d[f] \in Nat
    BY <1>1, <2>2, <2>3 DEF Both
  <2>5. \A f \in IdFields : f \notin FieldsOf(s) => d[f] = None
    BY <1>1 DEF Both
  <2>6. d = [f \in IdFields |-> d[f]]
    OBVIOUS
  <2> HIDE DEF d
  <2>7. d \in IdsOf(s)
    BY <1>1, <2>4, <2>5, <2>6, NoneAssumption DEF IdsOf, OptIds
  <2> QED BY <2>1, <2>3, <2>4, <2>7
<1>3. CheckedSub(a, a) # None
  <2>1. ~\E f \in IdFields : Both(a, a, f) /\ a[f] < a[f]
    BY <1>1 DEF Both
  <2> QED BY <1>2, <2>1, NoneAssumption DEF IdsOf
<1>4. CheckedSub(a, b) # None => ~\E f \in IdFields : Both(a, b, f) /\ a[f] < b[f]
  BY DEF CheckedSub
<1> QED BY <1>2, <1>3, <1>4

LEMMA AddFacts ==
    ASSUME NEW s \in Ssrcs \cup {"audio"}, NEW a \in [IdFields -> Nat], NEW b \in IdsOf(s)
    PROVE  /\ CheckedAdd(a, b) \in IdsOf(s)
           /\ \A f \in FieldsOf(s) : CheckedAdd(a, b)[f] = a[f] + b[f]
<1> DEFINE d == CheckedAdd(a, b)
<1>1. /\ FieldsOf(s) \subseteq IdFields
      /\ \A f \in FieldsOf(s) : b[f] \in Nat /\ b[f] # None
      /\ \A f \in IdFields : f \notin FieldsOf(s) => b[f] = None
  BY IdsFacts
<1>2. \A f \in IdFields : a[f] \in Nat /\ a[f] # None
  BY NoneAssumption
<1>3. /\ d = [f \in IdFields |-> d[f]]
      /\ \A f \in IdFields : d[f] = IF Both(a, b, f) THEN a[f] + b[f] ELSE None
  BY DEF CheckedAdd
<1> HIDE DEF d
<1>4. \A f \in FieldsOf(s) : d[f] = a[f] + b[f] /\ d[f] \in Nat
  BY <1>1, <1>2, <1>3 DEF Both
<1>5. \A f \in IdFields : f \notin FieldsOf(s) => d[f] = None
  BY <1>1, <1>3 DEF Both
<1>6. d \in IdsOf(s)
  BY <1>1, <1>3, <1>4, <1>5, NoneAssumption DEF IdsOf, OptIds
<1> QED BY <1>4, <1>6 DEF d

LEMMA MaxFacts ==
    ASSUME NEW s \in Ssrcs \cup {"audio"}, NEW a \in [IdFields -> Nat], NEW b \in IdsOf(s)
    PROVE  /\ MaxIds(a, b) \in [IdFields -> Nat]
           /\ \A f \in IdFields : MaxIds(a, b)[f] >= a[f]
           /\ \A f \in FieldsOf(s) : MaxIds(a, b)[f] >= b[f]
<1> DEFINE d == MaxIds(a, b)
<1>1. /\ FieldsOf(s) \subseteq IdFields
      /\ \A f \in FieldsOf(s) : b[f] \in Nat /\ b[f] # None
      /\ \A f \in IdFields : f \notin FieldsOf(s) => b[f] = None
  BY IdsFacts
<1>2. \A f \in IdFields : a[f] \in Nat /\ a[f] # None
  BY NoneAssumption
<1>3. /\ d = [f \in IdFields |-> d[f]]
      /\ \A f \in IdFields : d[f] = CASE a[f] = None -> b[f]
                                      [] b[f] = None -> a[f]
                                      [] OTHER       -> Larger(a[f], b[f])
  BY DEF MaxIds
<1> HIDE DEF d
<1>4. \A f \in FieldsOf(s) : d[f] = Larger(a[f], b[f])
  BY <1>1, <1>2, <1>3
<1>5. \A f \in IdFields : f \notin FieldsOf(s) => d[f] = a[f]
  BY <1>1, <1>2, <1>3
<1>6. \A f \in FieldsOf(s) : d[f] \in Nat /\ d[f] >= a[f] /\ d[f] >= b[f]
  BY <1>1, <1>2, <1>4 DEF Larger
<1> QED BY <1>2, <1>3, <1>5, <1>6 DEF d
------------------------------------------------------------------------------
(* The packets of a sender.                                                *)

LEMMA PacketIdsFacts ==
    ASSUME NEW s \in Ssrcs, NEW k \in Nat
    PROVE  /\ PacketIds(s, k) \in IdsOf(s) /\ Short(PacketIds(s, k))
           /\ PacketIds(s, k)["seqnum"] = FirstIds[s]["seqnum"] + k
<1> DEFINE x == PacketIds(s, k)
<1>1. /\ s # "audio" /\ Header[s] \in {"vp8", "dd"}
      /\ \A f \in IdFields : FirstIds[s][f] \in Nat
  BY ForwardersAssumption
<1>2. \A f \in IdFields, z \in Nat : z % Cycle(f) \in Nat /\ z % Cycle(f) < Cycle(f)
  BY CycleFacts
<1>3. k \div 2 \in Nat
  OBVIOUS
<1>4. \A f \in IdFields : FirstIds[s][f] + k \in Nat /\ FirstIds[s][f] + k \div 2 \in Nat
  BY <1>1, <1>3
<1>5. /\ x = [f \in IdFields |-> x[f]]
      /\ x["seqnum"] = FirstIds[s]["seqnum"] + k
      /\ x["timestamp"] = (FirstIds[s]["timestamp"] + k) % Cycle("timestamp")
      /\ Header[s] = "vp8" =>
            /\ x["tl0_pic_idx"] = (FirstIds[s]["tl0_pic_idx"] + k \div 2) % Cycle("tl0_pic_idx")
            /\ x["picture_id"] = (FirstIds[s]["picture_id"] + k) % Cycle("picture_id")
            /\ x["frame_number"] = None
      /\ Header[s] = "dd" =>
            /\ x["tl0_pic_idx"] = None /\ x["picture_id"] = None
            /\ x["frame_number"] = (FirstIds[s]["frame_number"] + k) % Cycle("frame_number")
  BY DEF PacketIds, IdFields
<1> HIDE DEF x
<1>6. \A f \in IdFields : f \in FieldsOf(s) =>
         x[f] \in Nat /\ (f # "seqnum" => x[f] < Cycle(f))
  BY <1>1, <1>2, <1>4, <1>5 DEF FieldsOf, IdFields
<1>7. \A f \in IdFields : f \notin FieldsOf(s) => x[f] = None
  BY <1>1, <1>5 DEF FieldsOf, IdFields
<1>8. x \in IdsOf(s) /\ Short(x)
  BY <1>5, <1>6, <1>7, NoneAssumption DEF IdsOf, OptIds, Short
<1> QED BY <1>5, <1>8 DEF x
------------------------------------------------------------------------------
(* What one packet does to a forwarder.                                    *)

Vp8Forwarders == [forwarding : Forwardings \cup {None}, switching : Ssrcs \cup {None},
                  max_outgoing : [IdFields -> Nat]]

\* The IDs of the key frame and the largest ones are IDs of the layer forwarded.
ForwarderOK(v) ==
    /\ v \in Vp8Forwarders
    /\ v.forwarding # None =>
          /\ v.forwarding.first_incoming \in IdsOf(v.forwarding.incoming_ssrc)
          /\ v.forwarding.max_incoming \in IdsOf(v.forwarding.incoming_ssrc)

SameSegment(w, x) == /\ x.incoming_ssrc = w.incoming_ssrc
                     /\ x.first_incoming = w.first_incoming
                     /\ x.first_outgoing = w.first_outgoing

\* x and y are whole cycles apart.
CyclesApart(x, y, C) == \E q \in Int : x = y + C * q

\* An outgoing number counts from the one of the key frame.
Shifted(in, out, fi, fo, f) == /\ out[f] >= fo[f]
                               /\ CyclesApart(out[f], fo[f] - fi[f] + in[f], Cycle(f))

\* A packet p goes out with IDs out, and the forwarder v becomes u.
Sends(v, u, p, out) ==
    LET w == u.forwarding IN
    /\ w # None /\ w.incoming_ssrc = p.ssrc
    /\ out \in IdsOf(p.ssrc)
    /\ p.ids["seqnum"] >= w.first_incoming["seqnum"]
    /\ out["seqnum"] = p.ids["seqnum"] + (w.first_outgoing["seqnum"] - w.first_incoming["seqnum"])
    /\ \A f \in FieldsOf(p.ssrc) : /\ Shifted(p.ids, out, w.first_incoming, w.first_outgoing, f)
                                   /\ out[f] <= u.max_outgoing[f]
    /\ \A f \in IdFields : v.max_outgoing[f] <= u.max_outgoing[f]

\* Nothing goes out and the segment stays.
Drops(v, u) ==
    /\ u.max_outgoing = v.max_outgoing
    /\ u.forwarding = None <=> v.forwarding = None
    /\ v.forwarding # None => SameSegment(v.forwarding, u.forwarding)

LEMMA RewriteEffect ==
    ASSUME NEW v, ForwarderOK(v), NEW p, p.ssrc \in Ssrcs, p.ids \in IdsOf(p.ssrc),
           p.key \in BOOLEAN, v.forwarding # None, v.forwarding.incoming_ssrc = p.ssrc
    PROVE  LET r == Rewrite(v, p) IN
           /\ ForwarderOK(r.fwd) /\ r.fwd.forwarding # None
           /\ SameSegment(v.forwarding, r.fwd.forwarding)
           /\ r.out = None => Drops(v, r.fwd)
           /\ r.out # None => Sends(v, r.fwd, p, r.out)
           /\ ( /\ Short(p.ids) /\ v.forwarding.first_incoming = p.ids
                /\ v.forwarding.max_incoming = p.ids ) => r.out # None
<1> DEFINE r == Rewrite(v, p)
           w == v.forwarding
           s == p.ssrc
           incoming == ExpandIds(p.ids, w.max_incoming)
           max == [f \in IdFields |->
                      IF f = "seqnum" \/ incoming[f] = None THEN w.max_incoming[f]
                      ELSE Larger(w.max_incoming[f], incoming[f])]
           offset == CheckedSub(incoming, w.first_incoming)
           kept == [incoming_ssrc |-> s, needs_key_frame |-> w.needs_key_frame,
                    first_incoming |-> w.first_incoming, first_outgoing |-> w.first_outgoing,
                    max_incoming |-> max]
           next == [kept EXCEPT !.needs_key_frame = @ /\ ~p.key]
           out == CheckedAdd(w.first_outgoing, offset)
           sum == MaxIds(v.max_outgoing, out)
<1>1. /\ v = [forwarding |-> w, switching |-> v.switching, max_outgoing |-> v.max_outgoing]
      /\ v.switching \in Ssrcs \cup {None} /\ v.max_outgoing \in [IdFields -> Nat]
      /\ w \in Forwardings /\ w.incoming_ssrc = s
      /\ w.first_incoming \in IdsOf(s) /\ w.max_incoming \in IdsOf(s)
  BY DEF ForwarderOK, Vp8Forwarders
<1>2. /\ w = [incoming_ssrc |-> s, needs_key_frame |-> w.needs_key_frame,
              first_incoming |-> w.first_incoming, first_outgoing |-> w.first_outgoing,
              max_incoming |-> w.max_incoming]
      /\ w.needs_key_frame \in BOOLEAN /\ w.first_outgoing \in [IdFields -> Nat]
      /\ w.first_incoming \in OptIds
  BY <1>1 DEF Forwardings
<1>3. kept = [w EXCEPT !.max_incoming = max]
  <2> HIDE DEF max, w, s
  <2> QED BY <1>2
<1>4. r = IF offset = None THEN [fwd |-> [v EXCEPT !.forwarding = kept], out |-> None]
          ELSE [fwd |-> [forwarding |-> next, switching |-> v.switching,
                         max_outgoing |-> sum], out |-> out]
  BY <1>3 DEF Rewrite
<1>5. /\ incoming \in IdsOf(s) /\ incoming["seqnum"] = p.ids["seqnum"]
      /\ \A f \in FieldsOf(s) : \E q \in Int : incoming[f] = p.ids[f] + Cycle(f) * q
      /\ Short(p.ids) => ExpandIds(p.ids, p.ids) = p.ids
  BY <1>1, ExpandIdsFacts DEF s
<1> HIDE DEF incoming
<1>6. max \in IdsOf(s)
  <2>1. /\ \A f \in FieldsOf(s) : w.max_incoming[f] \in Nat /\ incoming[f] \in Nat
        /\ \A f \in IdFields : f \notin FieldsOf(s) => w.max_incoming[f] = None /\ incoming[f] = None
    BY <1>1, <1>5, IdsFacts
  <2>2. \A f \in FieldsOf(s) : f \in IdFields => max[f] \in Nat
    BY <2>1 DEF Larger
  <2>3. \A f \in IdFields : f \notin FieldsOf(s) => max[f] = None
    BY <2>1
  <2>4. max = [f \in IdFields |-> max[f]]
    OBVIOUS
  <2> HIDE DEF max
  <2> QED BY <2>2, <2>3, <2>4, NoneAssumption DEF IdsOf, OptIds
<1> HIDE DEF max
<1>7. max \in OptIds
  BY <1>6 DEF IdsOf
<1>8. kept \in Forwardings /\ next \in Forwardings
  <2>1. \A b \in BOOLEAN : [incoming_ssrc |-> s, needs_key_frame |-> b,
                            first_incoming |-> w.first_incoming,
                            first_outgoing |-> w.first_outgoing, max_incoming |-> max]
                           \in Forwardings
    <3> HIDE DEF w
    <3> QED BY <1>2, <1>7 DEF Forwardings
  <2>2. (w.needs_key_frame /\ ~p.key) \in BOOLEAN
    BY <1>2
  <2>3. next = [incoming_ssrc |-> s, needs_key_frame |-> w.needs_key_frame /\ ~p.key,
                first_incoming |-> w.first_incoming,
                first_outgoing |-> w.first_outgoing, max_incoming |-> max]
    OBVIOUS
  <2> HIDE DEF w, s, next
  <2> QED BY <1>2, <2>1, <2>2, <2>3
<1>9. /\ SameSegment(w, kept) /\ SameSegment(w, next)
      /\ kept.incoming_ssrc = s /\ next.incoming_ssrc = s
      /\ kept.first_incoming = w.first_incoming /\ next.first_incoming = w.first_incoming
      /\ kept.first_outgoing = w.first_outgoing /\ next.first_outgoing = w.first_outgoing
      /\ kept.max_incoming = max /\ next.max_incoming = max
  BY <1>1 DEF SameSegment
<1>10. kept # None /\ next # None
  BY <1>8, NoneAssumption
<1> HIDE DEF kept, next
<1>11. CASE offset = None
  <2>1. r = [fwd |-> [forwarding |-> kept, switching |-> v.switching,
                      max_outgoing |-> v.max_outgoing], out |-> None]
    <3> HIDE DEF r, w, s, offset
    <3> QED BY <1>1, <1>4, <1>11
  <2>2. ForwarderOK(r.fwd) /\ r.fwd.forwarding # None /\ SameSegment(w, r.fwd.forwarding)
    <3> HIDE DEF r, w, s
    <3> QED BY <1>1, <1>6, <1>8, <1>9, <1>10, <2>1 DEF ForwarderOK, Vp8Forwarders
  <2>3. Drops(v, r.fwd)
    BY <2>1, <2>2 DEF Drops
  <2>4. ~(Short(p.ids) /\ w.first_incoming = p.ids /\ w.max_incoming = p.ids)
    BY <1>5, <1>11, SubFacts DEF incoming
  <2>5. r.out = None
    BY <2>1
  <2> HIDE DEF r
  <2> QED BY <2>2, <2>3, <2>4, <2>5 DEF r
<1>12. CASE offset # None
  <2>1. /\ offset \in IdsOf(s)
        /\ \A f \in FieldsOf(s) : /\ incoming[f] >= w.first_incoming[f]
                                  /\ offset[f] = incoming[f] - w.first_incoming[f]
    BY <1>1, <1>5, <1>12, SubFacts
  <2> HIDE DEF offset
  <2>2. out \in IdsOf(s) /\ \A f \in FieldsOf(s) : out[f] = w.first_outgoing[f] + offset[f]
    BY <1>2, <2>1, AddFacts
  <2> HIDE DEF out
  <2>3. /\ sum \in [IdFields -> Nat]
        /\ \A f \in IdFields : sum[f] >= v.max_outgoing[f]
        /\ \A f \in FieldsOf(s) : sum[f] >= out[f]
    BY <1>1, <2>2, MaxFacts
  <2> HIDE DEF sum
  <2>4. r = [fwd |-> [forwarding |-> next, switching |-> v.switching,
                      max_outgoing |-> sum], out |-> out]
    BY <1>4, <1>12
  <2>5. ForwarderOK(r.fwd) /\ r.fwd.forwarding # None /\ SameSegment(w, r.fwd.forwarding)
    <3> HIDE DEF r, w, s
    <3> QED BY <1>1, <1>6, <1>8, <1>9, <1>10, <2>3, <2>4 DEF ForwarderOK, Vp8Forwarders
  <2>6. /\ FieldsOf(s) \subseteq IdFields /\ "seqnum" \in FieldsOf(s)
        /\ \A f \in FieldsOf(s) : /\ w.first_incoming[f] \in Nat /\ incoming[f] \in Nat
                                  /\ p.ids[f] \in Nat /\ out[f] \in Nat
    BY <1>1, <1>5, <2>2, IdsFacts
  <2>7. \A f \in FieldsOf(s) : w.first_outgoing[f] \in Nat /\ v.max_outgoing[f] \in Nat
    BY <1>1, <1>2, <2>6
  <2>8. ASSUME NEW f \in FieldsOf(s)
        PROVE  Shifted(p.ids, out, w.first_incoming, w.first_outgoing, f)
    <3>1. PICK q \in Int : incoming[f] = p.ids[f] + Cycle(f) * q
      BY <1>5
    <3>2. Cycle(f) * q \in Int
      BY <2>6, CycleFacts
    <3>3. out[f] = w.first_outgoing[f] + (incoming[f] - w.first_incoming[f])
      BY <2>1, <2>2
    <3>4. out[f] >= w.first_outgoing[f]
      BY <2>1, <2>6, <2>7, <3>3
    <3>5. out[f] = w.first_outgoing[f] - w.first_incoming[f] + p.ids[f] + Cycle(f) * q
      BY <2>6, <2>7, <3>1, <3>2, <3>3
    <3> QED BY <3>4, <3>5 DEF Shifted, CyclesApart
  <2>9. /\ p.ids["seqnum"] >= w.first_incoming["seqnum"]
        /\ out["seqnum"] = p.ids["seqnum"]
                           + (w.first_outgoing["seqnum"] - w.first_incoming["seqnum"])
    BY <1>5, <2>1, <2>2, <2>6, <2>7
  <2>10. \A f \in FieldsOf(s) : out[f] <= sum[f]
    BY <2>3, <2>6
  <2>11. \A f \in IdFields : v.max_outgoing[f] <= sum[f]
    BY <1>1, <2>3
  <2>12. r.fwd.forwarding = next /\ r.fwd.max_outgoing = sum /\ r.out = out
    BY <2>4
  <2> HIDE DEF r
  <2>13. Sends(v, r.fwd, p, out)
    BY <1>9, <1>10, <2>2, <2>8, <2>9, <2>10, <2>11, <2>12 DEF Sends
  <2>14. out # None
    BY <2>2, NoneAssumption DEF IdsOf
  <2> QED BY <2>5, <2>12, <2>13, <2>14 DEF r
<1> QED BY <1>11, <1>12

\* A segment begins with a key frame, above everything sent.
Begins(v, u, p) ==
    /\ p.key /\ u.forwarding.first_incoming = p.ids
    /\ \A f \in IdFields : u.forwarding.first_outgoing[f] > v.max_outgoing[f]

Continues(v, u) == v.forwarding # None /\ SameSegment(v.forwarding, u.forwarding)

LEMMA SwitchEffect ==
    ASSUME NEW v, ForwarderOK(v), NEW p, p.ssrc \in Ssrcs, p.ids \in IdsOf(p.ssrc),
           p.key \in BOOLEAN, v.switching = p.ssrc, p.key
    PROVE  LET u == Switch(v, p) IN
           /\ ForwarderOK(u) /\ u.forwarding # None
           /\ u.forwarding.incoming_ssrc = p.ssrc
           /\ u.forwarding.first_incoming = p.ids /\ u.forwarding.max_incoming = p.ids
           /\ u.max_outgoing = u.forwarding.first_outgoing
           /\ \A f \in IdFields : u.forwarding.first_outgoing[f] > v.max_outgoing[f]
<1> DEFINE u == Switch(v, p)
           first == CheckedAdd(v.max_outgoing, SwitchGap)
           w == [incoming_ssrc |-> p.ssrc, needs_key_frame |-> FALSE,
                 first_incoming |-> p.ids, first_outgoing |-> first, max_incoming |-> p.ids]
<1>1. v.max_outgoing \in [IdFields -> Nat]
  BY DEF ForwarderOK, Vp8Forwarders
<1>2. \A f \in IdFields : /\ v.max_outgoing[f] \in Nat /\ v.max_outgoing[f] # None
                          /\ SwitchGap[f] \in {1, 2} /\ SwitchGap[f] # None
  BY <1>1, NoneAssumption DEF SwitchGap
<1>3. first \in [IdFields -> Nat] /\ \A f \in IdFields : first[f] > v.max_outgoing[f]
  BY <1>2 DEF CheckedAdd, Both
<1> HIDE DEF first
<1>4. u = [forwarding |-> w, switching |-> None, max_outgoing |-> first]
  BY DEF Switch, first
<1>5. w \in Forwardings /\ w # None
  <2>1. p.ids \in OptIds /\ FALSE \in BOOLEAN
    BY DEF IdsOf
  <2>2. w \in Forwardings
    BY <1>3, <2>1 DEF Forwardings
  <2> QED BY <2>2, NoneAssumption
<1>6. /\ w.incoming_ssrc = p.ssrc /\ w.first_incoming = p.ids /\ w.max_incoming = p.ids
      /\ w.first_outgoing = first
  OBVIOUS
<1> HIDE DEF w, u
<1>7. u \in Vp8Forwarders
  BY <1>3, <1>4, <1>5 DEF Vp8Forwarders
<1>8. u.forwarding = w /\ u.max_outgoing = first
  BY <1>4
<1>9. ForwarderOK(u)
  BY <1>6, <1>7, <1>8 DEF ForwarderOK
<1> QED BY <1>3, <1>5, <1>6, <1>8, <1>9 DEF u

\* The three things that forward_vp8_rtp can do with a packet.
LEMMA Vp8ForwardEffect ==
    ASSUME NEW v, ForwarderOK(v), NEW p, p.ssrc \in Ssrcs, p.ids \in IdsOf(p.ssrc),
           p.key \in BOOLEAN, Short(p.ids)
    PROVE  LET r == Vp8Forward(v, p) IN
           /\ ForwarderOK(r.fwd)
           /\ \/ r.out = None /\ Drops(v, r.fwd)
              \/ /\ r.out # None /\ Sends(v, r.fwd, p, r.out)
                 /\ Begins(v, r.fwd, p) \/ Continues(v, r.fwd)
<1> DEFINE r == Vp8Forward(v, p)
           u == Switch(v, p)
<1>1. CASE ~Forwardable(p)
  <2>1. r = [fwd |-> v, out |-> None]
    BY <1>1 DEF Vp8Forward
  <2>2. Drops(v, v)
    BY DEF Drops, SameSegment
  <2> QED BY <2>1, <2>2
<1>2. CASE Forwardable(p) /\ v.switching = p.ssrc /\ p.key
  <2> DEFINE x == Rewrite(u, p)
  <2>1. /\ ForwarderOK(u) /\ u.forwarding # None
        /\ u.forwarding.incoming_ssrc = p.ssrc
        /\ u.forwarding.first_incoming = p.ids /\ u.forwarding.max_incoming = p.ids
        /\ u.max_outgoing = u.forwarding.first_outgoing
        /\ \A f \in IdFields : u.forwarding.first_outgoing[f] > v.max_outgoing[f]
    BY <1>2, SwitchEffect
  <2> HIDE DEF u
  <2>2. r = x
    BY <1>2, <2>1 DEF Vp8Forward, ForwardingSsrc, u
  <2>3. /\ ForwarderOK(x.fwd) /\ x.fwd.forwarding # None
        /\ SameSegment(u.forwarding, x.fwd.forwarding)
        /\ x.out # None /\ Sends(u, x.fwd, p, x.out)
    BY <2>1, RewriteEffect
  <2> HIDE DEF x, r
  <2>4. Begins(v, x.fwd, p)
    BY <1>2, <2>1, <2>3 DEF Begins, SameSegment
  <2>5. /\ v.max_outgoing \in [IdFields -> Nat] /\ u.max_outgoing \in [IdFields -> Nat]
        /\ x.fwd.max_outgoing \in [IdFields -> Nat]
    BY <2>1, <2>3 DEF ForwarderOK, Vp8Forwarders
  <2>6. \A f \in IdFields : v.max_outgoing[f] <= x.fwd.max_outgoing[f]
    <3>1. \A f \in IdFields : /\ u.max_outgoing[f] > v.max_outgoing[f]
                              /\ u.max_outgoing[f] <= x.fwd.max_outgoing[f]
      BY <2>1, <2>3 DEF Sends
    <3> QED BY <2>5, <3>1
  <2>7. Sends(v, x.fwd, p, x.out)
    BY <2>3, <2>6 DEF Sends
  <2> QED BY <2>2, <2>3, <2>4, <2>7 DEF r
<1>3. CASE Forwardable(p) /\ ~(v.switching = p.ssrc /\ p.key) /\ ForwardingSsrc(v) # p.ssrc
  <2>1. r = [fwd |-> v, out |-> None]
    BY <1>3 DEF Vp8Forward, Switch
  <2>2. Drops(v, v)
    BY DEF Drops, SameSegment
  <2> QED BY <2>1, <2>2
<1>4. CASE Forwardable(p) /\ ~(v.switching = p.ssrc /\ p.key) /\ ForwardingSsrc(v) = p.ssrc
  <2> DEFINE x == Rewrite(v, p)
  <2>1. r = x
    BY <1>4 DEF Vp8Forward, Switch
  <2>2. v.forwarding # None /\ v.forwarding.incoming_ssrc = p.ssrc
    BY <1>4, NoneAssumption DEF ForwardingSsrc
  <2>3. /\ ForwarderOK(x.fwd) /\ x.fwd.forwarding # None
        /\ SameSegment(v.forwarding, x.fwd.forwarding)
        /\ x.out = None => Drops(v, x.fwd)
        /\ x.out # None => Sends(v, x.fwd, p, x.out)
    BY <2>2, RewriteEffect
  <2> HIDE DEF x, r
  <2> QED BY <2>1, <2>2, <2>3 DEF Continues, r
<1> QED BY <1>1, <1>2, <1>3, <1>4

\* The three things that forward_rtp of the audio and data forwarder can do.
LEMMA SingleForwardEffect ==
    ASSUME NEW s \in [first_incoming : Nat, first_outgoing : Nat, max_outgoing : Nat],
           NEW n \in Nat
    PROVE  LET r == SingleForward(s, n)
               reset == s.max_outgoing + 2
           IN  \/ r.out = None /\ r.fwd = s
               \/ /\ r.out = reset
                  /\ r.fwd = [first_incoming |-> n, first_outgoing |-> reset,
                              max_outgoing |-> reset]
               \/ /\ n >= s.first_incoming
                  /\ r.out = s.first_outgoing + n - s.first_incoming
                  /\ r.fwd = [first_incoming |-> s.first_incoming,
                              first_outgoing |-> s.first_outgoing,
                              max_outgoing |-> Larger(s.max_outgoing, r.out)]
<1> DEFINE r == SingleForward(s, n)
           reset == s.max_outgoing + 2
           out == s.first_outgoing + n - s.first_incoming
<1>1. CASE n < s.first_incoming
  BY <1>1 DEF SingleForward
<1>2. CASE ~(n < s.first_incoming) /\ out > s.max_outgoing + Cycle("seqnum") \div 2 - 1
  BY <1>2 DEF SingleForward
<1>3. CASE ~(n < s.first_incoming) /\ ~(out > s.max_outgoing + Cycle("seqnum") \div 2 - 1)
  <2>1. r = [fwd |-> [s EXCEPT !.max_outgoing = Larger(@, out)], out |-> out]
    BY <1>3 DEF SingleForward
  <2>2. n >= s.first_incoming
    BY <1>3
  <2> HIDE DEF out
  <2>3. /\ r.out = out
        /\ r.fwd = [first_incoming |-> s.first_incoming, first_outgoing |-> s.first_outgoing,
                    max_outgoing |-> Larger(s.max_outgoing, out)]
    BY <2>1
  <2> HIDE DEF r
  <2> QED BY <2>2, <2>3 DEF out, r
<1> QED BY <1>1, <1>2, <1>3
------------------------------------------------------------------------------
(* The packets sent, and the segment that is being sent.                   *)

Entry(e) == /\ e.ssrc \in Ssrcs \cup {"audio"}
            /\ e.ids \in IdsOf(e.ssrc) /\ e.out \in IdsOf(e.ssrc)
            /\ e.seg \in Nat /\ e.seg <= e.out["seqnum"]

\* No ID of a packet is above max.
Below(e, max) == \A f \in FieldsOf(e.ssrc) : e.out[f] <= max[f]

\* A packet is of the segment of s that began with fi, sent as fo, or is below it.
InSegment(e, s, fi, fo) ==
    /\ e.seg <= fo["seqnum"]
    /\ e.seg = fo["seqnum"] => /\ e.ssrc = s
                               /\ \A f \in FieldsOf(s) : Shifted(e.ids, e.out, fi, fo, f)
    /\ e.seg < fo["seqnum"] => \A f \in FieldsOf(e.ssrc) : e.out[f] < fo[f]

LEMMA Congruent ==
    ASSUME NEW C \in Nat, C > 0, NEW b \in Int, NEW u \in Int, NEW w \in Int, NEW x, NEW y,
           CyclesApart(x, b + u, C), CyclesApart(y, b + w, C)
    PROVE  (x - y) % C = (u - w) % C
<1>1. PICK q \in Int : x = b + u + C * q
  BY DEF CyclesApart
<1>2. PICK r \in Int : y = b + w + C * r
  BY DEF CyclesApart
<1>3. C * (q - r) = C * q - C * r /\ C * q \in Int /\ C * r \in Int
  OBVIOUS
<1>4. x - y = C * (q - r) + (u - w)
  BY <1>1, <1>2, <1>3
<1>5. q - r \in Int /\ u - w \in Int
  OBVIOUS
<1>6. (C * (q - r) + (u - w)) % C = (u - w) % C
  BY <1>5, WholeCycles
<1> QED BY <1>4, <1>6

LEMMA PacketsOfASegment ==
    ASSUME NEW a, Entry(a), NEW b, Entry(b), NEW s \in Ssrcs \cup {"audio"},
           NEW fi \in IdsOf(s), NEW fo \in [IdFields -> Nat],
           InSegment(a, s, fi, fo), InSegment(b, s, fi, fo), b.seg = fo["seqnum"]
    PROVE  KeepDistance(a, b) /\ KeepDistance(b, a) /\ IdsRise(a, b) /\ IdsRise(b, a)
<1>1. /\ a.seg \in Nat /\ b.seg \in Nat /\ a.ssrc \in Ssrcs \cup {"audio"}
      /\ a.ids \in IdsOf(a.ssrc) /\ a.out \in IdsOf(a.ssrc)
      /\ b.ids \in IdsOf(b.ssrc) /\ b.out \in IdsOf(b.ssrc)
      /\ b.ssrc = s /\ \A f \in FieldsOf(s) : Shifted(b.ids, b.out, fi, fo, f)
  BY DEF Entry, InSegment
<1>2. /\ FieldsOf(s) \subseteq IdFields
      /\ \A f \in FieldsOf(s) : /\ fi[f] \in Nat /\ fo[f] \in Nat
                                /\ b.ids[f] \in Nat /\ b.out[f] \in Nat /\ b.out[f] # None
      /\ \A f \in IdFields : f \notin FieldsOf(s) => b.ids[f] = None /\ b.out[f] = None
  BY <1>1, IdsFacts
<1>3. /\ \A f \in FieldsOf(a.ssrc) : a.ids[f] \in Nat /\ a.out[f] \in Nat /\ a.out[f] # None
      /\ \A f \in IdFields : f \notin FieldsOf(a.ssrc) => a.out[f] = None
  BY <1>1, IdsFacts
<1>4. ASSUME a.seg = b.seg, NEW f \in IdFields, Both(a.ids, b.ids, f)
      PROVE  /\ Both(a.out, b.out, f) /\ Both(b.out, a.out, f)
             /\ (a.out[f] - b.out[f]) % Cycle(f) = (a.ids[f] - b.ids[f]) % Cycle(f)
             /\ (b.out[f] - a.out[f]) % Cycle(f) = (b.ids[f] - a.ids[f]) % Cycle(f)
  <2>1. a.ssrc = s /\ f \in FieldsOf(s) /\ Shifted(a.ids, a.out, fi, fo, f)
    BY <1>2, <1>4 DEF InSegment, Both
  <2> DEFINE C == Cycle(f)
             d == fo[f] - fi[f]
  <2>2. CyclesApart(a.out[f], d + a.ids[f], C)
    BY <2>1 DEF Shifted
  <2>3. CyclesApart(b.out[f], d + b.ids[f], C)
    BY <1>1, <2>1 DEF Shifted
  <2>4. d \in Int /\ a.ids[f] \in Int /\ b.ids[f] \in Int /\ C \in Nat /\ C > 0
    BY <1>2, <1>3, <2>1, CycleFacts
  <2> HIDE DEF C, d
  <2>5. (a.out[f] - b.out[f]) % C = (a.ids[f] - b.ids[f]) % C
    BY <2>2, <2>3, <2>4, Congruent
  <2>6. (b.out[f] - a.out[f]) % C = (b.ids[f] - a.ids[f]) % C
    BY <2>2, <2>3, <2>4, Congruent
  <2> QED BY <1>2, <1>3, <2>1, <2>5, <2>6 DEF Both, C
<1>5. KeepDistance(a, b) /\ KeepDistance(b, a)
  <2>1. \A f \in IdFields : Both(b.ids, a.ids, f) <=> Both(a.ids, b.ids, f)
    BY DEF Both
  <2> QED BY <1>4, <2>1 DEF KeepDistance
<1>6. ASSUME a.seg < b.seg, NEW f \in IdFields, Both(a.out, b.out, f)
      PROVE  a.out[f] < b.out[f]
  <2>1. f \in FieldsOf(s) /\ f \in FieldsOf(a.ssrc)
    BY <1>2, <1>3, <1>6 DEF Both
  <2>2. a.out[f] < fo[f] /\ b.out[f] >= fo[f]
    BY <1>1, <1>6, <2>1 DEF InSegment, Shifted
  <2> QED BY <1>2, <1>3, <2>1, <2>2
<1>7. ~(b.seg < a.seg)
  <2>1. a.seg <= b.seg
    BY DEF InSegment
  <2> QED BY <1>1, <2>1
<1> QED BY <1>5, <1>6, <1>7 DEF IdsRise

LEMMA NewSegment ==
    ASSUME NEW e, Entry(e), NEW max \in [IdFields -> Nat], Below(e, max),
           NEW fo \in [IdFields -> Nat], \A f \in IdFields : fo[f] > max[f], NEW s, NEW fi
    PROVE  InSegment(e, s, fi, fo) /\ e.out["seqnum"] < fo["seqnum"]
<1>1. /\ FieldsOf(e.ssrc) \subseteq IdFields /\ "seqnum" \in FieldsOf(e.ssrc)
      /\ \A f \in FieldsOf(e.ssrc) : e.out[f] \in Nat
  BY IdsFacts DEF Entry
<1>2. \A f \in FieldsOf(e.ssrc) : max[f] \in Nat /\ fo[f] \in Nat /\ fo[f] > max[f]
  BY <1>1
<1>3. \A f \in FieldsOf(e.ssrc) : e.out[f] < fo[f]
  BY <1>1, <1>2 DEF Below
<1>4. e.seg < fo["seqnum"] /\ e.seg <= fo["seqnum"] /\ e.seg # fo["seqnum"]
  BY <1>1, <1>2, <1>3 DEF Entry
<1> QED BY <1>1, <1>3, <1>4 DEF InSegment

LEMMA StaysBelow ==
    ASSUME NEW e, Entry(e), NEW max \in [IdFields -> Nat], Below(e, max),
           NEW more \in [IdFields -> Nat], \A f \in IdFields : max[f] <= more[f]
    PROVE  Below(e, more)
<1>1. /\ FieldsOf(e.ssrc) \subseteq IdFields
      /\ \A f \in FieldsOf(e.ssrc) : e.out[f] \in Nat
  BY IdsFacts DEF Entry
<1>2. \A f \in FieldsOf(e.ssrc) : max[f] \in Nat /\ more[f] \in Nat /\ max[f] <= more[f]
  BY <1>1
<1> QED BY <1>1, <1>2 DEF Below
------------------------------------------------------------------------------
(* The inductive invariant.                                                *)

Base(s)       == IF s = "audio" THEN 0 ELSE FirstIds[s]["seqnum"]
Everywhere(n) == [f \in IdFields |-> n]
Singles       == [first_incoming : Nat, first_outgoing : Nat, max_outgoing : Nat]

\* What was sent by the audio or data forwarder s.
SentBySingle(e, s) ==
    /\ Below(e, Everywhere(s.max_outgoing))
    /\ InSegment(e, "audio", OnlySeqnum(s.first_incoming), Everywhere(s.first_outgoing))

\* What was sent by the video forwarder v.
SentByVp8(e, v) ==
    /\ Below(e, v.max_outgoing)
    /\ v.forwarding # None => InSegment(e, v.forwarding.incoming_ssrc,
                                        v.forwarding.first_incoming, v.forwarding.first_outgoing)

\* Every packet sent was delivered, once; none is above the largest IDs, and each is of
\* the present segment, at the offset of its key frame, or below that segment.
ForwardersInv ==
    /\ kind \in {"single", "vp8"}
    /\ delivered \in [Ssrcs \cup {"audio"} -> SUBSET Nat]
    /\ \A e \in sent : Entry(e) /\ e.ids["seqnum"] - Base(e.ssrc) \in delivered[e.ssrc]
    /\ IdsAreOneStream
    /\ kind = "single" => fwd \in Singles /\ \A e \in sent : SentBySingle(e, fwd)
    /\ kind = "vp8" => ForwarderOK(fwd) /\ \A e \in sent : SentByVp8(e, fwd)

\* What is common to the packets that the two kinds of forwarders send: packet k of s,
\* in the segment that began with fi, sent as fo.
PacketSent(e, s, k, fi, fo) ==
    /\ sent' = sent \cup {e}
    /\ Entry(e) /\ e.ssrc = s /\ e.ids["seqnum"] = Base(s) + k
    /\ k \notin delivered[s]
    /\ e.seg = fo["seqnum"] /\ InSegment(e, s, fi, fo)
    /\ e.ids["seqnum"] >= fi["seqnum"]
    /\ e.out["seqnum"] = e.ids["seqnum"] + (fo["seqnum"] - fi["seqnum"])

SingleSent(e, n) ==
    /\ PacketSent(e, "audio", n, OnlySeqnum(fwd'.first_incoming), Everywhere(fwd'.first_outgoing))
    /\ e.key
    /\ Below(e, Everywhere(fwd'.max_outgoing)) /\ fwd'.max_outgoing >= fwd.max_outgoing
    /\ \/ /\ fwd'.first_incoming = fwd.first_incoming
          /\ fwd'.first_outgoing = fwd.first_outgoing
       \/ fwd'.first_outgoing > fwd.max_outgoing

VideoSent(e, s, k) ==
    LET w == fwd'.forwarding IN
    /\ w # None /\ w.incoming_ssrc = s
    /\ PacketSent(e, s, k, w.first_incoming, w.first_outgoing)
    /\ Below(e, fwd'.max_outgoing)
    /\ \A f \in IdFields : fwd.max_outgoing[f] <= fwd'.max_outgoing[f]
    /\ \/ Continues(fwd, fwd')
       \/ e.key /\ \A f \in IdFields : w.first_outgoing[f] > fwd.max_outgoing[f]

LEMMA OnlySeqnumFacts ==
    ASSUME NEW n \in Nat
    PROVE  OnlySeqnum(n) \in IdsOf("audio") /\ OnlySeqnum(n)["seqnum"] = n
BY NoneAssumption DEF OnlySeqnum, IdsOf, OptIds, FieldsOf, IdFields

LEMMA SingleStep ==
    ASSUME ForwardersInv, NEW n \in Nat, ForwardSingle(n)
    PROVE  /\ kind = "single" /\ kind' = kind /\ fwd' \in Singles
           /\ delivered' = [delivered EXCEPT !["audio"] = @ \cup {n}]
           /\ \/ sent' = sent /\ fwd' = fwd
              \/ \E e : SingleSent(e, n)
<1> DEFINE r == SingleForward(fwd, n)
           reset == fwd.max_outgoing + 2
           e == [ssrc |-> "audio", ids |-> OnlySeqnum(n), key |-> TRUE,
                 out |-> OnlySeqnum(r.out), seg |-> r.fwd.first_outgoing]
<1>1. /\ kind = "single" /\ kind' = kind /\ n \notin delivered["audio"]
      /\ delivered' = [delivered EXCEPT !["audio"] = @ \cup {n}]
      /\ fwd' = r.fwd
      /\ sent' = IF r.out = None THEN sent ELSE sent \cup {e}
  BY DEF ForwardSingle
<1>2. /\ fwd \in Singles /\ fwd.first_incoming \in Nat /\ fwd.first_outgoing \in Nat
      /\ fwd.max_outgoing \in Nat
  BY <1>1 DEF ForwardersInv, Singles
<1>3. \/ r.out = None /\ r.fwd = fwd
      \/ /\ r.out = reset
         /\ r.fwd = [first_incoming |-> n, first_outgoing |-> reset, max_outgoing |-> reset]
      \/ /\ n >= fwd.first_incoming
         /\ r.out = fwd.first_outgoing + n - fwd.first_incoming
         /\ r.fwd = [first_incoming |-> fwd.first_incoming,
                     first_outgoing |-> fwd.first_outgoing,
                     max_outgoing |-> Larger(fwd.max_outgoing, r.out)]
  BY <1>2, SingleForwardEffect DEF Singles
<1> HIDE DEF r
<1>4. CASE r.out = None /\ r.fwd = fwd
  BY <1>1, <1>2, <1>4
<1>5. CASE ~(r.out = None /\ r.fwd = fwd)
  <2>1. /\ r.out \in Nat /\ r.fwd \in Singles
        /\ r.fwd.first_incoming \in Nat /\ r.fwd.first_outgoing \in Nat /\ r.fwd.max_outgoing \in Nat
        /\ n >= r.fwd.first_incoming /\ r.out >= r.fwd.first_outgoing
        /\ r.out = n + (r.fwd.first_outgoing - r.fwd.first_incoming)
        /\ r.out <= r.fwd.max_outgoing /\ r.fwd.max_outgoing >= fwd.max_outgoing
        /\ \/ /\ r.fwd.first_incoming = fwd.first_incoming
              /\ r.fwd.first_outgoing = fwd.first_outgoing
           \/ r.fwd.first_outgoing > fwd.max_outgoing
    BY <1>2, <1>3, <1>5 DEF Larger, Singles
  <2> DEFINE fi == OnlySeqnum(r.fwd.first_incoming)
             fo == Everywhere(r.fwd.first_outgoing)
  <2>2. sent' = sent \cup {e}
    BY <1>1, <2>1, NoneAssumption
  <2>3. /\ OnlySeqnum(n) \in IdsOf("audio") /\ OnlySeqnum(n)["seqnum"] = n
        /\ OnlySeqnum(r.out) \in IdsOf("audio") /\ OnlySeqnum(r.out)["seqnum"] = r.out
        /\ fi["seqnum"] = r.fwd.first_incoming
    BY <2>1, OnlySeqnumFacts
  <2>4. /\ e.ssrc = "audio" /\ e.ids = OnlySeqnum(n) /\ e.out = OnlySeqnum(r.out)
        /\ e.seg = r.fwd.first_outgoing /\ e.key
    OBVIOUS
  <2>5. /\ FieldsOf("audio") = {"seqnum"} /\ "seqnum" \in IdFields
        /\ fo["seqnum"] = r.fwd.first_outgoing /\ Base("audio") = 0
        /\ Everywhere(r.fwd.max_outgoing)["seqnum"] = r.fwd.max_outgoing
    BY DEF FieldsOf, IdFields, Everywhere, Base
  <2> HIDE DEF e, fi, fo
  <2>6. Entry(e)
    BY <2>1, <2>3, <2>4 DEF Entry
  <2>7. Shifted(e.ids, e.out, fi, fo, "seqnum")
    <3>1. Cycle("seqnum") * 0 = 0
      BY <2>5, CycleFacts
    <3>2. e.out["seqnum"] = fo["seqnum"] - fi["seqnum"] + e.ids["seqnum"] + Cycle("seqnum") * 0
      BY <2>1, <2>3, <2>4, <2>5, <3>1
    <3>3. e.out["seqnum"] >= fo["seqnum"]
      BY <2>1, <2>3, <2>4, <2>5
    <3> QED BY <3>2, <3>3 DEF Shifted, CyclesApart
  <2>8. InSegment(e, "audio", fi, fo)
    BY <2>1, <2>4, <2>5, <2>7 DEF InSegment
  <2>9. Below(e, Everywhere(r.fwd.max_outgoing))
    BY <2>1, <2>3, <2>4, <2>5 DEF Below
  <2>10. PacketSent(e, "audio", n, fi, fo)
    <3>1. e.ids["seqnum"] = Base("audio") + n
      BY <2>3, <2>4, <2>5
    <3>2. n \notin delivered["audio"] /\ e.seg = fo["seqnum"]
      BY <1>1, <2>4, <2>5
    <3>3. e.ids["seqnum"] >= fi["seqnum"]
      BY <2>1, <2>3, <2>4
    <3>4. e.out["seqnum"] = e.ids["seqnum"] + (fo["seqnum"] - fi["seqnum"])
      BY <2>1, <2>3, <2>4, <2>5
    <3> QED BY <2>2, <2>4, <2>6, <2>8, <3>1, <3>2, <3>3, <3>4, Zenon DEF PacketSent
  <2>11. SingleSent(e, n)
    BY <1>1, <2>1, <2>4, <2>9, <2>10 DEF SingleSent, fi, fo
  <2> QED BY <1>1, <2>1, <2>11
<1> QED BY <1>4, <1>5

LEMMA VideoStep ==
    ASSUME ForwardersInv, NEW s \in Ssrcs, NEW k \in Nat, NEW key \in BOOLEAN,
           NEW whole \in BOOLEAN, ForwardVideo(s, k, key, whole)
    PROVE  /\ kind = "vp8" /\ kind' = kind /\ ForwarderOK(fwd')
           /\ delivered' = [delivered EXCEPT ![s] = @ \cup {k}]
           /\ \/ sent' = sent /\ Drops(fwd, fwd')
              \/ \E e : VideoSent(e, s, k)
<1> DEFINE ids == IF whole THEN PacketIds(s, k)
                  ELSE [PacketIds(s, k) EXCEPT !["picture_id"] = None]
           p == [ssrc |-> s, key |-> key, header |-> Header[s], ids |-> ids]
           r == Vp8Forward(fwd, p)
           e == [ssrc |-> s, ids |-> ids, key |-> key, out |-> r.out,
                 seg |-> r.fwd.forwarding.first_outgoing["seqnum"]]
<1>1. /\ kind = "vp8" /\ kind' = kind /\ k \notin delivered[s]
      /\ whole \/ Header[s] = "vp8"
      /\ delivered' = [delivered EXCEPT ![s] = @ \cup {k}]
      /\ fwd' = r.fwd
      /\ sent' = IF r.out = None THEN sent ELSE sent \cup {e}
  BY DEF ForwardVideo, Deliver
<1>2. ForwarderOK(fwd)
  BY <1>1 DEF ForwardersInv
<1>3. /\ PacketIds(s, k) \in IdsOf(s) /\ Short(PacketIds(s, k))
      /\ PacketIds(s, k)["seqnum"] = FirstIds[s]["seqnum"] + k
  BY PacketIdsFacts
<1>4. p.ssrc = s /\ p.key = key /\ p.header = Header[s] /\ p.ids = ids
  OBVIOUS
<1>5. CASE ~whole
  <2>1. p.header = "vp8" /\ p.ids["picture_id"] = None
    <3>1. "picture_id" \in IdFields /\ PacketIds(s, k) \in OptIds
      BY <1>3 DEF IdFields, IdsOf
    <3> QED BY <1>1, <1>5, <3>1 DEF OptIds
  <2> HIDE DEF p
  <2>2. r = [fwd |-> fwd, out |-> None]
    BY <2>1 DEF Vp8Forward, Forwardable
  <2>3. Drops(fwd, fwd)
    BY DEF Drops, SameSegment
  <2> HIDE DEF r
  <2> QED BY <1>1, <1>2, <2>2, <2>3
<1>6. CASE whole
  <2>1. ids = PacketIds(s, k) /\ s # "audio"
    BY <1>6, ForwardersAssumption
  <2>2. ids \in IdsOf(s) /\ Short(ids) /\ ids["seqnum"] = Base(s) + k
    BY <1>3, <2>1 DEF Base
  <2> HIDE DEF ids, p
  <2>3. /\ ForwarderOK(r.fwd)
        /\ \/ r.out = None /\ Drops(fwd, r.fwd)
           \/ /\ r.out # None /\ Sends(fwd, r.fwd, p, r.out)
              /\ Begins(fwd, r.fwd, p) \/ Continues(fwd, r.fwd)
    BY <1>2, <1>4, <2>2, Vp8ForwardEffect
  <2> HIDE DEF r
  <2>4. CASE r.out = None
    BY <1>1, <2>3, <2>4
  <2>5. CASE r.out # None
    <3> DEFINE w == r.fwd.forwarding
    <3>1. /\ sent' = sent \cup {e} /\ Sends(fwd, r.fwd, p, r.out)
          /\ Begins(fwd, r.fwd, p) \/ Continues(fwd, r.fwd)
      BY <1>1, <2>3, <2>5
    <3>2. /\ w # None /\ w.incoming_ssrc = s /\ r.out \in IdsOf(s)
          /\ ids["seqnum"] >= w.first_incoming["seqnum"]
          /\ r.out["seqnum"] = ids["seqnum"]
                               + (w.first_outgoing["seqnum"] - w.first_incoming["seqnum"])
          /\ \A f \in FieldsOf(s) : /\ Shifted(ids, r.out, w.first_incoming, w.first_outgoing, f)
                                    /\ r.out[f] <= r.fwd.max_outgoing[f]
          /\ \A f \in IdFields : fwd.max_outgoing[f] <= r.fwd.max_outgoing[f]
      BY <1>4, <3>1 DEF Sends
    <3>3. w.first_outgoing \in [IdFields -> Nat] /\ "seqnum" \in IdFields
      BY <2>3, <3>2 DEF ForwarderOK, Vp8Forwarders, Forwardings, IdFields
    <3> HIDE DEF w
    <3>4. /\ e.ssrc = s /\ e.ids = ids /\ e.out = r.out /\ e.key = key
          /\ e.seg = w.first_outgoing["seqnum"]
      BY DEF w
    <3> HIDE DEF e
    <3>5. w.first_outgoing["seqnum"] \in Nat /\ "seqnum" \in FieldsOf(s)
      BY <2>2, <3>3, IdsFacts
    <3>6. Entry(e)
      <4>1. r.out["seqnum"] >= w.first_outgoing["seqnum"]
        BY <3>2, <3>5, Zenon DEF Shifted
      <4>2. r.out["seqnum"] \in Nat
        BY <3>2, <3>5, IdsFacts
      <4>3. e.seg \in Nat /\ e.seg <= e.out["seqnum"]
        BY <3>4, <3>5, <4>1, <4>2
      <4> QED BY <2>2, <3>2, <3>4, <4>3, Zenon DEF Entry
    <3>7. InSegment(e, s, w.first_incoming, w.first_outgoing)
      BY <3>2, <3>4, <3>5 DEF InSegment
    <3>8. PacketSent(e, s, k, w.first_incoming, w.first_outgoing)
      BY <1>1, <2>2, <3>1, <3>2, <3>4, <3>6, <3>7 DEF PacketSent
    <3>9. Below(e, r.fwd.max_outgoing)
      BY <3>2, <3>4 DEF Below
    <3>10. \/ Continues(fwd, r.fwd)
           \/ e.key /\ \A f \in IdFields : w.first_outgoing[f] > fwd.max_outgoing[f]
      BY <1>4, <3>1, <3>4 DEF Begins, w
    <3>11. VideoSent(e, s, k)
      BY <1>1, <3>2, <3>8, <3>9, <3>10 DEF VideoSent, w
    <3> QED BY <1>1, <2>3, <3>11
  <2> QED BY <2>4, <2>5
<1> QED BY <1>5, <1>6

\* set_desired_ssrc pauses, or leaves the segment alone.
LEMMA ChooseEffect ==
    ASSUME ForwardersInv, NEW d \in Ssrcs \cup {None}, Choose(d)
    PROVE  /\ sent' = sent /\ kind' = kind /\ delivered' = delivered /\ kind = "vp8"
           /\ ForwarderOK(fwd') /\ fwd'.max_outgoing = fwd.max_outgoing
           /\ fwd'.forwarding = None \/ Drops(fwd, fwd')
<1>1. /\ sent' = sent /\ kind' = kind /\ delivered' = delivered /\ kind = "vp8"
      /\ fwd' = SetDesired(fwd, d)
  BY DEF Choose
<1>2. ForwarderOK(fwd)
  BY <1>1 DEF ForwardersInv
<1>3. /\ fwd = [forwarding |-> fwd.forwarding, switching |-> fwd.switching,
                max_outgoing |-> fwd.max_outgoing]
      /\ fwd.forwarding \in Forwardings \cup {None} /\ fwd.switching \in Ssrcs \cup {None}
      /\ fwd.max_outgoing \in [IdFields -> Nat]
  BY <1>2 DEF ForwarderOK, Vp8Forwarders
<1>4. CASE d = None
  <2>1. fwd' = [forwarding |-> None, switching |-> None, max_outgoing |-> fwd.max_outgoing]
    BY <1>1, <1>3, <1>4 DEF SetDesired
  <2>2. ForwarderOK(fwd')
    BY <1>3, <2>1 DEF ForwarderOK, Vp8Forwarders
  <2> QED BY <1>1, <2>1, <2>2
<1>5. CASE d # None /\ d # ForwardingSsrc(fwd)
  <2>1. fwd' = [forwarding |-> fwd.forwarding, switching |-> d,
                max_outgoing |-> fwd.max_outgoing]
    BY <1>1, <1>3, <1>5 DEF SetDesired
  <2>2. ForwarderOK(fwd')
    BY <1>2, <1>3, <2>1 DEF ForwarderOK, Vp8Forwarders
  <2> QED BY <1>1, <2>1, <2>2 DEF Drops, SameSegment
<1>6. CASE d # None /\ d = ForwardingSsrc(fwd)
  <2>1. fwd' = fwd
    BY <1>1, <1>6 DEF SetDesired
  <2> QED BY <1>1, <1>2, <2>1 DEF Drops, SameSegment
<1> QED BY <1>4, <1>5, <1>6

\* A request for a key frame leaves the segment alone.
LEMMA AskEffect ==
    ASSUME ForwardersInv, AskForKeyFrame
    PROVE  /\ sent' = sent /\ kind' = kind /\ delivered' = delivered /\ kind = "vp8"
           /\ ForwarderOK(fwd') /\ fwd'.max_outgoing = fwd.max_outgoing /\ Drops(fwd, fwd')
<1>1. /\ sent' = sent /\ kind' = kind /\ delivered' = delivered /\ kind = "vp8"
      /\ fwd' = SetNeedsKeyFrame(fwd)
  BY DEF AskForKeyFrame
<1>2. ForwarderOK(fwd)
  BY <1>1 DEF ForwardersInv
<1>3. CASE fwd.forwarding = None
  BY <1>1, <1>2, <1>3 DEF SetNeedsKeyFrame, Drops
<1>4. CASE fwd.forwarding # None
  <2> DEFINE w == fwd.forwarding
             x == [incoming_ssrc |-> w.incoming_ssrc, needs_key_frame |-> TRUE,
                   first_incoming |-> w.first_incoming, first_outgoing |-> w.first_outgoing,
                   max_incoming |-> w.max_incoming]
  <2>1. /\ w \in Forwardings /\ fwd.switching \in Ssrcs \cup {None}
        /\ fwd.max_outgoing \in [IdFields -> Nat]
        /\ fwd = [forwarding |-> w, switching |-> fwd.switching,
                  max_outgoing |-> fwd.max_outgoing]
    BY <1>2, <1>4 DEF ForwarderOK, Vp8Forwarders
  <2>2. [w EXCEPT !.needs_key_frame = TRUE] = x /\ x \in Forwardings
    <3> HIDE DEF w
    <3>1. /\ w = [incoming_ssrc |-> w.incoming_ssrc, needs_key_frame |-> w.needs_key_frame,
                  first_incoming |-> w.first_incoming, first_outgoing |-> w.first_outgoing,
                  max_incoming |-> w.max_incoming]
          /\ w.incoming_ssrc \in Ssrcs /\ w.first_incoming \in OptIds
          /\ w.first_outgoing \in [IdFields -> Nat] /\ w.max_incoming \in OptIds
      BY <2>1 DEF Forwardings
    <3>2. \A b : [w EXCEPT !.needs_key_frame = b]
                 = [incoming_ssrc |-> w.incoming_ssrc, needs_key_frame |-> b,
                    first_incoming |-> w.first_incoming, first_outgoing |-> w.first_outgoing,
                    max_incoming |-> w.max_incoming]
      BY <3>1
    <3>3. \A b \in BOOLEAN : [incoming_ssrc |-> w.incoming_ssrc, needs_key_frame |-> b,
                              first_incoming |-> w.first_incoming,
                              first_outgoing |-> w.first_outgoing,
                              max_incoming |-> w.max_incoming] \in Forwardings
      BY <3>1 DEF Forwardings
    <3> QED BY <3>2, <3>3, Zenon
  <2>3. fwd' = [fwd EXCEPT !.forwarding = [w EXCEPT !.needs_key_frame = TRUE]]
    BY <1>1, <1>4 DEF SetNeedsKeyFrame
  <2>4. fwd' = [forwarding |-> x, switching |-> fwd.switching,
                max_outgoing |-> fwd.max_outgoing]
    <3> HIDE DEF x, w
    <3> QED BY <2>1, <2>2, <2>3
  <2>5. x # None
    BY <2>2, NoneAssumption
  <2>6. /\ x.incoming_ssrc = w.incoming_ssrc /\ x.first_incoming = w.first_incoming
        /\ x.first_outgoing = w.first_outgoing /\ x.max_incoming = w.max_incoming
    OBVIOUS
  <2> HIDE DEF x
  <2>7. ForwarderOK(fwd')
    BY <1>2, <1>4, <2>1, <2>2, <2>4, <2>6 DEF ForwarderOK, Vp8Forwarders
  <2> QED BY <1>1, <1>4, <2>4, <2>5, <2>6, <2>7 DEF Drops, SameSegment
<1> QED BY <1>3, <1>4

\* The three things that can happen to what was sent: nothing, with the forwarder in the same
\* segment or paused; one more packet of the segment; the first packet of a new segment.
LEMMA SentStays ==
    ASSUME ForwardersInv, sent' = sent, NEW D \in [Ssrcs \cup {"audio"} -> SUBSET Nat],
           \A s \in Ssrcs \cup {"audio"} : delivered[s] \subseteq D[s], delivered' = D
    PROVE  /\ \A e \in sent' : Entry(e) /\ e.ids["seqnum"] - Base(e.ssrc) \in delivered'[e.ssrc]
           /\ IdsAreOneStream' /\ delivered' \in [Ssrcs \cup {"audio"} -> SUBSET Nat]
<1>1. \A e \in sent : Entry(e) /\ e.ids["seqnum"] - Base(e.ssrc) \in delivered[e.ssrc]
  BY DEF ForwardersInv
<1>2. \A e \in sent : e.ssrc \in Ssrcs \cup {"audio"}
  BY <1>1 DEF Entry
<1>3. IdsAreOneStream'
  BY DEF ForwardersInv, IdsAreOneStream
<1> QED BY <1>1, <1>2, <1>3

LEMMA SentOneMore ==
    ASSUME ForwardersInv, NEW s \in Ssrcs \cup {"audio"}, NEW k \in Nat, NEW e,
           NEW fi \in IdsOf(s), NEW fo \in [IdFields -> Nat], PacketSent(e, s, k, fi, fo),
           \A a \in sent : InSegment(a, s, fi, fo),
           delivered' = [delivered EXCEPT ![s] = @ \cup {k}]
    PROVE  /\ \A a \in sent' : Entry(a) /\ a.ids["seqnum"] - Base(a.ssrc) \in delivered'[a.ssrc]
           /\ IdsAreOneStream' /\ delivered' \in [Ssrcs \cup {"audio"} -> SUBSET Nat]
<1>1. /\ sent' = sent \cup {e} /\ Entry(e) /\ e.ssrc = s /\ e.ids["seqnum"] = Base(s) + k
      /\ e.seg = fo["seqnum"] /\ InSegment(e, s, fi, fo)
  BY DEF PacketSent
<1>2. \A a \in sent : Entry(a) /\ a.ids["seqnum"] - Base(a.ssrc) \in delivered[a.ssrc]
  BY DEF ForwardersInv
<1>3. \A a \in sent : a.ssrc \in Ssrcs \cup {"audio"}
  BY <1>2 DEF Entry
<1>4. delivered \in [Ssrcs \cup {"audio"} -> SUBSET Nat]
  BY DEF ForwardersInv
<1>5. /\ delivered' \in [Ssrcs \cup {"audio"} -> SUBSET Nat]
      /\ \A t \in Ssrcs \cup {"audio"} : delivered[t] \subseteq delivered'[t]
      /\ k \in delivered'[s]
  BY <1>4
<1>6. Base(s) \in Nat
  BY ForwardersAssumption DEF Base, IdFields
<1>7. e.ids["seqnum"] - Base(e.ssrc) = k
  BY <1>1, <1>6
<1>8. \A a \in sent' : KeepDistance(a, e) /\ KeepDistance(e, a) /\ IdsRise(a, e) /\ IdsRise(e, a)
  BY <1>1, <1>2, PacketsOfASegment
<1>9. \A a, b \in sent : KeepDistance(a, b) /\ IdsRise(a, b)
  BY DEF ForwardersInv, IdsAreOneStream
<1>10. \A a, b \in sent' : KeepDistance(a, b) /\ IdsRise(a, b)
  BY <1>1, <1>8, <1>9
<1>11. IdsAreOneStream'
  BY <1>10 DEF IdsAreOneStream
<1>12. \A a \in sent' : Entry(a) /\ a.ids["seqnum"] - Base(a.ssrc) \in delivered'[a.ssrc]
  BY <1>1, <1>2, <1>3, <1>5, <1>7
<1> QED BY <1>5, <1>11, <1>12

\* The invariant holds at the start, and every step keeps it.
LEMMA InvHolds == Spec => []ForwardersInv
<1>1. Init => ForwardersInv
  <2> SUFFICES ASSUME Init PROVE ForwardersInv
    OBVIOUS
  <2>1. /\ kind \in {"single", "vp8"} /\ sent = {}
        /\ fwd = IF kind = "single" THEN NewSingle ELSE NewVp8
        /\ delivered \in [Ssrcs \cup {"audio"} -> SUBSET Nat]
    BY DEF Init
  <2>2. NewSingle \in Singles
    BY DEF NewSingle, Singles
  <2>3. ForwarderOK(NewVp8)
    BY DEF NewVp8, ForwarderOK, Vp8Forwarders, DefaultIds
  <2> QED BY <2>1, <2>2, <2>3 DEF ForwardersInv, IdsAreOneStream
<1>2. ForwardersInv /\ [Next]_vars => ForwardersInv'
  <2> SUFFICES ASSUME ForwardersInv, [Next]_vars PROVE ForwardersInv'
    OBVIOUS
  <2>0. /\ kind \in {"single", "vp8"}
        /\ delivered \in [Ssrcs \cup {"audio"} -> SUBSET Nat]
        /\ \A e \in sent : Entry(e)
    BY DEF ForwardersInv
  <2>single. ASSUME NEW n \in Nat, ForwardSingle(n) PROVE ForwardersInv'
    <3>1. /\ kind = "single" /\ kind' = kind /\ fwd' \in Singles
          /\ delivered' = [delivered EXCEPT !["audio"] = @ \cup {n}]
          /\ \/ sent' = sent /\ fwd' = fwd
             \/ \E e : SingleSent(e, n)
      BY <2>single, SingleStep
    <3>2. fwd \in Singles /\ \A e \in sent : SentBySingle(e, fwd)
      BY <3>1 DEF ForwardersInv
    <3>3. CASE sent' = sent /\ fwd' = fwd
      <4>1. /\ delivered' \in [Ssrcs \cup {"audio"} -> SUBSET Nat]
            /\ \A s \in Ssrcs \cup {"audio"} : delivered[s] \subseteq delivered'[s]
        BY <2>0, <3>1
      <4>2. /\ \A e \in sent' : Entry(e) /\ e.ids["seqnum"] - Base(e.ssrc) \in delivered'[e.ssrc]
            /\ IdsAreOneStream' /\ delivered' \in [Ssrcs \cup {"audio"} -> SUBSET Nat]
        BY <3>3, <4>1, SentStays
      <4> QED BY <2>0, <3>1, <3>2, <3>3, <4>2 DEF ForwardersInv
    <3>4. ASSUME NEW e, SingleSent(e, n) PROVE ForwardersInv'
      <4> DEFINE fi == OnlySeqnum(fwd'.first_incoming)
                 fo == Everywhere(fwd'.first_outgoing)
                 max == Everywhere(fwd.max_outgoing)
                 more == Everywhere(fwd'.max_outgoing)
      <4>1. /\ PacketSent(e, "audio", n, fi, fo)
            /\ Below(e, more) /\ fwd'.max_outgoing >= fwd.max_outgoing
            /\ \/ /\ fwd'.first_incoming = fwd.first_incoming
                  /\ fwd'.first_outgoing = fwd.first_outgoing
               \/ fwd'.first_outgoing > fwd.max_outgoing
        BY <3>4 DEF SingleSent
      <4>2. /\ fwd.max_outgoing \in Nat /\ fwd'.max_outgoing \in Nat
            /\ fwd'.first_outgoing \in Nat /\ fwd'.first_incoming \in Nat
        BY <3>1, <3>2 DEF Singles
      <4>3. /\ fo \in [IdFields -> Nat] /\ max \in [IdFields -> Nat] /\ more \in [IdFields -> Nat]
            /\ \A f \in IdFields : max[f] <= more[f]
            /\ fwd'.first_outgoing > fwd.max_outgoing => \A f \in IdFields : fo[f] > max[f]
        BY <4>1, <4>2 DEF Everywhere
      <4>4. fi \in IdsOf("audio")
        BY <4>2, OnlySeqnumFacts
      <4>5. \A a \in sent : Below(a, max)
        BY <3>2 DEF SentBySingle
      <4>6. \A a \in sent : InSegment(a, "audio", fi, fo)
        <5>1. CASE fwd'.first_incoming = fwd.first_incoming /\ fwd'.first_outgoing = fwd.first_outgoing
          BY <3>2, <5>1 DEF SentBySingle
        <5>2. CASE fwd'.first_outgoing > fwd.max_outgoing
          <6> HIDE DEF fi, fo, max
          <6> QED BY <2>0, <4>3, <4>5, <5>2, NewSegment
        <5> QED BY <4>1, <5>1, <5>2
      <4> HIDE DEF fi, fo, max, more
      <4>7. /\ \A a \in sent' : Entry(a) /\ a.ids["seqnum"] - Base(a.ssrc) \in delivered'[a.ssrc]
            /\ IdsAreOneStream' /\ delivered' \in [Ssrcs \cup {"audio"} -> SUBSET Nat]
        BY <3>1, <4>1, <4>3, <4>4, <4>6, SentOneMore
      <4>8. sent' = sent \cup {e} /\ InSegment(e, "audio", fi, fo)
        BY <4>1 DEF PacketSent
      <4>9. \A a \in sent' : Below(a, more)
        BY <2>0, <4>1, <4>3, <4>5, <4>8, StaysBelow
      <4>10. \A a \in sent' : SentBySingle(a, fwd')
        BY <4>6, <4>8, <4>9 DEF SentBySingle, fi, fo, more
      <4> QED BY <3>1, <4>7, <4>10 DEF ForwardersInv
    <3> QED BY <3>1, <3>3, <3>4
  <2>video. ASSUME NEW s \in Ssrcs, NEW k \in Nat, NEW key \in BOOLEAN, NEW whole \in BOOLEAN,
                   ForwardVideo(s, k, key, whole)
            PROVE  ForwardersInv'
    <3>1. /\ kind = "vp8" /\ kind' = kind /\ ForwarderOK(fwd')
          /\ delivered' = [delivered EXCEPT ![s] = @ \cup {k}]
          /\ \/ sent' = sent /\ Drops(fwd, fwd')
             \/ \E e : VideoSent(e, s, k)
      BY <2>video, VideoStep
    <3>2. ForwarderOK(fwd) /\ \A e \in sent : SentByVp8(e, fwd)
      BY <3>1 DEF ForwardersInv
    <3>3. CASE sent' = sent /\ Drops(fwd, fwd')
      <4>1. /\ delivered' \in [Ssrcs \cup {"audio"} -> SUBSET Nat]
            /\ \A t \in Ssrcs \cup {"audio"} : delivered[t] \subseteq delivered'[t]
        BY <2>0, <3>1
      <4>2. /\ \A e \in sent' : Entry(e) /\ e.ids["seqnum"] - Base(e.ssrc) \in delivered'[e.ssrc]
            /\ IdsAreOneStream' /\ delivered' \in [Ssrcs \cup {"audio"} -> SUBSET Nat]
        BY <3>3, <4>1, SentStays
      <4>3. \A e \in sent' : SentByVp8(e, fwd')
        BY <3>2, <3>3 DEF SentByVp8, Drops, SameSegment
      <4> QED BY <3>1, <4>2, <4>3 DEF ForwardersInv
    <3>4. ASSUME NEW e, VideoSent(e, s, k) PROVE ForwardersInv'
      <4> DEFINE w == fwd'.forwarding
                 fi == w.first_incoming
                 fo == w.first_outgoing
                 max == fwd.max_outgoing
                 more == fwd'.max_outgoing
      <4>1. /\ w # None /\ w.incoming_ssrc = s
            /\ PacketSent(e, s, k, fi, fo)
            /\ Below(e, more) /\ \A f \in IdFields : max[f] <= more[f]
            /\ Continues(fwd, fwd') \/ \A f \in IdFields : fo[f] > max[f]
        BY <3>4 DEF VideoSent
      <4>2. /\ fo \in [IdFields -> Nat] /\ max \in [IdFields -> Nat] /\ more \in [IdFields -> Nat]
            /\ fi \in IdsOf(s)
        BY <3>1, <3>2, <4>1 DEF ForwarderOK, Vp8Forwarders, Forwardings
      <4>3. \A a \in sent : Below(a, max)
        BY <3>2 DEF SentByVp8
      <4>4. \A a \in sent : InSegment(a, s, fi, fo)
        <5>1. CASE Continues(fwd, fwd')
          BY <3>2, <4>1, <5>1 DEF SentByVp8, Continues, SameSegment
        <5>2. CASE \A f \in IdFields : fo[f] > max[f]
          <6> HIDE DEF fi, fo, max
          <6> QED BY <2>0, <4>2, <4>3, <5>2, NewSegment
        <5> QED BY <4>1, <5>1, <5>2
      <4> HIDE DEF fi, fo, max, more
      <4>5. /\ \A a \in sent' : Entry(a) /\ a.ids["seqnum"] - Base(a.ssrc) \in delivered'[a.ssrc]
            /\ IdsAreOneStream' /\ delivered' \in [Ssrcs \cup {"audio"} -> SUBSET Nat]
        BY <3>1, <4>1, <4>2, <4>4, SentOneMore
      <4>6. sent' = sent \cup {e} /\ InSegment(e, s, fi, fo)
        BY <4>1 DEF PacketSent
      <4>7. \A a \in sent' : Below(a, more)
        BY <2>0, <4>1, <4>2, <4>3, <4>6, StaysBelow
      <4>8. \A a \in sent' : SentByVp8(a, fwd')
        BY <4>1, <4>4, <4>6, <4>7 DEF SentByVp8, fi, fo, more
      <4> QED BY <3>1, <4>5, <4>8 DEF ForwardersInv
    <3> QED BY <3>1, <3>3, <3>4
  <2>quiet. ASSUME sent' = sent, kind' = kind, delivered' = delivered,
                   kind = "single" => fwd' = fwd,
                   kind = "vp8" => /\ ForwarderOK(fwd')
                                   /\ fwd'.forwarding = None \/ Drops(fwd, fwd')
                                   /\ fwd'.max_outgoing = fwd.max_outgoing
            PROVE  ForwardersInv'
    <3>1. /\ \A e \in sent' : Entry(e) /\ e.ids["seqnum"] - Base(e.ssrc) \in delivered'[e.ssrc]
          /\ IdsAreOneStream' /\ delivered' \in [Ssrcs \cup {"audio"} -> SUBSET Nat]
      BY <2>0, <2>quiet, SentStays
    <3>2. ASSUME kind = "vp8" PROVE \A e \in sent' : SentByVp8(e, fwd')
      <4>1. \A e \in sent : SentByVp8(e, fwd)
        BY <3>2 DEF ForwardersInv
      <4> QED BY <2>quiet, <3>2, <4>1 DEF SentByVp8, Drops, SameSegment
    <3>3. ASSUME kind = "single" PROVE fwd' \in Singles /\ \A e \in sent' : SentBySingle(e, fwd')
      BY <2>quiet, <3>3 DEF ForwardersInv
    <3> QED BY <2>0, <2>quiet, <3>1, <3>2, <3>3 DEF ForwardersInv
  <2>choose. ASSUME NEW d \in Ssrcs \cup {None}, Choose(d) PROVE ForwardersInv'
    BY <2>choose, <2>quiet, ChooseEffect
  <2>ask. CASE AskForKeyFrame
    BY <2>ask, <2>quiet, AskEffect
  <2>stutter. CASE UNCHANGED vars
    <3>1. kind = "vp8" => ForwarderOK(fwd)
      BY DEF ForwardersInv
    <3> QED BY <2>quiet, <2>stutter, <3>1 DEF vars, Drops, SameSegment
  <2> QED
    <3>1. \A s \in Ssrcs : 0..MaxPacket[s] \subseteq Nat /\ 0..MaxSingle \subseteq Nat
      BY ForwardersAssumption
    <3> QED BY <2>single, <2>video, <2>choose, <2>ask, <2>stutter, <3>1 DEF Next
<1>3. QED
  BY <1>1, <1>2, PTL DEF Spec
------------------------------------------------------------------------------
(* What follows.                                                           *)

\* Whatever is lost, reordered or asked for, and wherever the counters wrap: two packets of
\* a segment keep their distances on the wire, and a later segment has higher IDs
\* (forward_rtp, forward_vp8_rtp and expand_truncated_counter of call.rs and counters.rs).
THEOREM IdsStayOneStream == Spec => []IdsAreOneStream
<1>1. ForwardersInv => IdsAreOneStream
  BY DEF ForwardersInv
<1> QED BY <1>1, InvHolds, PTL

\* A packet that is sent is a step of OneStream: it begins a segment or continues one.
LEMMA BaseFacts == \A s \in Ssrcs \cup {"audio"} : Base(s) \in Nat
<1> SUFFICES ASSUME NEW s \in Ssrcs \cup {"audio"} PROVE Base(s) \in Nat
  OBVIOUS
<1>1. "seqnum" \in IdFields
  BY DEF IdFields
<1>2. CASE s = "audio"
  BY <1>2 DEF Base
<1>3. CASE s # "audio"
  <2>1. FirstIds[s] \in [IdFields -> Nat]
    BY <1>3, ForwardersAssumption
  <2> QED BY <1>1, <1>3, <2>1 DEF Base
<1> QED BY <1>2, <1>3

LEMMA StreamSends ==
    ASSUME ForwardersInv, NEW s \in Ssrcs \cup {"audio"}, NEW k \in Nat, NEW e,
           NEW fi, NEW fo, PacketSent(e, s, k, fi, fo), fi["seqnum"] \in Nat, fo["seqnum"] \in Nat,
           CurrentSegment' = [ssrc |-> s, first |-> fi["seqnum"],
                              offset |-> fo["seqnum"] - fi["seqnum"]],
           \/ CurrentSegment' = CurrentSegment
           \/ e.key /\ \A a \in sent : a.out["seqnum"] < fo["seqnum"]
    PROVE  Stream!Next
<1> DEFINE p == StreamPacket(e)
           S == {StreamPacket(a) : a \in sent}
           T == {StreamPacket(a) : a \in sent'}
           g == [ssrc |-> s, first |-> fi["seqnum"], offset |-> fo["seqnum"] - fi["seqnum"]]
<1>1. /\ sent' = sent \cup {e} /\ e.ssrc = s /\ e.ids["seqnum"] = Base(s) + k
      /\ k \notin delivered[s]
      /\ e.ids["seqnum"] >= fi["seqnum"]
      /\ e.out["seqnum"] = e.ids["seqnum"] + (fo["seqnum"] - fi["seqnum"])
  BY DEF PacketSent
<1>2. /\ p.ssrc = s /\ p.incoming = e.ids["seqnum"] /\ p.key = e.key
      /\ p.outgoing = e.out["seqnum"]
  BY <1>1 DEF StreamPacket
<1>3. /\ g.ssrc = s /\ g.first = fi["seqnum"] /\ g.offset = fo["seqnum"] - fi["seqnum"]
      /\ g # None
  <2>1. fi["seqnum"] \in Int /\ fo["seqnum"] - fi["seqnum"] \in Int
    OBVIOUS
  <2>2. g \in [ssrc : Ssrcs \cup {"audio"}, first : Int, offset : Int]
    BY <2>1
  <2>3. g # None
    BY <2>2, NoneAssumption, Zenon
  <2> QED BY <2>3
<1>4. CurrentSegment' = g
  OBVIOUS
<1>5. \A a \in sent : a.ssrc = s => a.ids["seqnum"] # e.ids["seqnum"]
  <2> SUFFICES ASSUME NEW a \in sent, a.ssrc = s, a.ids["seqnum"] = Base(s) + k
               PROVE  FALSE
    BY <1>1
  <2>1. Base(s) \in Nat
    BY BaseFacts
  <2>2. a.ids["seqnum"] - Base(s) = k
    BY <2>1
  <2>3. a.ids["seqnum"] - Base(s) \in delivered[s]
    BY DEF ForwardersInv
  <2> QED BY <1>1, <2>2, <2>3
<1>6. \A q \in S : \E a \in sent : /\ q.ssrc = a.ssrc /\ q.incoming = a.ids["seqnum"]
                                   /\ q.outgoing = a.out["seqnum"]
  <2> SUFFICES ASSUME NEW a \in sent
               PROVE  LET q == StreamPacket(a) IN /\ q.ssrc = a.ssrc
                                                  /\ q.incoming = a.ids["seqnum"]
                                                  /\ q.outgoing = a.out["seqnum"]
    BY Zenon
  <2> QED BY DEF StreamPacket
<1>7. T = S \cup {p}
  BY <1>1
<1>8. p \notin S
  BY <1>2, <1>5, <1>6
<1> HIDE DEF p, S, T, g
<1>9. CASE CurrentSegment' = CurrentSegment
  <2>1. \A q \in S : q.ssrc = p.ssrc => q.incoming # p.incoming
    BY <1>2, <1>5, <1>6
  <2>2. Stream!Continue(p)
    BY <1>1, <1>2, <1>3, <1>4, <1>9, <2>1 DEF Stream!Continue, S
  <2>3. p \in T \ S /\ T = S \cup {p}
    BY <1>7, <1>8
  <2> QED BY <2>2, <2>3 DEF Stream!Next, Stream!Send, S, T
<1>10. CASE e.key /\ \A a \in sent : a.out["seqnum"] < fo["seqnum"]
  <2>1. g.first + g.offset = fo["seqnum"]
    BY <1>3
  <2>2. \A q \in S : q.outgoing < g.first + g.offset
    BY <1>6, <1>10, <2>1
  <2>3. g.first <= p.incoming /\ p.outgoing = p.incoming + g.offset
    BY <1>1, <1>2, <1>3
  <2>4. Stream!Begin(p)
    BY <1>2, <1>3, <1>4, <1>10, <2>2, <2>3 DEF Stream!Begin, S
  <2>5. p \in T \ S /\ T = S \cup {p}
    BY <1>7, <1>8
  <2> QED BY <2>4, <2>5 DEF Stream!Next, Stream!Send, S, T
<1> QED BY <1>9, <1>10

\* The audio, data and video forwarders show their receiver one stream, whatever
\* streams and layers it is made from: they implement OneStream.
THEOREM ForwardersShowOneStream == Spec => ImplementsOneStream
<1> DEFINE svars == <<{StreamPacket(e) : e \in sent}, CurrentSegment>>
<1>1. Init => Stream!Init
  BY DEF Init, Stream!Init, CurrentSegment, NewVp8
<1>2. ForwardersInv /\ [Next]_vars => [Stream!Next]_svars
  <2> SUFFICES ASSUME ForwardersInv, [Next]_vars
               PROVE  Stream!Next \/ UNCHANGED svars
    OBVIOUS
  <2>0. \A e \in sent : Entry(e)
    BY DEF ForwardersInv
  <2>single. ASSUME NEW n \in Nat, ForwardSingle(n) PROVE Stream!Next \/ UNCHANGED svars
    <3>1. /\ kind = "single" /\ kind' = kind /\ fwd' \in Singles
          /\ \/ sent' = sent /\ fwd' = fwd
             \/ \E e : SingleSent(e, n)
      BY <2>single, SingleStep
    <3>2. CASE sent' = sent /\ fwd' = fwd
      BY <3>1, <3>2 DEF CurrentSegment
    <3>3. ASSUME NEW e, SingleSent(e, n) PROVE Stream!Next
      <4> DEFINE fi == OnlySeqnum(fwd'.first_incoming)
                 fo == Everywhere(fwd'.first_outgoing)
      <4>1. /\ PacketSent(e, "audio", n, fi, fo) /\ e.key
            /\ \/ /\ fwd'.first_incoming = fwd.first_incoming
                  /\ fwd'.first_outgoing = fwd.first_outgoing
               \/ fwd'.first_outgoing > fwd.max_outgoing
        BY <3>3 DEF SingleSent
      <4>2. /\ fwd \in Singles /\ fwd.max_outgoing \in Nat
            /\ fwd'.first_outgoing \in Nat /\ fwd'.first_incoming \in Nat
            /\ \A a \in sent : SentBySingle(a, fwd)
        BY <3>1 DEF ForwardersInv, Singles
      <4>3. /\ fi["seqnum"] = fwd'.first_incoming /\ fo["seqnum"] = fwd'.first_outgoing
            /\ fo \in [IdFields -> Nat]
        BY <4>2, OnlySeqnumFacts DEF Everywhere, IdFields
      <4>4. sent' # {}
        BY <4>1 DEF PacketSent
      <4>5. CurrentSegment' = [ssrc |-> "audio", first |-> fi["seqnum"],
                               offset |-> fo["seqnum"] - fi["seqnum"]]
        BY <3>1, <4>3, <4>4 DEF CurrentSegment
      <4>6. \/ CurrentSegment' = CurrentSegment
            \/ \A a \in sent : a.out["seqnum"] < fo["seqnum"]
        <5>1. CASE sent = {}
          BY <5>1
        <5>2. CASE sent # {} /\ fwd'.first_incoming = fwd.first_incoming
                   /\ fwd'.first_outgoing = fwd.first_outgoing
          BY <3>1, <4>4, <5>2 DEF CurrentSegment
        <5>3. CASE fwd'.first_outgoing > fwd.max_outgoing
          <6> DEFINE max == Everywhere(fwd.max_outgoing)
          <6>1. max \in [IdFields -> Nat] /\ \A f \in IdFields : fo[f] > max[f]
            BY <4>2, <5>3 DEF Everywhere
          <6>2. \A a \in sent : Below(a, max)
            BY <4>2 DEF SentBySingle
          <6> HIDE DEF max, fo
          <6> QED BY <2>0, <4>3, <6>1, <6>2, NewSegment
        <5> QED BY <4>1, <5>1, <5>2, <5>3
      <4> HIDE DEF fi, fo
      <4> QED BY <4>1, <4>2, <4>3, <4>5, <4>6, StreamSends
    <3> QED BY <3>1, <3>2, <3>3
  <2>video. ASSUME NEW s \in Ssrcs, NEW k \in Nat, NEW key \in BOOLEAN, NEW whole \in BOOLEAN,
                   ForwardVideo(s, k, key, whole)
            PROVE  Stream!Next \/ UNCHANGED svars
    <3>1. /\ kind = "vp8" /\ kind' = kind /\ ForwarderOK(fwd')
          /\ \/ sent' = sent /\ Drops(fwd, fwd')
             \/ \E e : VideoSent(e, s, k)
      BY <2>video, VideoStep
    <3>2. CASE sent' = sent /\ Drops(fwd, fwd')
      BY <3>1, <3>2 DEF CurrentSegment, Drops, SameSegment
    <3>3. ASSUME NEW e, VideoSent(e, s, k) PROVE Stream!Next
      <4> DEFINE w == fwd'.forwarding
                 fi == w.first_incoming
                 fo == w.first_outgoing
                 max == fwd.max_outgoing
      <4>1. /\ w # None /\ w.incoming_ssrc = s
            /\ PacketSent(e, s, k, fi, fo)
            /\ \/ Continues(fwd, fwd')
               \/ e.key /\ \A f \in IdFields : fo[f] > max[f]
        BY <3>3 DEF VideoSent
      <4>2. ForwarderOK(fwd) /\ \A a \in sent : SentByVp8(a, fwd)
        BY <3>1 DEF ForwardersInv
      <4>3. /\ fo \in [IdFields -> Nat] /\ max \in [IdFields -> Nat]
            /\ fi \in IdsOf(s) /\ "seqnum" \in IdFields
        BY <3>1, <4>1, <4>2 DEF ForwarderOK, Vp8Forwarders, Forwardings, IdFields
      <4>4. fi["seqnum"] \in Nat /\ fo["seqnum"] \in Nat
        BY <4>3, IdsFacts
      <4>5. CurrentSegment' = [ssrc |-> s, first |-> fi["seqnum"],
                               offset |-> fo["seqnum"] - fi["seqnum"]]
        BY <3>1, <4>1 DEF CurrentSegment
      <4>6. \/ CurrentSegment' = CurrentSegment
            \/ e.key /\ \A a \in sent : a.out["seqnum"] < fo["seqnum"]
        <5>1. CASE Continues(fwd, fwd')
          BY <3>1, <4>1, <5>1 DEF CurrentSegment, Continues, SameSegment
        <5>2. CASE e.key /\ \A f \in IdFields : fo[f] > max[f]
          <6>1. \A a \in sent : Below(a, max)
            BY <4>2 DEF SentByVp8
          <6> HIDE DEF fo, max
          <6> QED BY <2>0, <4>3, <5>2, <6>1, NewSegment
        <5> QED BY <4>1, <5>1, <5>2
      <4> HIDE DEF fi, fo
      <4> QED BY <4>1, <4>4, <4>5, <4>6, StreamSends
    <3> QED BY <3>1, <3>2, <3>3
  <2>choose. ASSUME NEW d \in Ssrcs \cup {None}, Choose(d)
             PROVE  Stream!Next \/ UNCHANGED svars
    <3>1. /\ sent' = sent /\ kind' = kind /\ kind = "vp8"
          /\ fwd'.forwarding = None \/ Drops(fwd, fwd')
      BY <2>choose, ChooseEffect
    <3>2. CASE fwd'.forwarding = None
      <4>1. CurrentSegment' = None
        BY <3>1, <3>2 DEF CurrentSegment
      <4> QED BY <3>1, <4>1 DEF Stream!Next, Stream!Pause
    <3>3. CASE Drops(fwd, fwd')
      BY <3>1, <3>3 DEF CurrentSegment, Drops, SameSegment
    <3> QED BY <3>1, <3>2, <3>3
  <2>ask. CASE AskForKeyFrame
    <3>1. sent' = sent /\ kind' = kind /\ kind = "vp8" /\ Drops(fwd, fwd')
      BY <2>ask, AskEffect
    <3> QED BY <3>1 DEF CurrentSegment, Drops, SameSegment
  <2>stutter. CASE UNCHANGED vars
    BY <2>stutter DEF vars, CurrentSegment
  <2> QED
    <3>1. \A s \in Ssrcs : 0..MaxPacket[s] \subseteq Nat
      BY ForwardersAssumption
    <3>2. 0..MaxSingle \subseteq Nat
      BY ForwardersAssumption
    <3> QED BY <2>single, <2>video, <2>choose, <2>ask, <2>stutter, <3>1, <3>2 DEF Next
<1>3. QED
  BY <1>1, <1>2, InvHolds, PTL DEF Spec, ImplementsOneStream, Stream!Spec

LEMMA OnlyForVideo ==
    /\ \A s, k, key, whole : ForwardVideo(s, k, key, whole) => kind = "vp8"
    /\ \A d : Choose(d) => kind = "vp8"
    /\ AskForKeyFrame => kind = "vp8"
<1>1. ASSUME NEW s, NEW k, NEW key, NEW whole, ForwardVideo(s, k, key, whole)
      PROVE  kind = "vp8"
  BY <1>1, Zenon DEF ForwardVideo
<1>2. ASSUME NEW d, Choose(d) PROVE kind = "vp8"
  BY <1>2, Zenon DEF Choose
<1>3. AskForKeyFrame => kind = "vp8"
  BY Zenon DEF AskForKeyFrame
<1> QED BY <1>1, <1>2, <1>3, Zenon

\* With the 16 bits that a sequence number has, and with any number above two, the receiver
\* of audio or data can tell a loss from a wrap (the reset in forward_rtp).
THEOREM GapsAreUnambiguous ==
    ASSUME Cycle("seqnum") > 5 PROVE Spec => NoAmbiguousGap
<1>1. ForwardersInv /\ [Next]_vars =>
         [ \A e \in sent' \ sent : kind = "single" =>
              e.out["seqnum"] < fwd.max_outgoing + Cycle("seqnum") \div 2 ]_vars
  <2> SUFFICES ASSUME ForwardersInv, [Next]_vars, kind = "single", NEW e \in sent' \ sent
               PROVE  e.out["seqnum"] < fwd.max_outgoing + Cycle("seqnum") \div 2
    OBVIOUS
  <2> DEFINE half == Cycle("seqnum") \div 2
  <2>1. half \in Nat /\ half > 2
    BY CycleFacts DEF IdFields
  <2>2. PICK n \in 0..MaxSingle : ForwardSingle(n)
    <3>1. ~(UNCHANGED vars)
      BY DEF vars
    <3>2. kind # "vp8"
      OBVIOUS
    <3>3. \E n \in 0..MaxSingle : ForwardSingle(n)
      BY <3>1, <3>2, OnlyForVideo, Zenon DEF Next
    <3> QED BY <3>3, Zenon
  <2>3. n \in Nat
    BY ForwardersAssumption
  <2> DEFINE r == SingleForward(fwd, n)
  <2>4. r.out # None /\ e.out = OnlySeqnum(r.out)
    <3> DEFINE x == [ssrc |-> "audio", ids |-> OnlySeqnum(n), key |-> TRUE,
                     out |-> OnlySeqnum(r.out), seg |-> r.fwd.first_outgoing]
    <3>1. sent' = IF r.out = None THEN sent ELSE sent \cup {x}
      BY <2>2, Zenon DEF ForwardSingle
    <3>2. x.out = OnlySeqnum(r.out)
      BY Zenon
    <3> HIDE DEF x, r
    <3> QED BY <3>1, <3>2
  <2>5. fwd \in Singles
    BY DEF ForwardersInv
  <2>6. r.out \in Nat /\ r.out < fwd.max_outgoing + half
    <3> HIDE DEF half
    <3> DEFINE out == fwd.first_outgoing + n - fwd.first_incoming
    <3>1. r.out = IF n < fwd.first_incoming THEN None
                  ELSE IF out > fwd.max_outgoing + half - 1 THEN fwd.max_outgoing + 2
                  ELSE out
      BY DEF SingleForward, half
    <3>2. /\ fwd.max_outgoing \in Nat /\ fwd.first_outgoing \in Nat
          /\ fwd.first_incoming \in Nat
      BY <2>5 DEF Singles
    <3>3. ~(n < fwd.first_incoming)
      BY <2>4, <3>1
    <3>4. out \in Nat
      BY <2>3, <3>2, <3>3
    <3>5. \/ r.out = fwd.max_outgoing + 2
          \/ r.out = out /\ ~(out > fwd.max_outgoing + half - 1)
      BY <3>1, <3>3
    <3> HIDE DEF r, out
    <3> QED BY <2>1, <3>2, <3>4, <3>5
  <2> HIDE DEF r
  <2>7. e.out["seqnum"] = r.out
    BY <2>4, <2>6, OnlySeqnumFacts
  <2> QED BY <2>6, <2>7
<1> QED BY <1>1, InvHolds, PTL DEF Spec, NoAmbiguousGap
==============================================================================
