--------------------------- MODULE KVEvents_proofs ---------------------------
(***************************************************************************)
(* The gateway's exact-cache index under every order of posts, for any     *)
(* blocks, backends, capacities, numbers of boots, events and late posts.  *)
(***************************************************************************)
EXTENDS KVEvents, FiniteSetTheorems, WellFoundedInduction, SequenceTheorems, TLAPS

-----------------------------------------------------------------------------
(* The LRU index.                                                          *)

\* Dropping entries keeps the order of the others.
LEMMA DropIs ==
    ASSUME NEW q \in Provider, NEW S
    PROVE  /\ Drop(q, S) \in Provider
           /\ Drop(q, S).max = q.max /\ Drop(q, S).gen = q.gen /\ Drop(q, S).last = q.last
           /\ Drop(q, S).seen = q.seen
           /\ Drop(q, S).keys = q.keys \ S
           /\ Drop(q, S).older = {e \in q.older : e[1] \notin S /\ e[2] \notin S}
  BY DEF Drop, Provider

LEMMA DropOrdered ==
    ASSUME NEW q \in Provider, NEW S, Ordered(q)
    PROVE  Ordered(Drop(q, S))
<1>1. /\ Drop(q, S).keys = q.keys \ S
      /\ Drop(q, S).older = {e \in q.older : e[1] \notin S /\ e[2] \notin S}
  BY DropIs
<1> HIDE DEF Drop
<1>2. \A x, y \in q.keys \ S : <<x, y>> \in Drop(q, S).older <=> <<x, y>> \in q.older
  BY <1>1
<1>3. Drop(q, S).older \subseteq Drop(q, S).keys \X Drop(q, S).keys
  BY <1>1 DEF Ordered
<1> QED
  BY <1>1, <1>2, <1>3 DEF Ordered

\* An entry that is used becomes the youngest.
LEMMA ToFrontIs ==
    ASSUME NEW q \in Provider, NEW x \in Backends \X Blocks
    PROVE  /\ ToFront(q, x) \in Provider
           /\ ToFront(q, x).max = q.max /\ ToFront(q, x).gen = q.gen
           /\ ToFront(q, x).last = q.last /\ ToFront(q, x).seen = q.seen
           /\ ToFront(q, x).keys = q.keys \cup {x}
           /\ ToFront(q, x).older =
                 {e \in q.older : x \notin {e[1], e[2]}} \cup ((q.keys \ {x}) \X {x})
<1>1. q.keys \cup {x} \in SUBSET (Backends \X Blocks)
  BY DEF Provider
<1>2. {e \in q.older : x \notin {e[1], e[2]}} \cup ((q.keys \ {x}) \X {x})
        \in SUBSET ((Backends \X Blocks) \X (Backends \X Blocks))
  BY DEF Provider
<1> QED
  BY <1>1, <1>2 DEF ToFront, Provider

LEMMA ToFrontOrdered ==
    ASSUME NEW q \in Provider, NEW x \in Backends \X Blocks, Ordered(q)
    PROVE  Ordered(ToFront(q, x))
<1> DEFINE new == ToFront(q, x).older
           K == q.keys \ {x}
<1>1. /\ ToFront(q, x).keys = K \cup {x}
      /\ new = {e \in q.older : x \notin {e[1], e[2]}} \cup (K \X {x})
  BY ToFrontIs
<1>2. \A y, z \in K : <<y, z>> \in new <=> <<y, z>> \in q.older
  BY <1>1
<1>3. \A y \in K : <<y, x>> \in new /\ <<x, y>> \notin new
  BY <1>1
<1>4. <<x, x>> \notin new
  BY <1>1
<1>5. new \subseteq (K \cup {x}) \X (K \cup {x})
  BY <1>1 DEF Ordered
<1>6. K \subseteq q.keys /\ x \notin K
  OBVIOUS
<1> HIDE DEF new, K
<1>7. \A y, z \in K \cup {x} : y = z \/ <<y, z>> \in new \/ <<z, y>> \in new
  BY <1>2, <1>3, <1>6 DEF Ordered
<1>8. \A y, z \in K \cup {x} : <<y, z>> \in new => <<z, y>> \notin new
  BY <1>2, <1>3, <1>4, <1>6 DEF Ordered
<1>9. \A u, y, z \in K \cup {x} : <<u, y>> \in new /\ <<y, z>> \in new => <<u, z>> \in new
  BY <1>2, <1>3, <1>4, <1>6 DEF Ordered
<1> QED
  BY <1>1, <1>5, <1>7, <1>8, <1>9 DEF Ordered, new

\* A list that is not empty has an oldest entry.
LEMMA OldestIs ==
    ASSUME NEW q, Ordered(q), IsFiniteSet(q.keys), q.keys # {}
    PROVE  Oldest(q) \in q.keys
<1> DEFINE Below(x) == {y \in q.keys : <<y, x>> \in q.older}
           sizes == {Cardinality(Below(x)) : x \in q.keys}
<1>1. \A x \in q.keys : IsFiniteSet(Below(x)) /\ Cardinality(Below(x)) \in Nat
  BY FS_Subset, FS_CardinalityType
<1>2. sizes \subseteq Nat /\ sizes # {}
  BY <1>1
<1>3. PICK n \in sizes : \A m \in sizes : n <= m
  <2> DEFINE R == {ss \in Nat \X Nat : ss[1] < ss[2]}
  <2>1. IsWellFoundedOn(R, Nat)
    BY NatLessThanWellFounded DEF OpToRel
  <2>2. \A m, k \in Nat : ~(<<m, k>> \in R) => k <= m
    OBVIOUS
  <2> HIDE DEF R, sizes
  <2>3. PICK n \in sizes : \A m \in sizes : ~(<<m, n>> \in R)
    BY <1>2, <2>1, WFMin
  <2> QED
    BY <1>2, <2>2, <2>3
<1>5. PICK x \in q.keys : n = Cardinality(Below(x))
  OBVIOUS
<1>6. ASSUME NEW y \in q.keys, <<y, x>> \in q.older PROVE FALSE
  <2>1. Below(y) \subseteq Below(x) /\ y \in Below(x) /\ y \notin Below(y)
    BY <1>6 DEF Ordered
  <2>2. Cardinality(Below(y)) < Cardinality(Below(x))
    <3> HIDE DEF Below
    <3> QED
      BY <1>1, <2>1, FS_Subset
  <2>3. Cardinality(Below(x)) <= Cardinality(Below(y))
    BY <1>3, <1>5
  <2>4. Cardinality(Below(x)) \in Nat /\ Cardinality(Below(y)) \in Nat
    BY <1>1
  <2> HIDE DEF Below
  <2> QED
    BY <2>2, <2>3, <2>4
<1>7. \A y \in q.keys \ {x} : <<x, y>> \in q.older
  BY <1>6 DEF Ordered
<1> QED
  BY <1>7 DEF Oldest

Bounded(q) == IsFiniteSet(q.keys) /\ Cardinality(q.keys) <= q.max /\ Ordered(q)

\* Dropping entries keeps the bound.
LEMMA DropBounded ==
    ASSUME NEW q \in Provider, NEW S, Bounded(q)
    PROVE  Bounded(Drop(q, S))
<1>1. Drop(q, S).keys \subseteq q.keys /\ Drop(q, S).max = q.max
  BY DropIs
<1>2. IsFiniteSet(Drop(q, S).keys) /\ Cardinality(Drop(q, S).keys) <= Cardinality(q.keys)
  BY <1>1, FS_Subset DEF Bounded
<1>3. /\ Cardinality(Drop(q, S).keys) \in Nat /\ Cardinality(q.keys) \in Nat /\ q.max \in Nat
  BY <1>2, FS_CardinalityType, KVAssumption DEF Bounded, Provider
<1>4. Cardinality(Drop(q, S).keys) <= Drop(q, S).max
  BY <1>1, <1>2, <1>3 DEF Bounded
<1> QED
  BY <1>2, <1>4, DropOrdered DEF Bounded

\* A store evicts the oldest entry when the index is full.
LEMMA StoreBounded ==
    ASSUME NEW q \in Provider, NEW x \in Backends \X Blocks, Bounded(q)
    PROVE  /\ Store(q, x) \in Provider /\ Bounded(Store(q, x))
           /\ Store(q, x).gen = q.gen /\ Store(q, x).last = q.last /\ Store(q, x).seen = q.seen
           /\ Store(q, x).max = q.max
           /\ Store(q, x).keys \subseteq q.keys \cup {x}
<1> DEFINE t == ToFront(q, x)
<1>1. /\ t \in Provider /\ t.max = q.max /\ t.gen = q.gen /\ t.last = q.last /\ t.seen = q.seen
      /\ t.keys = q.keys \cup {x} /\ Ordered(t)
  BY ToFrontIs, ToFrontOrdered DEF Bounded
<1>2. Store(q, x) = IF Cardinality(t.keys) > t.max THEN Drop(t, {Oldest(t)}) ELSE t
  BY DEF Store
<1> HIDE DEF t
<1>3. /\ IsFiniteSet(t.keys) /\ Cardinality(t.keys) \in Nat /\ q.max \in Nat
      /\ Cardinality(t.keys) <= q.max + 1
  <2>1. IsFiniteSet(q.keys) /\ Cardinality(q.keys) \in Nat /\ Cardinality(q.keys) <= q.max
    BY FS_CardinalityType DEF Bounded
  <2>2. q.max \in Nat
    BY KVAssumption DEF Provider
  <2>3. /\ IsFiniteSet(q.keys \cup {x})
        /\ Cardinality(q.keys \cup {x}) \in {Cardinality(q.keys), Cardinality(q.keys) + 1}
    BY <2>1, FS_AddElement
  <2> QED
    BY <1>1, <2>1, <2>2, <2>3, FS_CardinalityType
<1>4. CASE Cardinality(t.keys) > t.max
  <2>1. Oldest(t) \in t.keys
    BY <1>1, <1>3, OldestIs
  <2> DEFINE d == Drop(t, {Oldest(t)})
  <2>2. /\ d \in Provider /\ d.max = t.max /\ d.gen = t.gen /\ d.last = t.last /\ d.seen = t.seen
        /\ d.keys = t.keys \ {Oldest(t)} /\ Ordered(d)
    BY <1>1, DropIs, DropOrdered
  <2>3. IsFiniteSet(d.keys) /\ Cardinality(d.keys) = Cardinality(t.keys) - 1
    <3> HIDE DEF d
    <3> QED
      BY <1>3, <2>1, <2>2, FS_RemoveElement
  <2>4. Store(q, x) = d
    BY <1>2, <1>4
  <2> HIDE DEF d
  <2>5. Cardinality(d.keys) <= d.max
    BY <1>1, <1>3, <2>2, <2>3
  <2> QED
    BY <1>1, <2>2, <2>3, <2>4, <2>5 DEF Bounded
<1>5. CASE ~(Cardinality(t.keys) > t.max)
  <2>1. Store(q, x) = t
    BY <1>2, <1>5
  <2>2. Cardinality(t.keys) <= t.max
    BY <1>1, <1>3, <1>5
  <2> QED
    BY <1>1, <1>3, <2>1, <2>2 DEF Bounded
<1> QED
  BY <1>4, <1>5

-----------------------------------------------------------------------------
(* Observe.                                                                *)

LEMMA PostedIs ==
    ASSUME NEW ev \in Posted
    PROVE  /\ ev.backend = Backend /\ Backend \in Backends
           /\ ev.gen \in Generations /\ ev.gen # NoGeneration
           /\ ev.seq \in Nat /\ ev.seq # NoSequence
           /\ ev.id \in Generations \X Nat \X Nat /\ ev.id # NoID
           /\ ev.op \in {"store", "remove", "clear"} /\ (ev.op = "store" => ev.key \in Blocks)
<1>1. /\ ev.backend = Backend /\ ev.gen \in Generations /\ ev.seq \in Nat
      /\ ev.id \in Generations \X Nat \X Nat
      /\ ev.op \in {"store", "remove", "clear"} /\ (ev.op = "store" => ev.key \in Blocks)
  BY DEF Posted
<1>2. \A g \in Generations : g # NoGeneration
  BY DEF Generations, Configured, Automatic, NoGeneration
<1>3. ev.id # NoID
  BY <1>1, <1>2 DEF NoID
<1> QED
  BY <1>1, <1>2, <1>3, KVAssumption DEF NoSequence

\* Everything but the entries of another generation is kept.
LEMMA RegenerateIs ==
    ASSUME NEW q \in Provider, Bounded(q), NEW ev \in Posted
    PROVE  /\ Regenerate(q, ev) \in Provider /\ Bounded(Regenerate(q, ev))
           /\ Regenerate(q, ev).gen[Backend] = ev.gen
           /\ q.gen[Backend] = ev.gen => Regenerate(q, ev).last[Backend] = q.last[Backend]
<1> DEFINE c == clearBackend(q, Backend)
           z == [c EXCEPT !.last[Backend] = NoSequence]
<1>1. c \in Provider /\ Bounded(c)
  BY DropIs, DropBounded DEF clearBackend
<1> HIDE DEF c
<1>2. z \in Provider /\ z.keys = c.keys /\ z.older = c.older /\ z.max = c.max
  BY <1>1 DEF Provider
<1>3. Bounded(z)
  BY <1>1, <1>2 DEF Bounded, Ordered
<1> HIDE DEF z
<1> DEFINE r == IF q.gen[Backend] \notin {NoGeneration, ev.gen} THEN z ELSE q
<1>4. r \in Provider /\ Bounded(r) /\ (q.gen[Backend] = ev.gen => r = q)
  BY <1>2, <1>3
<1>5. Regenerate(q, ev) = [r EXCEPT !.gen[Backend] = ev.gen]
  BY PostedIs DEF Regenerate, z, c
<1> HIDE DEF r
<1> DEFINE s == [r EXCEPT !.gen[Backend] = ev.gen]
<1>6. /\ s \in Provider /\ s.keys = r.keys /\ s.older = r.older /\ s.max = r.max
      /\ s.last = r.last /\ s.gen[Backend] = ev.gen
  BY <1>4, PostedIs DEF Provider
<1> HIDE DEF s
<1>7. Bounded(s)
  BY <1>4, <1>6 DEF Bounded, Ordered
<1> QED
  BY <1>4, <1>5, <1>6, <1>7 DEF s

\* An event that is not suppressed is not behind the last one.
LEMMA NotedIs ==
    ASSUME NEW q \in Provider, Bounded(q), NEW ev \in Posted
    PROVE  /\ Noted(q, ev) \in Provider /\ Bounded(Noted(q, ev))
           /\ Noted(q, ev).gen = q.gen
           /\ Noted(q, ev).last[Backend] = ev.seq
<1> DEFINE ids == Append(q.seen, <<ev.backend, ev.id>>)
           seen == IF Len(ids) > 4 * q.max THEN Tail(ids) ELSE ids
           n == [q EXCEPT !.seen = seen, !.last[Backend] = ev.seq]
<1>1. seen \in Seq(Backends \X (Generations \X Nat \X Nat))
  <2>1. q.seen \in Seq(Backends \X (Generations \X Nat \X Nat))
        /\ <<ev.backend, ev.id>> \in Backends \X (Generations \X Nat \X Nat)
        /\ q.max \in Nat
    BY PostedIs, KVAssumption DEF Provider
  <2>2. ids \in Seq(Backends \X (Generations \X Nat \X Nat)) /\ Len(ids) = Len(q.seen) + 1
        /\ Len(q.seen) \in Nat
    BY <2>1
  <2>3. Tail(ids) \in Seq(Backends \X (Generations \X Nat \X Nat))
    <3> HIDE DEF ids
    <3>1. ids # <<>>
      BY <2>2
    <3> QED
      BY <2>2, <3>1, HeadTailProperties
  <2> QED
    BY <2>2, <2>3
<1>2. Noted(q, ev) = n
  BY PostedIs DEF Noted
<1> HIDE DEF seen, ids
<1>3. /\ n \in Provider /\ n.keys = q.keys /\ n.older = q.older /\ n.max = q.max /\ n.gen = q.gen
      /\ n.last[Backend] = ev.seq
  BY <1>1, PostedIs DEF Provider
<1> HIDE DEF n
<1>4. Bounded(n)
  BY <1>3 DEF Bounded, Ordered
<1> QED
  BY <1>2, <1>3, <1>4

LEMMA ApplyIs ==
    ASSUME NEW q \in Provider, Bounded(q), NEW ev \in Posted
    PROVE  /\ Apply(q, ev) \in Provider /\ Bounded(Apply(q, ev))
           /\ Apply(q, ev).gen = q.gen /\ Apply(q, ev).last = q.last
<1>1. CASE ev.op = "clear"
  <2>1. Apply(q, ev) = Drop(q, {x \in q.keys : x[1] = ev.backend})
    BY <1>1 DEF Apply, clearBackend
  <2> QED
    BY <2>1, DropIs, DropBounded
<1>2. CASE ev.op = "remove"
  <2>1. Apply(q, ev) = Drop(q, {<<ev.backend, ev.key>>})
    BY <1>2 DEF Apply
  <2> QED
    BY <2>1, DropIs, DropBounded
<1>3. CASE ev.op = "store"
  <2>1. Apply(q, ev) = Store(q, <<ev.backend, ev.key>>)
    BY <1>3 DEF Apply
  <2>2. <<ev.backend, ev.key>> \in Backends \X Blocks
    BY <1>3, PostedIs
  <2> QED
    BY <2>1, <2>2, StoreBounded
<1> QED
  BY <1>1, <1>2, <1>3, PostedIs

\* One post keeps the index within its bound and never goes back within a generation.
LEMMA ObserveIs ==
    ASSUME NEW q \in Provider, Bounded(q), NEW ev \in Posted
    PROVE  /\ Observe(q, ev) \in Provider /\ Bounded(Observe(q, ev))
           /\ Observe(q, ev).gen[Backend] = ev.gen
           /\ q.gen[Backend] = ev.gen => Observe(q, ev).last[Backend] >= q.last[Backend]
<1> DEFINE r == Regenerate(q, ev)
           n == Noted(r, ev)
<1>1. /\ r \in Provider /\ Bounded(r) /\ r.gen[Backend] = ev.gen
      /\ q.gen[Backend] = ev.gen => r.last[Backend] = q.last[Backend]
  BY RegenerateIs
<1> HIDE DEF r
<1>2. n \in Provider /\ Bounded(n) /\ n.gen = r.gen /\ n.last[Backend] = ev.seq
  BY <1>1, NotedIs
<1>3. Observe(q, ev) = IF Suppressed(r, ev) THEN r ELSE Apply(n, ev)
  BY DEF Observe, r
<1>4. ~Suppressed(r, ev) => ~(ev.seq < r.last[Backend])
  BY PostedIs DEF Suppressed
<1>5. q.last[Backend] \in Int /\ ev.seq \in Int
  BY PostedIs DEF Provider, NoSequence
<1> HIDE DEF n
<1>6. Apply(n, ev) \in Provider /\ Bounded(Apply(n, ev)) /\ Apply(n, ev).gen = n.gen
      /\ Apply(n, ev).last = n.last
  BY <1>2, ApplyIs
<1>7. CASE Suppressed(r, ev)
  BY <1>1, <1>3, <1>5, <1>7
<1>8. CASE ~Suppressed(r, ev)
  <2>1. q.gen[Backend] = ev.gen => ev.seq >= q.last[Backend]
    BY <1>1, <1>4, <1>5, <1>8
  <2> QED
    BY <1>1, <1>2, <1>3, <1>6, <1>8, <2>1
<1> QED
  BY <1>7, <1>8

-----------------------------------------------------------------------------
(* Match.                                                                  *)

\* The pairs of Match's entries, in the order of the request.
Walked(ks) == {<<<<Backend, ks[ij[1]]>>, <<Backend, ks[ij[2]]>>>> :
                   ij \in {ij \in (DOMAIN ks) \X (DOMAIN ks) : ij[1] < ij[2]}}

Hit(ks) == {<<Backend, ks[i]>> : i \in DOMAIN ks}

\* One or two entries are walked.
LEMMA WalkedIs ==
    ASSUME NEW ks \in Lookups
    PROVE  \/ \E x \in Backends \X Blocks : Hit(ks) = {x} /\ Walked(ks) = {}
           \/ \E x, y \in Backends \X Blocks :
                 x # y /\ Hit(ks) = {x, y} /\ Walked(ks) = {<<x, y>>}
<1>1. CASE \E k \in Blocks : ks = <<k>>
  <2>1. PICK k \in Blocks : ks = <<k>>
    BY <1>1
  <2>2. DOMAIN ks = {1} /\ ks[1] = k
    BY <2>1
  <2>3. Hit(ks) = {<<Backend, k>>}
    BY <2>2 DEF Hit
  <2>4. {ij \in (DOMAIN ks) \X (DOMAIN ks) : ij[1] < ij[2]} = {}
    BY <2>2
  <2>5. Walked(ks) = {}
    BY <2>4 DEF Walked
  <2> QED
    BY <2>3, <2>5, KVAssumption
<1>2. CASE ks \in {s \in Blocks \X Blocks : s[1] # s[2]}
  <2>1. DOMAIN ks = {1, 2} /\ ks[1] \in Blocks /\ ks[2] \in Blocks /\ ks[1] # ks[2]
    BY <1>2
  <2> DEFINE x == <<Backend, ks[1]>>
             y == <<Backend, ks[2]>>
  <2>2. x # y /\ x \in Backends \X Blocks /\ y \in Backends \X Blocks
    BY <2>1, KVAssumption
  <2>3. Hit(ks) = {x, y}
    BY <2>1 DEF Hit
  <2>4. {ij \in (DOMAIN ks) \X (DOMAIN ks) : ij[1] < ij[2]} = {<<1, 2>>}
    BY <2>1
  <2>5. Walked(ks) = {<<x, y>>}
    <3> DEFINE pair(ij) == <<<<Backend, ks[ij[1]]>>, <<Backend, ks[ij[2]]>>>>
    <3>1. pair(<<1, 2>>) = <<x, y>>
      OBVIOUS
    <3>2. Walked(ks) = {pair(ij) : ij \in {<<1, 2>>}}
      BY <2>4 DEF Walked
    <3> HIDE DEF pair
    <3> QED
      BY <3>1, <3>2
  <2> QED
    BY <2>2, <2>3, <2>5
<1> QED
  BY <1>1, <1>2 DEF Lookups

LEMMA UsedIs ==
    ASSUME NEW q \in Provider, Bounded(q), NEW ks \in Lookups, Matched(q, Backend, ks)
    PROVE  /\ Used(q, Backend, ks) \in Provider /\ Bounded(Used(q, Backend, ks))
           /\ Used(q, Backend, ks).gen = q.gen /\ Used(q, Backend, ks).last = q.last
<1> DEFINE hit == Hit(ks)
           K == q.keys \ hit
           new == {e \in q.older : e[1] \notin hit /\ e[2] \notin hit} \cup (K \X hit) \cup Walked(ks)
           u == [q EXCEPT !.older = new]
<1>1. Used(q, Backend, ks) = u
  BY DEF Used, Hit, Walked
<1>2. hit \subseteq q.keys
  BY DEF Matched, Hit
<1>3. q.keys \subseteq Backends \X Blocks /\ q.older \subseteq q.keys \X q.keys
  BY DEF Provider, Bounded, Ordered
<1>4. Walked(ks) \subseteq hit \X hit
  BY WalkedIs
<1>5. new \subseteq q.keys \X q.keys
  BY <1>2, <1>3, <1>4
<1>6. \A y, z \in K : <<y, z>> \in new <=> <<y, z>> \in q.older
  BY <1>3, <1>4
<1>7. \A y \in K : \A x \in hit : <<y, x>> \in new /\ <<x, y>> \notin new
  BY <1>4
<1>8. \A x, y \in hit : <<x, y>> \in new <=> <<x, y>> \in Walked(ks)
  OBVIOUS
<1>9. /\ \A x, y \in hit : x = y \/ <<x, y>> \in Walked(ks) \/ <<y, x>> \in Walked(ks)
      /\ \A x, y \in hit : <<x, y>> \in Walked(ks) => <<y, x>> \notin Walked(ks)
      /\ \A x, y, z \in hit : <<x, y>> \in Walked(ks) /\ <<y, z>> \in Walked(ks)
                                 => <<x, z>> \in Walked(ks)
  BY WalkedIs
<1>10. K \subseteq q.keys /\ \A x \in q.keys : x \in K \/ x \in hit
  OBVIOUS
<1> HIDE DEF hit, K, new
<1>11. \A x, y \in q.keys : x = y \/ <<x, y>> \in new \/ <<y, x>> \in new
  BY <1>6, <1>7, <1>8, <1>9, <1>10 DEF Bounded, Ordered
<1>12. \A x, y \in q.keys : <<x, y>> \in new => <<y, x>> \notin new
  BY <1>6, <1>7, <1>8, <1>9, <1>10 DEF Bounded, Ordered
<1>13. \A x, y, z \in q.keys : <<x, y>> \in new /\ <<y, z>> \in new => <<x, z>> \in new
  BY <1>6, <1>7, <1>8, <1>9, <1>10 DEF Bounded, Ordered
<1>14. new \in SUBSET ((Backends \X Blocks) \X (Backends \X Blocks))
  BY <1>3, <1>5
<1>15. /\ u \in Provider /\ u.older = new /\ u.keys = q.keys /\ u.max = q.max
       /\ u.gen = q.gen /\ u.last = q.last
  BY <1>14 DEF Provider
<1> HIDE DEF u
<1>16. Bounded(u)
  BY <1>5, <1>11, <1>12, <1>13, <1>15 DEF Bounded, Ordered
<1> QED
  BY <1>1, <1>15, <1>16

LEMMA NewIs ==
    ASSUME NEW max \in MaxEntries
    PROVE  /\ New(max) \in Provider /\ Bounded(New(max))
           /\ New(max).gen[Backend] = NoGeneration /\ New(max).last[Backend] = NoSequence
<1>1. /\ New(max).keys = {} /\ New(max).older = {} /\ New(max).max = max
      /\ New(max).gen = [b \in Backends |-> NoGeneration]
      /\ New(max).last = [b \in Backends |-> NoSequence]
  BY DEF New
<1>2. New(max) \in Provider
  BY DEF New, Provider
<1>3. Bounded(New(max))
  BY <1>1, FS_EmptySet, KVAssumption DEF Bounded, Ordered
<1> QED
  BY <1>1, <1>2, <1>3, KVAssumption

-----------------------------------------------------------------------------
(* Batches.                                                                *)

EventBatch == Seq(Event) \ {<<>>}

Log == Seq(Seq(EventBatch))

\* Batches that were published in l.
Valid(batches, l) ==
    /\ batches \in Seq(Boots \X Nat)
    /\ \A i \in DOMAIN batches :
          batches[i][1] <= Len(l) /\ batches[i][2] < Len(l[batches[i][1]])

\* All that was published before stays.
Extends(l, m) == /\ l \in Log /\ m \in Log /\ Len(l) <= Len(m)
                 /\ \A b \in 1..Len(l) : Len(l[b]) <= Len(m[b])

LEMMA ValidGrows ==
    ASSUME NEW s, NEW l, NEW m, Valid(s, l), Extends(l, m)
    PROVE  Valid(s, m)
<1> SUFFICES ASSUME NEW i \in DOMAIN s
             PROVE  s[i][1] <= Len(m) /\ s[i][2] < Len(m[s[i][1]])
  BY DEF Valid
<1>1. s[i] \in Boots \X Nat /\ s[i][1] <= Len(l) /\ s[i][2] < Len(l[s[i][1]])
  BY DEF Valid
<1>2. Len(l) \in Nat /\ Len(m) \in Nat /\ Len(l) <= Len(m)
  BY DEF Extends, Log
<1>3. s[i][1] \in 1..Len(l) /\ s[i][1] \in 1..Len(m)
  BY <1>1, <1>2, KVAssumption DEF Boots
<1>4. Len(l[s[i][1]]) \in Nat /\ Len(m[s[i][1]]) \in Nat
  BY <1>3 DEF Extends, Log
<1>5. Len(l[s[i][1]]) <= Len(m[s[i][1]])
  BY <1>3 DEF Extends
<1>6. s[i][1] \in Nat /\ s[i][2] \in Nat
  BY <1>1, <1>3
<1> QED
  BY <1>1, <1>2, <1>4, <1>5, <1>6

LEMMA ValidTail ==
    ASSUME NEW s, NEW l, Valid(s, l), s # <<>>
    PROVE  /\ Valid(Tail(s), l) /\ Valid(<<Head(s)>>, l)
<1>1. /\ s \in Seq(Boots \X Nat) /\ Tail(s) \in Seq(Boots \X Nat) /\ Head(s) = s[1]
      /\ Len(s) \in Nat \ {0} /\ DOMAIN s = 1..Len(s)
      /\ DOMAIN Tail(s) = 1..(Len(s) - 1) /\ \A i \in 1..(Len(s) - 1) : Tail(s)[i] = s[i + 1]
  BY DEF Valid
<1>2. \A i \in 1..(Len(s) - 1) : i + 1 \in DOMAIN s
  BY <1>1
<1>3. Valid(Tail(s), l)
  BY <1>1, <1>2 DEF Valid
<1>4. 1 \in DOMAIN s /\ s[1] \in Boots \X Nat
  BY <1>1
<1>5. /\ <<Head(s)>> \in Seq(Boots \X Nat) /\ DOMAIN <<Head(s)>> = {1} /\ <<Head(s)>>[1] = s[1]
  BY <1>1, <1>4
<1>6. Valid(<<Head(s)>>, l)
  BY <1>4, <1>5 DEF Valid
<1> QED
  BY <1>3, <1>6

LEMMA ValidConcat ==
    ASSUME NEW s, NEW t, NEW l, Valid(s, l), Valid(t, l)
    PROVE  Valid(s \o t, l)
<1>1. /\ s \in Seq(Boots \X Nat) /\ t \in Seq(Boots \X Nat) /\ s \o t \in Seq(Boots \X Nat)
      /\ Len(s) \in Nat /\ Len(t) \in Nat /\ DOMAIN s = 1..Len(s) /\ DOMAIN t = 1..Len(t)
      /\ DOMAIN (s \o t) = 1..(Len(s) + Len(t))
      /\ \A i \in 1..(Len(s) + Len(t)) :
            (s \o t)[i] = IF i <= Len(s) THEN s[i] ELSE t[i - Len(s)]
  BY DEF Valid
<1> SUFFICES ASSUME NEW i \in 1..(Len(s) + Len(t))
             PROVE  (s \o t)[i][1] <= Len(l) /\ (s \o t)[i][2] < Len(l[(s \o t)[i][1]])
  BY <1>1 DEF Valid
<1>2. CASE i <= Len(s)
  <2>1. i \in DOMAIN s /\ (s \o t)[i] = s[i]
    BY <1>1, <1>2
  <2> QED
    BY <2>1 DEF Valid
<1>3. CASE i > Len(s)
  <2>1. i - Len(s) \in DOMAIN t /\ (s \o t)[i] = t[i - Len(s)]
    BY <1>1, <1>3
  <2> QED
    BY <2>1 DEF Valid
<1> QED
  BY <1>1, <1>2, <1>3

LEMMA ValidEmpty == ASSUME NEW l PROVE Valid(<<>>, l)
  BY DEF Valid

\* The batch at hand.
LEMMA BatchIs ==
    ASSUME NEW m, NEW l \in Log, Valid(<<m>>, l)
    PROVE  /\ m \in Boots \X Nat /\ m[1] \in 1..Len(l) /\ m[2] \in Nat /\ m[2] + 1 \in 1..Len(l[m[1]])
           /\ l[m[1]][m[2] + 1] \in Seq(Event)
<1>1. 1 \in DOMAIN <<m>> /\ <<m>>[1] = m
  OBVIOUS
<1>2. m \in Boots \X Nat /\ m[1] <= Len(l) /\ m[2] < Len(l[m[1]])
  BY <1>1 DEF Valid
<1>3. m[1] \in 1..Len(l) /\ m[2] \in Nat
  BY <1>2, KVAssumption DEF Boots, Log
<1>4. l[m[1]] \in Seq(EventBatch) /\ Len(l[m[1]]) \in Nat
  BY <1>3 DEF Log
<1>5. m[2] + 1 \in 1..Len(l[m[1]])
  BY <1>2, <1>3, <1>4
<1>6. l[m[1]][m[2] + 1] \in EventBatch
  BY <1>4, <1>5
<1> QED
  BY <1>2, <1>3, <1>5, <1>6 DEF EventBatch

\* The events of the engine.
LEMMA EventsAre ==
    ASSUME NEW cache \in SUBSET Blocks, NEW e \in EngineEvents(cache)
    PROVE  e \in Event /\ e.then \in SUBSET Blocks
  BY DEF EngineEvents, Event

LEMMA ResidentIs ==
    ASSUME log \in Log, Len(log) \in Boots
    PROVE  Resident \in SUBSET Blocks
<1> DEFINE own == log[Boot]
<1>1. Boot \in 1..Len(log)
  BY DEF Boot, Boots, Log
<1>2. own \in Seq(EventBatch)
  BY <1>1 DEF Log
<1>3. CASE own = <<>>
  BY <1>3 DEF Resident
<1>4. CASE own # <<>>
  <2> HIDE DEF own
  <2>1. Len(own) \in 1..Len(own) /\ own[Len(own)] \in EventBatch
    BY <1>2, <1>4
  <2> DEFINE batch == own[Len(own)]
  <2>2. batch \in Seq(Event) /\ batch # <<>>
    BY <2>1 DEF EventBatch
  <2> HIDE DEF batch
  <2>3. batch[Len(batch)] \in Event
    BY <2>2
  <2>4. \A e \in Event : e.then \in SUBSET Blocks
    BY DEF Event
  <2> QED
    BY <1>4, <2>3, <2>4 DEF Resident, batch, own
<1> QED
  BY <1>3, <1>4

LEMMA BatchesAre ==
    ASSUME log \in Log, Len(log) \in Boots, NEW room, NEW batch \in Batches(room)
    PROVE  batch \in EventBatch
<1>1. CASE \E e \in EngineEvents(Resident) : batch = <<e>>
  BY <1>1, ResidentIs, EventsAre DEF EventBatch
<1>2. CASE \E e \in EngineEvents(Resident) : \E f \in EngineEvents(e.then) : batch = <<e, f>>
  <2>1. PICK e \in EngineEvents(Resident) : \E f \in EngineEvents(e.then) : batch = <<e, f>>
    BY <1>2
  <2>2. e \in Event /\ e.then \in SUBSET Blocks
    BY ResidentIs, EventsAre
  <2>3. PICK f \in EngineEvents(e.then) : batch = <<e, f>>
    BY <2>1
  <2>4. f \in Event
    BY <2>2, EventsAre
  <2> QED
    BY <2>2, <2>3, <2>4 DEF EventBatch
<1> QED
  BY <1>1, <1>2 DEF Batches

\* A batch is appended to the log of the engine's boot.
LEMMA PublishGrows ==
    ASSUME log \in Log, Len(log) \in Boots, NEW batch \in EventBatch
    PROVE  /\ Extends(log, [log EXCEPT ![Boot] = Append(@, batch)])
           /\ Len([log EXCEPT ![Boot] = Append(@, batch)]) = Len(log)
           /\ Valid(<<<<Boot, Len(log[Boot])>>>>, [log EXCEPT ![Boot] = Append(@, batch)])
<1> DEFINE own == log[Boot]
           new == Append(own, batch)
           l == [log EXCEPT ![Boot] = new]
<1>1. Boot \in 1..Len(log) /\ Boot \in Boots /\ Len(log) \in Nat /\ Boot = Len(log)
  BY DEF Boot, Boots, Log
<1>2. own \in Seq(EventBatch) /\ new \in Seq(EventBatch) /\ Len(new) = Len(own) + 1 /\ Len(own) \in Nat
  BY <1>1 DEF Log
<1> HIDE DEF new
<1>3. /\ l \in Log /\ Len(l) = Len(log) /\ l[Boot] = new
      /\ \A b \in 1..Len(log) : b # Boot => l[b] = log[b]
  BY <1>1, <1>2, ExceptSeq DEF Log
<1> HIDE DEF l
<1>4. \A b \in 1..Len(log) : Len(log[b]) <= Len(l[b])
  <2> SUFFICES ASSUME NEW b \in 1..Len(log) PROVE Len(log[b]) <= Len(l[b])
    OBVIOUS
  <2>1. Len(log[b]) \in Nat
    BY DEF Log
  <2>2. CASE b = Boot
    BY <1>2, <1>3, <2>2
  <2>3. CASE b # Boot
    BY <1>3, <2>1, <2>3
  <2> QED
    BY <2>2, <2>3
<1>5. Extends(log, l)
  BY <1>1, <1>3, <1>4 DEF Extends
<1>6. Valid(<<<<Boot, Len(own)>>>>, l)
  <2> DEFINE m == <<Boot, Len(own)>>
  <2>1. m \in Boots \X Nat /\ m[1] = Boot /\ m[2] = Len(own)
    BY <1>1, <1>2
  <2> HIDE DEF m
  <2>2. <<m>> \in Seq(Boots \X Nat) /\ DOMAIN <<m>> = {1} /\ <<m>>[1] = m
    BY <2>1
  <2>3. m[1] <= Len(l) /\ m[2] < Len(l[m[1]])
    BY <1>1, <1>2, <1>3, <2>1
  <2>4. Valid(<<m>>, l)
    BY <2>2, <2>3 DEF Valid
  <2> QED
    BY <2>4 DEF m
<1> QED
  BY <1>3, <1>5, <1>6 DEF l, new

LEMMA RestartGrows ==
    ASSUME log \in Log
    PROVE  Extends(log, Append(log, <<>>)) /\ Len(Append(log, <<>>)) = Len(log) + 1
<1> DEFINE l == Append(log, <<>>)
<1>1. <<>> \in Seq(EventBatch) /\ Len(log) \in Nat
  BY DEF Log
<1>2. l \in Log /\ Len(l) = Len(log) + 1 /\ \A b \in 1..Len(log) : l[b] = log[b]
  BY <1>1 DEF Log
<1>3. \A b \in 1..Len(log) : Len(log[b]) \in Nat
  BY DEF Log
<1> HIDE DEF l
<1>4. Extends(log, l)
  BY <1>1, <1>2, <1>3 DEF Extends
<1> QED
  BY <1>2, <1>4 DEF l

\* What the bridge posts of a published batch.
LEMMA PostsAre ==
    ASSUME log \in Log, NEW m, Valid(<<m>>, log), NEW gen \in Generations, NEW restarted \in BOOLEAN
    PROVE  Posts(m, gen, restarted) \in Seq(Posted)
<1> DEFINE batch == log[m[1]][m[2] + 1]
           PostOf(i, op, key) == [backend |-> Backend, op |-> op, key |-> key, gen |-> gen,
                                  seq |-> m[2], id |-> <<gen, m[2], i>>]
           clear == <<PostOf(0, "clear", NoBlock)>>
           own == [i \in DOMAIN batch |-> PostOf(i, batch[i].op, batch[i].key)]
<1>1. m[2] \in Nat /\ batch \in Seq(Event)
  BY BatchIs
<1> HIDE DEF batch
<1>2. Len(batch) \in Nat /\ DOMAIN batch = 1..Len(batch) /\ \A i \in 1..Len(batch) : batch[i] \in Event
  BY <1>1
<1>3. ASSUME NEW i \in Nat, NEW op \in {"store", "remove", "clear"}, NEW key \in Blocks \cup {NoBlock},
             op = "clear" \/ key \in Blocks
      PROVE  PostOf(i, op, key) \in Posted
  BY <1>1, <1>3 DEF Posted
<1> HIDE DEF PostOf
<1>4. clear \in Seq(Posted)
  BY <1>3
<1>5. \A e \in Event : /\ e.op \in {"store", "remove", "clear"} /\ e.key \in Blocks \cup {NoBlock}
                       /\ e.op = "clear" \/ e.key \in Blocks
  BY DEF Event
<1>6. own \in Seq(Posted)
  BY <1>2, <1>3, <1>5
<1> HIDE DEF clear, own
<1>7. (IF restarted THEN clear ELSE <<>>) \o own \in Seq(Posted)
  BY <1>4, <1>6
<1> QED
  BY <1>7 DEF Posts, clear, own, PostOf, batch

LEMMA FreshIs == ASSUME NEW c \in Boots PROVE Fresh(c) \in Checkpoint
  BY KVAssumption DEF Fresh, Checkpoint, Generations, Configured, Boots

LEMMA AdapterIs ==
    ASSUME file \in Checkpoint, conf \in Boots
    PROVE  /\ Adapter \in Checkpoint /\ Adapter.gen \in Generations
           /\ Adapter.last \in Nat \cup {NoSequence}
<1>1. Adapter \in Checkpoint
  BY FreshIs DEF Adapter
<1> QED
  BY <1>1 DEF Checkpoint

-----------------------------------------------------------------------------
(* The inductive invariant.                                                *)

Typed ==
    /\ log \in Log /\ Len(log) \in Boots
    /\ Valid(sub, log) /\ Valid(job, log)
    /\ pc \in {"down", "replay", "work", "post"} /\ conf \in Boots
    /\ file \in Checkpoint /\ upd \in Checkpoint
    /\ todo \in Seq(Posted) /\ late \subseteq Posted
    /\ origin \in [Generations -> SUBSET (Boots \cup {Torn})]

Indexed == /\ p \in Provider /\ Bounded(p)
           /\ p.gen[Backend] = NoGeneration => p.last[Backend] = NoSequence

KVInv == Typed /\ Indexed

LEMMA InvAtStart == Init => KVInv
<1> SUFFICES ASSUME Init PROVE KVInv
  OBVIOUS
<1>1. 1 \in Boots
  BY KVAssumption DEF Boots
<1>2. log \in Log /\ Len(log) = 1
  <2>1. <<>> \in Seq(EventBatch)
    OBVIOUS
  <2> QED
    BY <2>1 DEF Init, Log
<1>3. Typed
  BY <1>1, <1>2, ValidEmpty, FreshIs DEF Init, Typed
<1>4. PICK max \in MaxEntries : p = New(max)
  BY DEF Init
<1>5. Indexed
  BY <1>4, NewIs DEF Indexed
<1> QED
  BY <1>3, <1>5 DEF KVInv

\* The engine publishes, or starts again.
LEMMA EngineKeeps == ASSUME KVInv, Engine PROVE KVInv'
<1>1. log \in Log /\ Len(log) \in Boots /\ Valid(sub, log) /\ Valid(job, log) /\ MaxEpochs \in Nat
  BY KVAssumption DEF KVInv, Typed
<1>2. UNCHANGED <<pc, job, todo, upd, conf, file, late, p, origin>>
  BY DEF Engine, Publish, EngineRestart, work
<1>3. ASSUME NEW room, NEW batch \in Batches(room), NEW heard \in BOOLEAN, Publish(batch, heard)
      PROVE  /\ Extends(log, log') /\ Len(log') \in Boots
             /\ sub' = sub \/ sub' = Append(sub, <<Boot, Len(log[Boot])>>)
             /\ Valid(<<<<Boot, Len(log[Boot])>>>>, log')
  <2>1. batch \in EventBatch
    BY <1>1, BatchesAre
  <2>2. /\ log' = [log EXCEPT ![Boot] = Append(@, batch)]
        /\ sub' = sub \/ sub' = Append(sub, <<Boot, Len(log[Boot])>>)
    BY <1>3 DEF Publish
  <2> QED
    BY <1>1, <2>1, <2>2, PublishGrows
<1>4. ASSUME EngineRestart
      PROVE  Extends(log, log') /\ Len(log') \in Boots /\ sub' = sub
  <2>1. log' = Append(log, <<>>) /\ sub' = sub /\ Len(log) + conf < MaxEpochs
    BY <1>4 DEF EngineRestart, work, Boot
  <2>2. Len(log) + 1 \in Boots
    BY <1>1, <2>1 DEF KVInv, Typed, Boots
  <2> QED
    BY <1>1, <2>1, <2>2, RestartGrows
<1>5. /\ Extends(log, log') /\ Len(log') \in Boots
      /\ \/ sub' = sub
         \/ /\ sub' = Append(sub, <<Boot, Len(log[Boot])>>)
            /\ Valid(<<<<Boot, Len(log[Boot])>>>>, log')
  BY <1>3, <1>4 DEF Engine
<1>6. Valid(job, log') /\ Valid(sub, log')
  BY <1>1, <1>5, ValidGrows
<1>7. Valid(sub', log')
  <2>1. CASE sub' = sub
    BY <1>6, <2>1
  <2>2. CASE sub' = Append(sub, <<Boot, Len(log[Boot])>>) /\ Valid(<<<<Boot, Len(log[Boot])>>>>, log')
    <3> DEFINE m == <<Boot, Len(log[Boot])>>
    <3>1. Valid(<<m>>, log') /\ sub' = Append(sub, m)
      BY <2>2
    <3> HIDE DEF m
    <3>2. sub \in Seq(Boots \X Nat) /\ <<m>> \in Seq(Boots \X Nat)
      BY <1>6, <3>1 DEF Valid
    <3>3. Append(sub, m) = sub \o <<m>>
      BY <3>2, AppendIsConcat
    <3> QED
      BY <1>6, <3>1, <3>3, ValidConcat
  <2> QED
    BY <1>5, <2>1, <2>2
<1>8. log' \in Log
  BY <1>5 DEF Extends
<1>9. Typed'
  BY <1>2, <1>5, <1>6, <1>7, <1>8 DEF KVInv, Typed
<1> QED
  BY <1>2, <1>9 DEF KVInv, Indexed

\* What a bridge that dies leaves behind.
LEMMA DeathKeeps ==
    ASSUME KVInv, Die, UNCHANGED <<log, conf, file, origin>>, late' \subseteq Posted PROVE Typed'
<1>1. pc' = "down" /\ sub' = <<>> /\ job' = <<>> /\ todo' = <<>> /\ upd' = Fresh(1)
  BY DEF Die
<1>2. Fresh(1) \in Checkpoint
  BY FreshIs, KVAssumption DEF Boots
<1>3. <<>> \in Seq(Posted)
  OBVIOUS
<1> QED
  BY <1>1, <1>2, <1>3, ValidEmpty DEF KVInv, Typed

\* A table over an initial segment of the numbers is a sequence.
LEMMA TableIsSequence ==
    ASSUME NEW S, NEW k \in Nat, NEW f \in [1..k -> S] PROVE f \in Seq(S)
  BY SeqDef

\* The replayed batches are published ones.
LEMMA ReplayedIs ==
    ASSUME log \in Log, Len(log) \in Boots, NEW first \in Nat
    PROVE  Valid([i \in 1..(Len(log[Boot]) - first) |-> <<Boot, first + i - 1>>], log)
<1> DEFINE n == Len(log[Boot]) - first
           s == [i \in 1..n |-> <<Boot, first + i - 1>>]
<1>1. Boot \in 1..Len(log) /\ Boot \in Boots /\ Boot \in Nat /\ Boot <= Len(log)
  BY DEF Boot, Boots, Log
<1>2. Len(log[Boot]) \in Nat /\ n \in Int
  BY <1>1 DEF Log
<1>3. \A i \in 1..n : /\ first + i - 1 \in Nat /\ first + i - 1 < Len(log[Boot])
  BY <1>2
<1> HIDE DEF n
<1>4. \A i \in 1..n : s[i] \in Boots \X Nat /\ s[i][1] = Boot /\ s[i][2] = first + i - 1
  BY <1>1, <1>3
<1>5. s \in [1..n -> Boots \X Nat] /\ DOMAIN s = 1..n
  BY <1>4
<1> HIDE DEF s
<1>7. s \in Seq(Boots \X Nat)
  <2>1. CASE n \in Nat
    BY <1>5, <2>1, TableIsSequence
  <2>2. CASE n \notin Nat
    <3>1. 1..n = 1..0
      BY <1>2, <2>2
    <3>2. s \in [1..0 -> Boots \X Nat]
      BY <1>5, <3>1
    <3> QED
      BY <3>2, TableIsSequence
  <2> QED
    BY <2>1, <2>2
<1>6. Valid(s, log)
  BY <1>1, <1>3, <1>4, <1>5, <1>7 DEF Valid
<1> QED
  BY <1>6 DEF n, s

LEMMA TakenKeeps ==
    ASSUME Valid(sub, log), Valid(job, log), HasBatch, Taken
    PROVE  Valid(sub', log) /\ Valid(job', log) /\ Valid(<<Batch>>, log)
  BY ValidTail DEF HasBatch, Taken, Batch

\* The steps of the bridge.
LEMMA BridgeKeeps == ASSUME KVInv, Bridge PROVE KVInv'
<1>1. /\ log \in Log /\ Len(log) \in Boots /\ Valid(sub, log) /\ Valid(job, log)
      /\ conf \in Boots /\ file \in Checkpoint /\ upd \in Checkpoint
      /\ todo \in Seq(Posted) /\ late \subseteq Posted
      /\ origin \in [Generations -> SUBSET (Boots \cup {Torn})]
      /\ Boot \in Boots /\ log' = log
  BY DEF KVInv, Typed, Boot, Bridge, Crash, Start, Replay, SkipDuplicate, SeeGap, Prepare, Post,
     PostTimesOut, Commit
<1>2. /\ Adapter \in Checkpoint /\ Adapter.gen \in Generations
      /\ Adapter.last \in Nat \cup {NoSequence}
  BY <1>1, AdapterIs
<1>3. CASE Crash
  BY <1>1, <1>3, DeathKeeps DEF Crash, KVInv, Indexed
<1>4. ASSUME NEW c \in Boots, Start(c) PROVE KVInv'
  BY <1>1, <1>4 DEF Start, KVInv, Typed, Indexed
<1>5. CASE Replay
  <2> DEFINE start == Adapter.last + 1
             size  == Len(log[Boot])
             first == IF start + BufferSteps < size THEN size - BufferSteps ELSE start
  <2>1. UNCHANGED <<conf, file, late, p>>
    BY <1>5 DEF Replay
  <2>2. origin' = [origin EXCEPT ![Adapter.gen] = @ \cup {Boot}]
    BY <1>5 DEF Replay
  <2>3. origin' \in [Generations -> SUBSET (Boots \cup {Torn})]
    BY <1>1, <1>2, <2>2
  <2>4. CASE Die
    <3>1. Typed'
      <4>1. /\ pc' = "down" /\ sub' = <<>> /\ job' = <<>> /\ todo' = <<>> /\ upd' = Fresh(1)
        BY <2>4 DEF Die
      <4>2. Fresh(1) \in Checkpoint /\ <<>> \in Seq(Posted)
        BY FreshIs, KVAssumption DEF Boots
      <4> QED
        BY <1>1, <2>1, <2>3, <4>1, <4>2, ValidEmpty DEF Typed
    <3> QED
      BY <2>1, <3>1 DEF KVInv, Indexed
  <2>5. CASE ~Die
    <3>1. /\ first \in Nat
          /\ pc' = "work" /\ UNCHANGED <<sub, todo, upd>>
          /\ job' = [i \in 1..(size - first) |-> <<Boot, first + i - 1>>] \o job
      <4>1. /\ ~(first > start) /\ pc' = "work" /\ UNCHANGED <<sub, todo, upd>>
            /\ job' = [i \in 1..(size - first) |-> <<Boot, first + i - 1>>] \o job
        BY <1>5, <2>5 DEF Replay
      <4>2. start \in Nat
        BY <1>2 DEF NoSequence
      <4>3. size \in Nat /\ BufferSteps \in Nat
        BY <1>1, KVAssumption DEF Log, Boot, Boots
      <4>4. first \in Nat
        BY <4>2, <4>3
      <4> QED
        BY <4>1, <4>4
    <3> HIDE DEF first
    <3>2. Valid([i \in 1..(size - first) |-> <<Boot, first + i - 1>>], log)
      BY <1>1, <3>1, ReplayedIs
    <3>3. Valid(job', log)
      BY <1>1, <3>1, <3>2, ValidConcat
    <3>4. Typed'
      BY <1>1, <2>1, <2>3, <3>1, <3>3 DEF Typed
    <3> QED
      BY <2>1, <3>4 DEF KVInv, Indexed
  <2> QED
    BY <2>4, <2>5
<1>6. CASE SkipDuplicate
  <2>1. HasBatch /\ Taken /\ UNCHANGED <<pc, todo, upd, conf, file, late, p, origin>>
    BY <1>6 DEF SkipDuplicate
  <2>2. Valid(sub', log) /\ Valid(job', log)
    BY <1>1, <2>1, TakenKeeps
  <2> QED
    BY <1>1, <2>1, <2>2 DEF KVInv, Typed, Indexed
<1>7. CASE SeeGap
  <2>1. HasBatch /\ UNCHANGED <<conf, file, late, p, origin>>
    BY <1>7 DEF SeeGap
  <2>2. CASE job # <<>>
    <3>1. Die
      BY <1>7, <2>2 DEF SeeGap
    <3> QED
      BY <1>1, <2>1, <3>1, DeathKeeps DEF KVInv, Indexed
  <2>3. CASE job = <<>>
    <3>1. /\ pc' = "replay" /\ job' = <<Batch>> /\ sub' = Tail(sub) /\ UNCHANGED <<todo, upd>>
          /\ sub # <<>> /\ Batch = Head(sub)
      BY <1>7, <2>1, <2>3 DEF SeeGap, HasBatch, Batch
    <3>2. Valid(sub', log) /\ Valid(job', log)
      BY <1>1, <3>1, ValidTail
    <3> QED
      BY <1>1, <2>1, <3>1, <3>2 DEF KVInv, Typed, Indexed
  <2> QED
    BY <2>2, <2>3
<1>8. CASE Prepare
  <2> DEFINE m   == Batch
             gen == IF Restarted(m) THEN Automatic(m[1]) ELSE Adapter.gen
             torn == IF Known \/ m[2] = 0 THEN {} ELSE {Torn}
  <2>1. /\ HasBatch /\ Taken /\ pc' = "post" /\ todo' = Posts(m, gen, Restarted(m))
        /\ upd' = [conf |-> conf, gen |-> gen, last |-> m[2], boot |-> m[1]]
        /\ origin' = [origin EXCEPT ![gen] = @ \cup {m[1]} \cup torn]
        /\ UNCHANGED <<conf, file, late, p>>
    BY <1>8 DEF Prepare
  <2>2. Valid(sub', log) /\ Valid(job', log) /\ Valid(<<m>>, log)
    BY <1>1, <2>1, TakenKeeps
  <2>3. m \in Boots \X Nat /\ m[1] \in Boots /\ m[2] \in Nat
    <3> HIDE DEF m
    <3> QED
      BY <1>1, <2>2, BatchIs
  <2>4. gen \in Generations
    BY <1>2, <2>3 DEF Generations
  <2>5. Restarted(m) \in BOOLEAN
    BY DEF Restarted, Known
  <2> HIDE DEF m, gen
  <2>6. todo' \in Seq(Posted)
    BY <1>1, <2>1, <2>2, <2>4, <2>5, PostsAre
  <2>7. upd' \in Checkpoint
    BY <1>1, <2>1, <2>3, <2>4 DEF Checkpoint, Boots
  <2>8. origin' \in [Generations -> SUBSET (Boots \cup {Torn})]
    BY <1>1, <2>1, <2>3, <2>4
  <2> QED
    BY <1>1, <2>1, <2>2, <2>6, <2>7, <2>8 DEF KVInv, Typed, Indexed
<1>9. CASE Post
  <2>1. /\ todo # <<>> /\ p' = Observe(p, Head(todo)) /\ todo' = Tail(todo)
        /\ UNCHANGED <<sub, pc, job, upd, conf, file, late, origin>>
    BY <1>9 DEF Post
  <2>2. Head(todo) \in Posted /\ Tail(todo) \in Seq(Posted)
    BY <1>1, <2>1
  <2>3. Indexed'
    BY <2>1, <2>2, ObserveIs, PostedIs DEF KVInv, Indexed
  <2> QED
    BY <1>1, <2>1, <2>2, <2>3 DEF KVInv, Typed
<1>10. CASE PostTimesOut
  <2>1. todo # <<>> /\ late' = late \cup {Head(todo)} /\ Die /\ UNCHANGED <<conf, file, p, origin>>
    BY <1>10 DEF PostTimesOut
  <2>2. late' \subseteq Posted
    BY <1>1, <2>1
  <2> QED
    BY <1>1, <2>1, <2>2, DeathKeeps DEF KVInv, Indexed
<1>11. CASE Commit
  <2>1. /\ file' = upd /\ pc' = "work" /\ todo' = <<>> /\ upd' = Fresh(1)
        /\ UNCHANGED <<sub, job, conf, late, p, origin>>
    BY <1>11 DEF Commit
  <2>2. Fresh(1) \in Checkpoint /\ <<>> \in Seq(Posted)
    BY FreshIs, KVAssumption DEF Boots
  <2> QED
    BY <1>1, <2>1, <2>2 DEF KVInv, Typed, Indexed
<1> QED
  BY <1>3, <1>4, <1>5, <1>6, <1>7, <1>8, <1>9, <1>10, <1>11 DEF Bridge

\* The steps of the gateway.
LEMMA GatewayKeeps == ASSUME KVInv, Gateway PROVE KVInv'
<1>1. p \in Provider /\ Bounded(p) /\ p.max \in MaxEntries
      /\ (p.gen[Backend] = NoGeneration => p.last[Backend] = NoSequence)
  BY DEF KVInv, Indexed, Provider
<1>2. ASSUME NEW ev \in late, LatePost(ev) PROVE KVInv'
  <2>1. ev \in Posted /\ late' \subseteq Posted
    BY <1>2 DEF LatePost, KVInv, Typed
  <2>2. Indexed'
    BY <1>1, <1>2, <2>1, ObserveIs, PostedIs DEF LatePost, Indexed
  <2> QED
    BY <1>2, <2>1, <2>2 DEF LatePost, work, KVInv, Typed
<1>3. ASSUME NEW ks \in Lookups, Match(ks) PROVE KVInv'
  <2>1. Indexed'
    BY <1>1, <1>3, UsedIs DEF Match, Indexed
  <2> QED
    BY <1>3, <2>1 DEF Match, work, KVInv, Typed
<1>4. CASE Evict
  <2>1. Indexed'
    BY <1>1, <1>4, DropIs, DropBounded DEF Evict, Indexed
  <2> QED
    BY <1>4, <2>1 DEF Evict, work, KVInv, Typed
<1>5. CASE GatewayRestart
  <2>1. Indexed'
    BY <1>1, <1>5, NewIs DEF GatewayRestart, Indexed
  <2>2. origin' \in [Generations -> SUBSET (Boots \cup {Torn})]
    BY <1>5 DEF GatewayRestart, KVInv, Typed, Checkpoint
  <2> QED
    BY <1>5, <2>1, <2>2 DEF GatewayRestart, work, KVInv, Typed
<1> QED
  BY <1>2, <1>3, <1>4, <1>5 DEF Gateway

\* The inductive invariant of the event path, for any blocks, capacities, losses and restarts:
\* types, batches that were published, and an index within its limit (vllm.py, Observe).
THEOREM EventsHold == Spec => []KVInv
<1>1. KVInv /\ [Next]_vars => KVInv'
  <2> SUFFICES ASSUME KVInv, [Next]_vars PROVE KVInv'
    OBVIOUS
  <2>1. CASE Next
    BY <2>1, EngineKeeps, BridgeKeeps, GatewayKeeps DEF Next
  <2>2. CASE UNCHANGED vars
    BY <2>2 DEF vars, work, KVInv, Typed, Indexed
  <2> QED
    BY <2>1, <2>2
<1> QED
  BY <1>1, InvAtStart, PTL DEF Spec

\* Every variable has its type and no batch is received before it is published, whatever is
\* lost, replayed, late or restarted (vllm.py VLLMSubscriber, cache_provider.go Observe).
THEOREM EventsTyped == Spec => []TypeOK
<1>1. KVInv => TypeOK
  BY DEF KVInv, Typed, Indexed, TypeOK, Valid, Log, EventBatch, Boot
<1> QED
  BY <1>1, EventsHold, PTL

\* The index never exceeds its capacity, and its list is a strict order of exactly the entries
\* of its map, under every sequence of posts, matches, evictions and restarts
\* (cache_provider.go Observe, clearBackend, Match).
THEOREM IndexAlwaysBounded == Spec => []IndexBounded
<1>1. KVInv => IndexBounded
  BY DEF KVInv, Indexed, IndexBounded, Bounded
<1> QED
  BY <1>1, EventsHold, PTL

\* Within a generation the provider never goes back to an earlier batch, whatever is repeated
\* or late, and also when its ID is forgotten (cache_provider.go Observe's early returns).
THEOREM SequenceStaysForward == Spec => SequenceNeverBack
<1> DEFINE Forward == p'.gen[Backend] = p.gen[Backend] => p'.last[Backend] >= p.last[Backend]
<1>1. ASSUME KVInv, [Next]_vars PROVE Forward
  <2>1. /\ p \in Provider /\ Bounded(p) /\ p.last[Backend] \in Int /\ p.max \in MaxEntries
        /\ (p.gen[Backend] = NoGeneration => p.last[Backend] = NoSequence)
    BY <1>1, KVAssumption DEF KVInv, Indexed, Provider, NoSequence
  <2>2. ASSUME p' = p PROVE Forward
    BY <2>1, <2>2
  <2>3. ASSUME NEW ev \in Posted, p' = Observe(p, ev) PROVE Forward
    BY <2>1, <2>3, ObserveIs
  <2>4. ASSUME Engine PROVE p' = p
    BY <2>4 DEF Engine, Publish, EngineRestart
  <2>5. ASSUME Bridge PROVE Forward
    <3>1. CASE Post
      <4>1. Head(todo) \in Posted /\ p' = Observe(p, Head(todo))
        BY <1>1, <3>1 DEF Post, KVInv, Typed
      <4> QED
        BY <2>3, <4>1
    <3>2. CASE ~Post
      BY <2>2, <2>5, <3>2 DEF Bridge, Crash, Start, Replay, SkipDuplicate, SeeGap, Prepare,
         PostTimesOut, Commit
    <3> QED
      BY <3>1, <3>2
  <2>6. ASSUME Gateway PROVE Forward
    <3>1. ASSUME NEW ev \in late, LatePost(ev) PROVE Forward
      BY <1>1, <2>2, <2>3, <3>1 DEF LatePost, KVInv, Typed
    <3>2. ASSUME NEW ks \in Lookups, Match(ks) PROVE Forward
      BY <2>1, <3>2, UsedIs DEF Match
    <3>3. CASE Evict
      BY <2>1, <3>3, DropIs DEF Evict
    <3>4. CASE GatewayRestart
      BY <2>1, <3>4, NewIs DEF GatewayRestart
    <3> QED
      BY <2>6, <3>1, <3>2, <3>3, <3>4 DEF Gateway
  <2> QED
    BY <1>1, <2>2, <2>4, <2>5, <2>6 DEF Next, vars
<1>2. KVInv /\ [Next]_vars => [Forward]_vars
  BY <1>1
<1> QED
  BY <1>2, EventsHold, PTL DEF Spec, SequenceNeverBack
=============================================================================
