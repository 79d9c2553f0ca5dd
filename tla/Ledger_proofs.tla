---------------------------- MODULE Ledger_proofs ----------------------------
(***************************************************************************)
(* The ledger's index and journals agree, for any number of requests and   *)
(* any capacity of the index; and what the predictor takes from the        *)
(* journals is what happened.                                              *)
(***************************************************************************)
EXTENDS Predictor, TLAPS, SequenceTheorems, WellFoundedInduction

Once(s) == \A i, j \in DOMAIN s : s[i] = s[j] => i = j

------------------------------------------------------------------------------
(* Sequences of IDs.                                                        *)

\* Appending a new ID keeps a sequence free of repetitions.
LEMMA AppendOnce ==
    ASSUME NEW s \in Seq(Requests), NEW r \in Requests, r \notin Ids(s), Once(s)
    PROVE  /\ Append(s, r) \in Seq(Requests) /\ Len(Append(s, r)) = Len(s) + 1
           /\ Once(Append(s, r)) /\ Ids(Append(s, r)) = Ids(s) \cup {r}
<1>1. /\ Append(s, r) \in Seq(Requests) /\ Len(Append(s, r)) = Len(s) + 1
      /\ DOMAIN Append(s, r) = 1..(Len(s) + 1) /\ DOMAIN s = 1..Len(s) /\ Len(s) \in Nat
      /\ \A i \in 1..Len(s) : Append(s, r)[i] = s[i]
      /\ Append(s, r)[Len(s) + 1] = r
  OBVIOUS
<1>2. \A i \in 1..(Len(s) + 1) : i \in 1..Len(s) \/ i = Len(s) + 1
  BY <1>1
<1>3. \A i \in 1..Len(s) : s[i] # r
  BY <1>1 DEF Ids
<1>4. Once(Append(s, r))
  BY <1>1, <1>2, <1>3 DEF Once
<1>5. Ids(Append(s, r)) = Ids(s) \cup {r}
  BY <1>1, <1>2 DEF Ids
<1> QED BY <1>1, <1>4, <1>5

\* Dropping the first ID drops exactly it.
LEMMA TailOnce ==
    ASSUME NEW s \in Seq(Requests), Once(s), Len(s) > 0
    PROVE  /\ Tail(s) \in Seq(Requests) /\ Len(Tail(s)) = Len(s) - 1
           /\ Once(Tail(s)) /\ Ids(Tail(s)) = Ids(s) \ {Head(s)}
<1>1. /\ Tail(s) \in Seq(Requests) /\ Len(Tail(s)) = Len(s) - 1
      /\ DOMAIN Tail(s) = 1..(Len(s) - 1) /\ DOMAIN s = 1..Len(s) /\ Len(s) \in Nat
      /\ \A i \in 1..(Len(s) - 1) : Tail(s)[i] = s[i + 1]
      /\ Head(s) = s[1]
  OBVIOUS
<1>2. Once(Tail(s))
  BY <1>1 DEF Once
<1>3. ASSUME NEW x \in Ids(Tail(s)) PROVE x \in Ids(s) \ {Head(s)}
  <2>1. PICK i \in 1..(Len(s) - 1) : x = s[i + 1]
    BY <1>1, <1>3 DEF Ids
  <2>2. i + 1 \in DOMAIN s /\ 1 \in DOMAIN s /\ i + 1 # 1
    BY <1>1
  <2> QED BY <2>1, <2>2, <1>1 DEF Ids, Once
<1>4. ASSUME NEW x \in Ids(s) \ {Head(s)} PROVE x \in Ids(Tail(s))
  <2>1. PICK i \in 1..Len(s) : x = s[i]
    BY <1>1, <1>4 DEF Ids
  <2>2. i # 1
    BY <2>1, <1>1
  <2>3. i - 1 \in 1..(Len(s) - 1) /\ (i - 1) + 1 = i
    BY <2>2, <1>1
  <2> QED BY <2>1, <2>3, <1>1 DEF Ids
<1> QED BY <1>1, <1>2, <1>3, <1>4

\* The kept part of a journal is a part of it, and no longer than the index.
LEMMA KeptPart ==
    ASSUME NEW s \in Seq(Requests)
    PROVE  /\ Kept(s) \in Seq(Requests)
           /\ Len(Kept(s)) = IF Len(s) > MaxEntries THEN MaxEntries ELSE Len(s)
           /\ \A i \in 1..Len(Kept(s)) : Kept(s)[i] = s[i + (Len(s) - Len(Kept(s)))]
           /\ Ids(Kept(s)) \subseteq Ids(s)
           /\ Once(s) => Once(Kept(s))
<1> DEFINE a == IF Len(s) > MaxEntries THEN Len(s) - MaxEntries + 1 ELSE 1
<1>1. Len(s) \in Nat /\ a \in 1..(Len(s) + 1) /\ DOMAIN s = 1..Len(s)
  BY LedgerAssumption
<1>2. \A i \in a..Len(s) : s[i] \in Requests
  BY <1>1
<1>a. /\ a = IF Len(s) > MaxEntries THEN Len(s) - MaxEntries + 1 ELSE 1
      /\ MaxEntries \in Nat
  BY LedgerAssumption
<1> HIDE DEF a
<1>3. /\ SubSeq(s, a, Len(s)) \in Seq(Requests)
      /\ Len(SubSeq(s, a, Len(s))) = Len(s) - a + 1
      /\ \A i \in 1..(Len(s) - a + 1) : SubSeq(s, a, Len(s))[i] = s[a + i - 1]
  BY <1>1, <1>2, SubSeqProperties
<1>4. Kept(s) = SubSeq(s, a, Len(s))
  BY DEF Kept, a
<1>5. /\ Kept(s) \in Seq(Requests)
      /\ Len(Kept(s)) = IF Len(s) > MaxEntries THEN MaxEntries ELSE Len(s)
      /\ Len(s) - Len(Kept(s)) = a - 1 /\ Len(Kept(s)) \in Nat
  <2>1. Kept(s) \in Seq(Requests) /\ Len(Kept(s)) = Len(s) - a + 1
    BY <1>3, <1>4
  <2> QED BY <2>1, <1>a, <1>1
<1>6. \A i \in 1..Len(Kept(s)) : /\ Kept(s)[i] = s[i + (Len(s) - Len(Kept(s)))]
                                 /\ i + (Len(s) - Len(Kept(s))) \in 1..Len(s)
  <2> SUFFICES ASSUME NEW i \in 1..Len(Kept(s))
               PROVE  /\ Kept(s)[i] = s[i + (Len(s) - Len(Kept(s)))]
                      /\ i + (Len(s) - Len(Kept(s))) \in 1..Len(s)
    OBVIOUS
  <2>1. /\ i \in 1..(Len(s) - a + 1) /\ i + (Len(s) - Len(Kept(s))) = a + i - 1
        /\ a + i - 1 \in 1..Len(s)
    BY <1>5, <1>1
  <2> QED BY <2>1, <1>3, <1>4
<1>7. DOMAIN Kept(s) = 1..Len(Kept(s))
  BY <1>5
<1>8. Ids(Kept(s)) \subseteq Ids(s)
  BY <1>6, <1>7, <1>1 DEF Ids
<1>9. Once(s) => Once(Kept(s))
  BY <1>6, <1>7, <1>1, <1>5 DEF Once
<1> QED BY <1>5, <1>6, <1>8, <1>9

\* What replay keeps of a longer journal is what recordLocked makes of the index.
LEMMA KeptAppend ==
    ASSUME NEW s \in Seq(Requests), NEW r \in Requests
    PROVE  Kept(Append(s, r)) = LET t == Append(Kept(s), r)
                                IN  IF Len(t) > MaxEntries THEN Tail(t) ELSE t
<1> DEFINE t == Append(Kept(s), r)
           u == IF Len(t) > MaxEntries THEN Tail(t) ELSE t
           k == Kept(Append(s, r))
<1>1. /\ Append(s, r) \in Seq(Requests) /\ Len(Append(s, r)) = Len(s) + 1 /\ Len(s) \in Nat
      /\ \A i \in 1..Len(s) : Append(s, r)[i] = s[i]
      /\ Append(s, r)[Len(s) + 1] = r
  OBVIOUS
<1>2. /\ Kept(s) \in Seq(Requests)
      /\ Len(Kept(s)) = IF Len(s) > MaxEntries THEN MaxEntries ELSE Len(s)
      /\ \A i \in 1..Len(Kept(s)) : Kept(s)[i] = s[i + (Len(s) - Len(Kept(s)))]
  BY KeptPart
<1>3. /\ k \in Seq(Requests)
      /\ Len(k) = IF Len(s) + 1 > MaxEntries THEN MaxEntries ELSE Len(s) + 1
      /\ \A i \in 1..Len(k) : k[i] = Append(s, r)[i + (Len(s) + 1 - Len(k))]
  <2> DEFINE js == Append(s, r)
  <2>1. js \in Seq(Requests) /\ Len(js) = Len(s) + 1
    BY <1>1
  <2> HIDE DEF js
  <2>2. /\ Kept(js) \in Seq(Requests)
        /\ Len(Kept(js)) = IF Len(js) > MaxEntries THEN MaxEntries ELSE Len(js)
        /\ \A i \in 1..Len(Kept(js)) : Kept(js)[i] = js[i + (Len(js) - Len(Kept(js)))]
    BY <2>1, KeptPart
  <2> QED BY <2>1, <2>2 DEF js
<1>4. /\ t \in Seq(Requests) /\ Len(t) = Len(Kept(s)) + 1
      /\ \A i \in 1..Len(Kept(s)) : t[i] = Kept(s)[i]
      /\ t[Len(Kept(s)) + 1] = r
  BY <1>2
<1>5. /\ u \in Seq(Requests) /\ Len(u) = Len(k)
      /\ Len(t) > MaxEntries => \A i \in 1..Len(u) : u[i] = t[i + 1]
      /\ ~(Len(t) > MaxEntries) => u = t
  BY <1>2, <1>3, <1>4, LedgerAssumption
<1>6. ASSUME NEW i \in 1..Len(k) PROVE u[i] = k[i]
  <2> HIDE DEF t, u, k
  <2>1. CASE Len(t) > MaxEntries
    <3>1. Len(Kept(s)) = MaxEntries /\ Len(k) = MaxEntries /\ u[i] = t[i + 1]
          /\ Len(s) >= MaxEntries /\ i + 1 \in 1..(Len(Kept(s)) + 1)
      BY <2>1, <1>2, <1>3, <1>4, <1>5, <1>1, LedgerAssumption
    <3>2. CASE i = Len(k)
      <4>1. u[i] = r
        BY <3>1, <3>2, <1>4
      <4>2. i + (Len(s) + 1 - Len(k)) = Len(s) + 1
        BY <3>1, <3>2, <1>1, LedgerAssumption
      <4> QED BY <4>1, <4>2, <1>3, <1>1
    <3>3. CASE i # Len(k)
      <4>1. i + 1 \in 1..Len(Kept(s)) /\ (i + 1) + (Len(s) - Len(Kept(s))) \in 1..Len(s)
            /\ (i + 1) + (Len(s) - Len(Kept(s))) = i + (Len(s) + 1 - Len(k))
        BY <3>1, <3>3, <1>1, LedgerAssumption
      <4>2. u[i] = s[(i + 1) + (Len(s) - Len(Kept(s)))]
        BY <4>1, <3>1, <1>2, <1>4
      <4> QED BY <4>1, <4>2, <1>3, <1>1
    <3> QED BY <3>2, <3>3
  <2>2. CASE ~(Len(t) > MaxEntries)
    <3>1. Len(Kept(s)) = Len(s) /\ Len(k) = Len(s) + 1 /\ u[i] = t[i]
      BY <2>2, <1>2, <1>3, <1>4, <1>5, <1>1, LedgerAssumption
    <3>2. k[i] = Append(s, r)[i]
      BY <3>1, <1>3, <1>1
    <3>3. i \in 1..Len(s) \/ i = Len(s) + 1
      BY <3>1, <1>1
    <3> QED BY <3>1, <3>2, <3>3, <1>1, <1>2, <1>4
  <2> QED BY <2>1, <2>2
<1>7. u = k
  <2> HIDE DEF t, u, k
  <2> QED BY <1>3, <1>5, <1>6, SeqEqual
<1> QED BY <1>7

------------------------------------------------------------------------------
(* The index.                                                               *)

Inv == TypeOK /\ LedgerInv

\* The lines of the journals' files have their types.
DiskTypes == torn \in {"no", "cut", "glued"} /\ bare \subseteq {"decisions", "outcomes"}

IndexType == [order : Seq(Requests), entries : [Requests -> Entry]]

LEMMA EntryTypes == NotHeld \in Entry /\ Fresh \in Entry /\ Fresh.held /\ ~NotHeld.held
  BY DEF NotHeld, Fresh, Entry

\* recordLocked makes n of ix: a new decision is last, and the oldest one is out
\* when there are too many.
Recorded(ix, r, n) ==
    /\ n \in IndexType /\ Len(n.order) <= MaxEntries /\ Once(n.order)
    /\ n.order = LET t == Append(ix.order, r)
                 IN  IF Len(t) > MaxEntries THEN Tail(t) ELSE t
    /\ r \in Ids(n.order) /\ Ids(n.order) \subseteq Ids(ix.order) \cup {r}
    /\ \A q \in Requests : n.entries[q] =
         IF q \in Ids(ix.order) /\ q \notin Ids(n.order)
         THEN NotHeld ELSE IF q = r THEN Fresh ELSE ix.entries[q]
    /\ \A q \in Requests : n.entries[q].held <=> q \in Ids(n.order)

LEMMA RecordLocked ==
    ASSUME NEW ix \in IndexType, NEW r \in Requests, ~ix.entries[r].held,
           Len(ix.order) <= MaxEntries, Once(ix.order),
           \A q \in Requests : ix.entries[q].held <=> q \in Ids(ix.order)
    PROVE  Recorded(ix, r, recordLocked(ix, r))
<1> DEFINE t == Append(ix.order, r)
           o == IF Len(t) > MaxEntries THEN Tail(t) ELSE t
           e == [q \in Requests |-> IF Len(t) > MaxEntries /\ q = Head(t) THEN NotHeld
                                    ELSE IF q = r THEN Fresh ELSE ix.entries[q]]
<1>1. /\ ix.order \in Seq(Requests) /\ ix.entries \in [Requests -> Entry]
      /\ r \notin Ids(ix.order) /\ Len(ix.order) \in Nat
  BY DEF IndexType
<1>2. recordLocked(ix, r) = [order |-> o, entries |-> e]
  BY DEF recordLocked
<1>3. /\ t \in Seq(Requests) /\ Len(t) = Len(ix.order) + 1
      /\ Once(t) /\ Ids(t) = Ids(ix.order) \cup {r}
  BY <1>1, AppendOnce
<1>4. Len(t) > MaxEntries => Head(t) = ix.order[1] /\ 1 \in DOMAIN ix.order
  BY <1>1, LedgerAssumption
<1>5. Len(t) > MaxEntries => Head(t) # r /\ Head(t) \in Ids(ix.order)
  BY <1>4, <1>1 DEF Ids
<1> HIDE DEF t
<1>6. /\ o \in Seq(Requests) /\ Len(o) <= MaxEntries /\ Once(o)
      /\ Ids(o) = IF Len(t) > MaxEntries THEN Ids(t) \ {Head(t)} ELSE Ids(t)
  <2>1. Len(t) \in Nat /\ MaxEntries \in Nat
    BY <1>3, <1>1, LedgerAssumption
  <2>2. CASE Len(t) > MaxEntries
    <3>1. /\ Tail(t) \in Seq(Requests) /\ Len(Tail(t)) = Len(t) - 1
          /\ Once(Tail(t)) /\ Ids(Tail(t)) = Ids(t) \ {Head(t)}
      BY <2>1, <2>2, <1>3, TailOnce
    <3>2. o = Tail(t)
      BY <2>2
    <3>3. Len(t) - 1 <= MaxEntries
      BY <2>1, <1>1, <1>3, LedgerAssumption
    <3> HIDE DEF o
    <3> QED BY <2>2, <3>1, <3>2, <3>3
  <2>3. CASE ~(Len(t) > MaxEntries)
    <3>1. o = t /\ Len(t) <= MaxEntries
      BY <2>1, <2>3
    <3> HIDE DEF o
    <3> QED BY <2>3, <3>1, <1>3
  <2> QED BY <2>2, <2>3
<1> HIDE DEF o
<1>7. e \in [Requests -> Entry]
  BY <1>1, EntryTypes
<1>8. \A q \in Requests : e[q] = IF q \in Ids(ix.order) /\ q \notin Ids(o) THEN NotHeld
                                 ELSE IF q = r THEN Fresh ELSE ix.entries[q]
  BY <1>3, <1>5, <1>6, <1>1
<1>9. \A q \in Requests : e[q].held <=> q \in Ids(o)
  BY <1>8, <1>3, <1>5, <1>6, <1>1, EntryTypes
<1>10. r \in Ids(o) /\ Ids(o) \subseteq Ids(ix.order) \cup {r}
  BY <1>3, <1>5, <1>6
<1> HIDE DEF e
<1>11. recordLocked(ix, r).order = o /\ recordLocked(ix, r).entries = e
       /\ recordLocked(ix, r) \in IndexType
  BY <1>2, <1>6, <1>7 DEF IndexType
<1>12. o = LET v == Append(ix.order, r) IN IF Len(v) > MaxEntries THEN Tail(v) ELSE v
  BY DEF o, t
<1> QED BY <1>6, <1>8, <1>9, <1>10, <1>11, <1>12 DEF Recorded

\* recordOutcomeLocked changes the entry of a held decision only, and only its
\* content.
LEMMA RecordOutcomeLocked ==
    ASSUME NEW ix \in IndexType, NEW o \in Outcome
    PROVE  /\ recordOutcomeLocked(ix, o) \in IndexType
           /\ recordOutcomeLocked(ix, o).order = ix.order
           /\ \A q \in Requests : recordOutcomeLocked(ix, o).entries[q] =
                IF q = o.id /\ ix.entries[q].held
                THEN [held |-> TRUE, actual |-> o.actual, outcome |-> o.outcome]
                ELSE ix.entries[q]
           /\ \A q \in Requests : recordOutcomeLocked(ix, o).entries[q].held
                                    = ix.entries[q].held
<1> DEFINE n == [held |-> TRUE, actual |-> o.actual, outcome |-> o.outcome]
<1>1. /\ ix.order \in Seq(Requests) /\ ix.entries \in [Requests -> Entry]
      /\ o.id \in Requests /\ n \in Entry
      /\ \A q \in Requests : ix.entries[q].held \in BOOLEAN
  BY DEF IndexType, Outcome, Entry
<1>2. CASE ix.entries[o.id].held
  <2>1. recordOutcomeLocked(ix, o) = [ix EXCEPT !.entries[o.id] = n]
    BY <1>2 DEF recordOutcomeLocked
  <2> HIDE DEF n
  <2>2. /\ recordOutcomeLocked(ix, o).order = ix.order
        /\ recordOutcomeLocked(ix, o).entries = [ix.entries EXCEPT ![o.id] = n]
        /\ recordOutcomeLocked(ix, o) \in IndexType
    BY <2>1, <1>1 DEF IndexType
  <2>3. n.held = TRUE
    BY DEF n
  <2>4. \A q \in Requests : [ix.entries EXCEPT ![o.id] = n][q] =
                               IF q = o.id THEN n ELSE ix.entries[q]
    BY <1>1
  <2>5. \A q \in Requests : [ix.entries EXCEPT ![o.id] = n][q].held = ix.entries[q].held
    BY <2>3, <2>4, <1>1, <1>2
  <2> QED BY <2>2, <2>4, <2>5, <1>2 DEF n
<1>3. CASE ~ix.entries[o.id].held
  BY <1>3 DEF recordOutcomeLocked
<1> QED BY <1>2, <1>3

------------------------------------------------------------------------------
(* The initial state and each action.                                       *)

LEMMA InitInv == Init => Inv
<1> SUFFICES ASSUME Init PROVE Inv
  OBVIOUS
<1> USE DEF Init
<1>1. /\ Empty.order = <<>> /\ Empty.entries = [r \in Requests |-> NotHeld]
      /\ Empty \in IndexType
  BY EntryTypes DEF Empty, IndexType
<1>2. TypeOK
  <2>1. Len(index.order) <= MaxEntries
    BY <1>1, LedgerAssumption
  <2>2. index \in [order : Seq(Requests), entries : [Requests -> Entry]]
    BY <1>1 DEF IndexType
  <2>3. decisions \in Seq(Requests) /\ outcomes \in Seq(Outcome)
    OBVIOUS
  <2>4. durable \in BOOLEAN /\ err \in BOOLEAN /\ DiskTypes
    BY DEF DiskTypes
  <2> HIDE DEF Empty
  <2> QED BY <2>1, <2>2, <2>3, <2>4 DEF TypeOK, DiskTypes
<1>3. Ids(<<>>) = {}
  BY DEF Ids
<1>4. IndexCoherent
  BY <1>1, <1>3, EntryTypes DEF IndexCoherent
<1>5. JournalSound
  BY DEF JournalSound
<1>6. Kept(<<>>) = <<>>
  <2>1. <<>> \in Seq(Requests) /\ Len(<<>>) = 0
    OBVIOUS
  <2>2. \A s \in Seq(Requests) : Len(s) = 0 => Kept(s) \in Seq(Requests) /\ Len(Kept(s)) = 0
    <3> TAKE s \in Seq(Requests)
    <3>1. Kept(s) \in Seq(Requests)
          /\ Len(Kept(s)) = IF Len(s) > MaxEntries THEN MaxEntries ELSE Len(s)
      BY KeptPart
    <3> QED BY <3>1, LedgerAssumption
  <2>3. Kept(<<>>) \in Seq(Requests) /\ Len(Kept(<<>>)) = 0
    BY <2>1, <2>2
  <2> QED BY <2>3
<1>7. JournalsHoldIndex
  BY <1>1, <1>3, <1>6 DEF JournalsHoldIndex, Replay, SameEntry
<1>8. NothingAhead
  <2>1. decisions = <<>> /\ DOMAIN outcomes = {}
        /\ \A r \in Requests : ~index.entries[r].held
    BY <1>1, EntryTypes
  <2> QED BY <2>1, <1>3 DEF NothingAhead
<1> QED BY <1>2, <1>4, <1>5, <1>7, <1>8 DEF Inv, LedgerInv

\* A new line of a journal of outcomes restores its request and no other.
LEMMA RestoredAppend ==
    ASSUME NEW os \in Seq(Outcome), NEW o \in Outcome,
           \A i \in DOMAIN os : os[i].id # o.id
    PROVE  \A r \in Requests : Restored(Append(os, o), r) =
              IF r = o.id THEN [held |-> TRUE, actual |-> o.actual, outcome |-> o.outcome]
              ELSE Restored(os, r)
<1> SUFFICES ASSUME NEW r \in Requests
             PROVE Restored(Append(os, o), r) =
                     IF r = o.id THEN [held |-> TRUE, actual |-> o.actual, outcome |-> o.outcome]
                     ELSE Restored(os, r)
  OBVIOUS
<1> DEFINE js == Append(os, o)
<1>1. /\ Len(os) \in Nat /\ DOMAIN os = 1..Len(os) /\ DOMAIN js = 1..(Len(os) + 1)
      /\ \A i \in 1..Len(os) : js[i] = os[i]
      /\ js[Len(os) + 1] = o
  OBVIOUS
<1> HIDE DEF js
<1>2. CASE r = o.id
  <2>1. \A i \in DOMAIN js : js[i].id = r <=> i = Len(os) + 1
    BY <1>1, <1>2
  <2>2. (CHOOSE i \in DOMAIN js : js[i].id = r) = Len(os) + 1 /\ Len(os) + 1 \in DOMAIN js
    BY <2>1, <1>1
  <2> QED BY <2>1, <2>2, <1>1, <1>2 DEF Restored, js
<1>3. CASE r # o.id
  <2>1. \A i : (i \in DOMAIN js /\ js[i].id = r) <=> (i \in DOMAIN os /\ os[i].id = r)
    BY <1>1, <1>3
  <2>2. (CHOOSE i \in DOMAIN js : js[i].id = r) = (CHOOSE i \in DOMAIN os : os[i].id = r)
    BY <2>1
  <2>3. CASE \E i \in DOMAIN os : os[i].id = r
    <3>1. /\ (CHOOSE i \in DOMAIN os : os[i].id = r) \in DOMAIN os
          /\ \E i \in DOMAIN js : js[i].id = r
      BY <2>1, <2>3
    <3> QED BY <2>2, <2>3, <3>1, <1>1, <1>3 DEF Restored, js
  <2>4. CASE ~\E i \in DOMAIN os : os[i].id = r
    BY <2>1, <2>4, <1>3 DEF Restored, js
  <2> QED BY <2>3, <2>4
<1> QED BY <1>2, <1>3

\* What a write may do to the error and to the lines of the journals.
LEMMA WriteKeeps ==
    ASSUME TypeOK, JournalSound, torn # "no" => durable, up = "running",
           NEW journal \in {"decisions", "outcomes"}, NEW w \in Writes, Write(journal, w)
    PROVE  /\ err' \in BOOLEAN /\ DiskTypes'
           /\ torn' = "cut" => err'
           /\ torn' # "no" => durable
           /\ ~err' => ~err /\ w = "written"
<1>1. err \in BOOLEAN /\ durable \in BOOLEAN /\ DiskTypes
  BY DEF TypeOK, DiskTypes
<1>2. /\ w # "written" => durable /\ ~err
      /\ err' = (err \/ w # "written")
  BY DEF Write, Journals
<1>3. torn = "cut" => err
  BY DEF JournalSound
<1>4. torn' = CASE w = "torn" -> "cut"
               [] w \in {"written", "bare"} /\ Journals /\ journal \in bare -> "glued"
               [] OTHER -> torn
  BY DEF Write
<1>5. \/ w = "torn" /\ torn' = "cut"
      \/ w # "torn" /\ durable /\ torn' = "glued"
      \/ w # "torn" /\ torn' = torn
  BY <1>4 DEF Journals
<1>6. bare' \in {bare \cup {journal}, bare \ {journal}, bare}
  BY DEF Write
<1>7. DiskTypes'
  BY <1>1, <1>5, <1>6 DEF DiskTypes
<1> QED BY <1>1, <1>2, <1>3, <1>5, <1>7

\* The parts of the invariant that RecordLocked and its like need.
LEMMA IndexFacts ==
    ASSUME Inv
    PROVE  /\ index \in IndexType /\ Len(index.order) <= MaxEntries /\ Once(index.order)
           /\ \A q \in Requests : index.entries[q].held <=> q \in Ids(index.order)
           /\ decisions \in Seq(Requests) /\ outcomes \in Seq(Outcome) /\ Once(decisions)
  BY DEF Inv, TypeOK, IndexType, LedgerInv, IndexCoherent, JournalSound, Once

LEMMA RecordInv ==
    ASSUME Inv, NEW r \in Requests, NEW w \in Writes, Record(r, w)
    PROVE  Inv'
<1>1. /\ up = "running" /\ up' = up /\ durable' = durable /\ served' = served
      /\ pc[r] = "idle" /\ pc' = [pc EXCEPT ![r] = "planned"]
      /\ index' = recordLocked(index, r) /\ Write("decisions", w) /\ outcomes' = outcomes
      /\ decisions' = IF Whole(w) THEN Append(decisions, r) ELSE decisions
  BY DEF Record
<1>2. /\ index \in IndexType /\ Len(index.order) <= MaxEntries /\ Once(index.order)
      /\ \A q \in Requests : index.entries[q].held <=> q \in Ids(index.order)
      /\ decisions \in Seq(Requests) /\ outcomes \in Seq(Outcome) /\ Once(decisions)
  BY IndexFacts
<1>3. /\ pc \in [Requests -> {"idle", "planned", "served", "over"}]
      /\ r \notin Ids(decisions) /\ ~index.entries[r].held
      /\ \A i \in DOMAIN outcomes : outcomes[i].id # r
  BY <1>1 DEF Inv, TypeOK, LedgerInv, NothingAhead
<1>4. /\ index' \in IndexType /\ Len(index'.order) <= MaxEntries /\ Once(index'.order)
      /\ index'.order = LET t == Append(index.order, r)
                        IN  IF Len(t) > MaxEntries THEN Tail(t) ELSE t
      /\ r \in Ids(index'.order) /\ Ids(index'.order) \subseteq Ids(index.order) \cup {r}
      /\ \A q \in Requests : index'.entries[q] =
           IF q \in Ids(index.order) /\ q \notin Ids(index'.order)
           THEN NotHeld ELSE IF q = r THEN Fresh ELSE index.entries[q]
      /\ \A q \in Requests : index'.entries[q].held <=> q \in Ids(index'.order)
  <2>1. Recorded(index, r, index')
    BY <1>1, <1>2, <1>3, RecordLocked
  <2> QED BY <2>1 DEF Recorded
<1>5. /\ Append(decisions, r) \in Seq(Requests) /\ Once(Append(decisions, r))
      /\ Ids(Append(decisions, r)) = Ids(decisions) \cup {r}
  BY <1>2, <1>3, AppendOnce
<1>6. /\ decisions' \in Seq(Requests) /\ Once(decisions')
      /\ Ids(decisions) \subseteq Ids(decisions')
      /\ Ids(decisions') \subseteq Ids(decisions) \cup {r}
  BY <1>1, <1>2, <1>5
<1>7. /\ err' \in BOOLEAN /\ DiskTypes'
      /\ torn' = "cut" => err'
      /\ torn' # "no" => durable
      /\ ~err' => ~err /\ w = "written"
  BY <1>1, WriteKeeps DEF Inv, LedgerInv
<1>8. TypeOK'
  <2>1. pc' \in [Requests -> {"idle", "planned", "served", "over"}]
    BY <1>1, <1>3
  <2>2. durable' \in BOOLEAN /\ up' \in {"running", "down", "refused"}
        /\ served' \in [Requests -> Backends \cup {NoBackend}]
    BY <1>1 DEF Inv, TypeOK
  <2> QED BY <2>1, <2>2, <1>1, <1>2, <1>4, <1>6, <1>7 DEF TypeOK, IndexType, DiskTypes
<1>9. IndexCoherent'
  BY <1>4 DEF IndexCoherent, Once
<1>10. JournalSound'
  <2>1. /\ \A i, j \in DOMAIN outcomes : outcomes[i].id = outcomes[j].id => i = j
        /\ \A i \in DOMAIN outcomes : outcomes[i].id \in Ids(decisions)
    BY DEF Inv, LedgerInv, JournalSound
  <2> QED BY <2>1, <1>1, <1>6, <1>7 DEF JournalSound, Once
<1>11. NothingAhead'
  <2> SUFFICES ASSUME NEW q \in Requests
               PROVE  /\ pc'[q] = "idle" => q \notin Ids(decisions') /\ ~index'.entries[q].held
                      /\ pc'[q] # "over" => \A i \in DOMAIN outcomes : outcomes[i].id # q
    BY <1>1 DEF NothingAhead
  <2>1. CASE q = r
    BY <2>1, <1>1, <1>3
  <2>2. CASE q # r
    <3>1. pc'[q] = pc[q]
      BY <2>2, <1>1, <1>3
    <3>2. /\ pc[q] = "idle" => q \notin Ids(decisions) /\ ~index.entries[q].held
          /\ pc[q] # "over" => \A i \in DOMAIN outcomes : outcomes[i].id # q
      BY DEF Inv, LedgerInv, NothingAhead
    <3> QED BY <2>2, <3>1, <3>2, <1>2, <1>4, <1>6
  <2> QED BY <2>1, <2>2
<1>12. JournalsHoldIndex'
  <2> SUFFICES ASSUME Journals'
               PROVE  /\ index'.order = Replay(decisions', outcomes').order
                      /\ \A q \in Requests : SameEntry(index'.entries[q],
                                                Replay(decisions', outcomes').entries[q])
    BY DEF JournalsHoldIndex
  <2>1. Journals /\ decisions' = Append(decisions, r)
    BY <1>1, <1>7 DEF Journals, Whole
  <2>2. /\ index.order = Kept(decisions)
        /\ \A q \in Requests : SameEntry(index.entries[q],
              IF q \in Ids(Kept(decisions)) THEN Restored(outcomes, q) ELSE NotHeld)
    BY <2>1, <1>1 DEF Inv, LedgerInv, JournalsHoldIndex, Replay
  <2>3. index'.order = Kept(decisions')
    BY <2>1, <2>2, <1>2, <1>4, KeptAppend
  <2>4. Restored(outcomes, r) = Fresh
    BY <1>3 DEF Restored
  <2>5. ASSUME NEW q \in Requests
        PROVE  SameEntry(index'.entries[q],
                 IF q \in Ids(Kept(decisions')) THEN Restored(outcomes, q) ELSE NotHeld)
    <3>1. SameEntry(NotHeld, NotHeld) /\ SameEntry(Fresh, Fresh)
      BY DEF SameEntry
    <3>2. CASE q \in Ids(index.order) /\ q \notin Ids(index'.order)
      BY <3>1, <3>2, <2>3, <1>4
    <3>3. CASE q = r
      BY <3>1, <3>3, <2>3, <2>4, <1>2, <1>3, <1>4
    <3>4. CASE ~(q \in Ids(index.order) /\ q \notin Ids(index'.order)) /\ q # r
      <4>1. q \in Ids(index.order) <=> q \in Ids(index'.order)
        BY <3>4, <1>4
      <4>2. index'.entries[q] = index.entries[q]
        BY <3>4, <1>4
      <4> QED BY <4>1, <4>2, <2>2, <2>3
    <3> QED BY <3>2, <3>3, <3>4
  <2> QED BY <2>3, <2>5, <1>1 DEF Replay
<1> QED BY <1>1, <1>7, <1>8, <1>9, <1>10, <1>11, <1>12 DEF Inv, LedgerInv

LEMMA UpdateActualInv ==
    ASSUME Inv, NEW r \in Requests, NEW b \in Backends, UpdateActual(r, b)
    PROVE  Inv'
<1>1. /\ up = "running" /\ up' = up /\ durable' = durable /\ err' = err
      /\ decisions' = decisions /\ outcomes' = outcomes /\ torn' = torn /\ bare' = bare
      /\ pc[r] = "planned" /\ pc' = [pc EXCEPT ![r] = "served"]
      /\ served' = [served EXCEPT ![r] = b]
      /\ index' = IF index.entries[r].held
                  THEN [index EXCEPT !.entries[r].actual = b] ELSE index
  BY DEF UpdateActual, disk
<1>2. /\ index \in IndexType /\ Len(index.order) <= MaxEntries /\ Once(index.order)
      /\ \A q \in Requests : index.entries[q].held <=> q \in Ids(index.order)
  BY IndexFacts
<1>3. /\ index.order \in Seq(Requests) /\ index.entries \in [Requests -> Entry]
      /\ index.entries[r] \in Entry
  BY <1>2 DEF IndexType
<1> DEFINE e == [index.entries[r] EXCEPT !.actual = b]
<1>4. e \in Entry /\ e.held = index.entries[r].held /\ e.outcome = index.entries[r].outcome
  BY <1>3 DEF Entry
<1>5. /\ index' \in IndexType /\ index'.order = index.order
      /\ \A q \in Requests : q # r => index'.entries[q] = index.entries[q]
      /\ index'.entries[r] = index.entries[r] \/ index'.entries[r] = e
  <2>1. CASE index.entries[r].held
    <3>1. index' = [index EXCEPT !.entries = [index.entries EXCEPT ![r] = e]]
      BY <2>1, <1>1, <1>2 DEF IndexType
    <3> HIDE DEF e
    <3> QED BY <3>1, <1>2, <1>3, <1>4 DEF IndexType
  <2>2. CASE ~index.entries[r].held
    BY <2>2, <1>1, <1>2
  <2> QED BY <2>1, <2>2
<1>6. /\ \A q \in Requests : index'.entries[q].held = index.entries[q].held
      /\ \A q \in Requests : index'.entries[q].outcome = index.entries[q].outcome
  BY <1>4, <1>5
<1> HIDE DEF e
<1>7. TypeOK'
  <2>1. /\ pc' \in [Requests -> {"idle", "planned", "served", "over"}]
        /\ served' \in [Requests -> Backends \cup {NoBackend}]
    BY <1>1 DEF Inv, TypeOK
  <2>2. durable' \in BOOLEAN /\ err' \in BOOLEAN /\ DiskTypes'
        /\ up' \in {"running", "down", "refused"}
        /\ decisions' \in Seq(Requests) /\ outcomes' \in Seq(Outcome)
    BY <1>1 DEF Inv, TypeOK, DiskTypes
  <2> QED BY <2>1, <2>2, <1>2, <1>5 DEF TypeOK, IndexType, DiskTypes
<1>8. IndexCoherent'
  BY <1>2, <1>5, <1>6 DEF IndexCoherent, Once
<1>9. JournalSound'
  BY <1>1 DEF Inv, LedgerInv, JournalSound
<1>10. NothingAhead'
  <2>1. \A q \in Requests : /\ pc'[q] = "idle" => pc[q] = "idle"
                            /\ pc'[q] # "over" => pc[q] # "over"
    BY <1>1 DEF Inv, TypeOK
  <2> QED BY <2>1, <1>1, <1>6 DEF Inv, LedgerInv, NothingAhead
<1>11. JournalsHoldIndex'
  <2> SUFFICES ASSUME Journals
               PROVE  /\ index'.order = Replay(decisions, outcomes).order
                      /\ \A q \in Requests : SameEntry(index'.entries[q],
                                                Replay(decisions, outcomes).entries[q])
    BY <1>1 DEF JournalsHoldIndex, Journals
  <2>1. /\ index.order = Kept(decisions)
        /\ \A q \in Requests : SameEntry(index.entries[q],
              IF q \in Ids(Kept(decisions)) THEN Restored(outcomes, q) ELSE NotHeld)
    BY <1>1 DEF Inv, LedgerInv, JournalsHoldIndex, Replay
  <2>2. \A i \in DOMAIN outcomes : outcomes[i].id # r
    BY <1>1 DEF Inv, LedgerInv, NothingAhead
  <2>3. Restored(outcomes, r).outcome = "none" /\ NotHeld.outcome = "none"
    BY <2>2 DEF Restored, Fresh, NotHeld
  <2>4. \A q \in Requests : SameEntry(index'.entries[q],
              IF q \in Ids(Kept(decisions)) THEN Restored(outcomes, q) ELSE NotHeld)
    BY <2>1, <2>3, <1>5, <1>6 DEF SameEntry
  <2> QED BY <2>1, <2>4, <1>5 DEF Replay
<1> QED BY <1>1, <1>7, <1>8, <1>9, <1>10, <1>11 DEF Inv, LedgerInv

LEMMA RecordOutcomeInv ==
    ASSUME Inv, NEW o \in Outcome, NEW w \in Writes, RecordOutcome(o, w)
    PROVE  Inv'
<1>1. /\ up = "running" /\ up' = up /\ durable' = durable /\ served' = served
      /\ pc[o.id] \in {"planned", "served"} /\ pc' = [pc EXCEPT ![o.id] = "over"]
      /\ index' = recordOutcomeLocked(index, o) /\ decisions' = decisions
      /\ outcomes' = IF Logs(o, w) THEN Append(outcomes, o) ELSE outcomes
  BY DEF RecordOutcome
<1>2. /\ index \in IndexType /\ Len(index.order) <= MaxEntries /\ Once(index.order)
      /\ \A q \in Requests : index.entries[q].held <=> q \in Ids(index.order)
      /\ decisions \in Seq(Requests) /\ outcomes \in Seq(Outcome) /\ Once(decisions)
  BY IndexFacts
<1>3. /\ pc \in [Requests -> {"idle", "planned", "served", "over"}] /\ o.id \in Requests
      /\ \A i \in DOMAIN outcomes : outcomes[i].id # o.id
  BY <1>1 DEF Inv, TypeOK, LedgerInv, NothingAhead, Outcome
<1> DEFINE n == [held |-> TRUE, actual |-> o.actual, outcome |-> o.outcome]
<1>4. /\ index' \in IndexType /\ index'.order = index.order
      /\ \A q \in Requests : index'.entries[q] =
           IF q = o.id /\ index.entries[q].held THEN n ELSE index.entries[q]
      /\ \A q \in Requests : index'.entries[q].held = index.entries[q].held
  BY <1>1, <1>2, RecordOutcomeLocked
<1> HIDE DEF n
<1>5. /\ err' \in BOOLEAN /\ DiskTypes'
      /\ torn' = "cut" => err'
      /\ torn' # "no" => durable
      /\ ~err' => ~err /\ w = "written"
  <2>1. CASE index.entries[o.id].held
    <3>1. Write("outcomes", w)
      BY <2>1 DEF RecordOutcome
    <3> QED BY <3>1, <1>1, WriteKeeps DEF Inv, LedgerInv
  <2>2. CASE ~index.entries[o.id].held
    <3>1. w = "written" /\ err' = err /\ torn' = torn /\ bare' = bare
      BY <2>2 DEF RecordOutcome
    <3> QED BY <3>1, <1>1 DEF Inv, TypeOK, LedgerInv, JournalSound, DiskTypes
  <2> QED BY <2>1, <2>2
<1>6. Logs(o, w) => o.id \in Ids(decisions)
  <2> SUFFICES ASSUME Logs(o, w) PROVE o.id \in Ids(decisions)
    OBVIOUS
  <2>1. index.entries[o.id].held /\ Journals
    BY DEF Logs, Whole
  <2>2. index.order = Kept(decisions)
    BY <2>1, <1>1 DEF Inv, LedgerInv, JournalsHoldIndex, Replay
  <2>3. Ids(Kept(decisions)) \subseteq Ids(decisions)
    BY <1>2, KeptPart
  <2> QED BY <2>1, <2>2, <2>3, <1>2, <1>3
<1>7. /\ outcomes' \in Seq(Outcome)
      /\ \A i \in DOMAIN outcomes' :
           \/ i \in DOMAIN outcomes /\ outcomes'[i] = outcomes[i]
           \/ Logs(o, w) /\ i = Len(outcomes) + 1 /\ outcomes'[i] = o
  <2>1. CASE Logs(o, w)
    <3>1. outcomes' = Append(outcomes, o)
      BY <2>1, <1>1
    <3>2. /\ Append(outcomes, o) \in Seq(Outcome)
          /\ \A i \in DOMAIN Append(outcomes, o) :
               \/ i \in DOMAIN outcomes /\ Append(outcomes, o)[i] = outcomes[i]
               \/ i = Len(outcomes) + 1 /\ Append(outcomes, o)[i] = o
      BY <1>2
    <3> QED BY <2>1, <3>1, <3>2, Zenon
  <2>2. CASE ~Logs(o, w)
    <3>1. outcomes' = outcomes
      BY <2>2, <1>1
    <3> QED BY <3>1, <1>2, Zenon
  <2> QED BY <2>1, <2>2
<1>8. TypeOK'
  <2>1. pc' \in [Requests -> {"idle", "planned", "served", "over"}]
    BY <1>1, <1>3
  <2>2. durable' \in BOOLEAN /\ up' \in {"running", "down", "refused"}
        /\ served' \in [Requests -> Backends \cup {NoBackend}]
    BY <1>1 DEF Inv, TypeOK
  <2> QED BY <2>1, <2>2, <1>1, <1>2, <1>4, <1>5, <1>7 DEF TypeOK, IndexType, DiskTypes
<1>9. IndexCoherent'
  BY <1>2, <1>4 DEF IndexCoherent, Once
<1>10. JournalSound'
  <2>1. /\ \A i, j \in DOMAIN outcomes : outcomes[i].id = outcomes[j].id => i = j
        /\ \A i \in DOMAIN outcomes : outcomes[i].id \in Ids(decisions)
    BY DEF Inv, LedgerInv, JournalSound
  <2>2. \A i, j \in DOMAIN outcomes' : outcomes'[i].id = outcomes'[j].id => i = j
    BY <2>1, <1>3, <1>7
  <2>3. \A i \in DOMAIN outcomes' : outcomes'[i].id \in Ids(decisions)
    BY <2>1, <1>6, <1>7
  <2> QED BY <2>2, <2>3, <1>1, <1>2, <1>5 DEF JournalSound, Once
<1>11. NothingAhead'
  <2> SUFFICES ASSUME NEW q \in Requests
               PROVE  /\ pc'[q] = "idle" => q \notin Ids(decisions) /\ ~index'.entries[q].held
                      /\ pc'[q] # "over" => \A i \in DOMAIN outcomes' : outcomes'[i].id # q
    BY <1>1 DEF NothingAhead
  <2>1. CASE q = o.id
    BY <2>1, <1>1, <1>3
  <2>2. CASE q # o.id
    <3>1. pc'[q] = pc[q]
      BY <2>2, <1>1, <1>3
    <3>2. /\ pc[q] = "idle" => q \notin Ids(decisions) /\ ~index.entries[q].held
          /\ pc[q] # "over" => \A i \in DOMAIN outcomes : outcomes[i].id # q
      BY DEF Inv, LedgerInv, NothingAhead
    <3> QED BY <2>2, <3>1, <3>2, <1>4, <1>7
  <2> QED BY <2>1, <2>2
<1>12. JournalsHoldIndex'
  <2> SUFFICES ASSUME Journals'
               PROVE  /\ index'.order = Replay(decisions', outcomes').order
                      /\ \A q \in Requests : SameEntry(index'.entries[q],
                                                Replay(decisions', outcomes').entries[q])
    BY DEF JournalsHoldIndex
  <2>1. Journals /\ w = "written"
    BY <1>1, <1>5 DEF Journals
  <2>2. /\ index.order = Kept(decisions)
        /\ \A q \in Requests : SameEntry(index.entries[q],
              IF q \in Ids(Kept(decisions)) THEN Restored(outcomes, q) ELSE NotHeld)
    BY <2>1, <1>1 DEF Inv, LedgerInv, JournalsHoldIndex, Replay
  <2>3. CASE index.entries[o.id].held
    <3>1. outcomes' = Append(outcomes, o) /\ o.id \in Ids(Kept(decisions))
      BY <2>1, <2>2, <2>3, <1>1, <1>2, <1>3 DEF Logs, Whole
    <3>2. \A q \in Requests : Restored(outcomes', q) =
             IF q = o.id THEN n ELSE Restored(outcomes, q)
      BY <3>1, <1>2, <1>3, RestoredAppend DEF n
    <3>3. SameEntry(n, n)
      BY DEF SameEntry
    <3>4. \A q \in Requests : SameEntry(index'.entries[q],
              IF q \in Ids(Kept(decisions)) THEN Restored(outcomes', q) ELSE NotHeld)
      <4> TAKE q \in Requests
      <4>1. CASE q = o.id
        BY <4>1, <2>3, <3>1, <3>2, <3>3, <1>4
      <4>2. CASE q # o.id
        BY <4>2, <2>2, <3>2, <1>4
      <4> QED BY <4>1, <4>2
    <3> QED BY <3>4, <2>2, <1>1, <1>4 DEF Replay
  <2>4. CASE ~index.entries[o.id].held
    <3>1. outcomes' = outcomes
      BY <2>4, <1>1 DEF Logs
    <3>2. \A q \in Requests : index'.entries[q] = index.entries[q]
      BY <2>4, <1>4
    <3> QED BY <3>1, <3>2, <2>2, <1>1, <1>4 DEF Replay
  <2> QED BY <2>3, <2>4
<1> QED BY <1>1, <1>5, <1>8, <1>9, <1>10, <1>11, <1>12 DEF Inv, LedgerInv

\* A process that starts with nothing in memory is consistent with any journals.
LEMMA EmptyIndex ==
    /\ Empty \in IndexType /\ Empty.order = <<>> /\ Ids(Empty.order) = {}
    /\ \A q \in Requests : Empty.entries[q] = NotHeld /\ ~Empty.entries[q].held
<1>1. /\ Empty.order = <<>> /\ Empty.entries = [r \in Requests |-> NotHeld]
      /\ Empty \in IndexType
  BY EntryTypes DEF Empty, IndexType
<1>2. Ids(<<>>) = {}
  BY DEF Ids
<1> QED BY <1>1, <1>2, EntryTypes

LEMMA CrashInv == Inv /\ Crash => Inv'
<1> SUFFICES ASSUME Inv, Crash PROVE Inv'
  OBVIOUS
<1>1. /\ up' = "down" /\ durable' = durable /\ served' = served /\ err' = FALSE
      /\ decisions' = decisions /\ outcomes' = outcomes /\ torn' = torn /\ bare' = bare
      /\ pc' = [r \in Requests |-> IF pc[r] = "idle" THEN "idle" ELSE "over"]
      /\ index' = Empty
  BY DEF Crash, disk
<1>2. TypeOK'
  <2>1. pc' \in [Requests -> {"idle", "planned", "served", "over"}]
    BY <1>1
  <2>2. durable' \in BOOLEAN /\ err' \in BOOLEAN /\ DiskTypes'
        /\ up' \in {"running", "down", "refused"}
        /\ served' \in [Requests -> Backends \cup {NoBackend}]
        /\ decisions' \in Seq(Requests) /\ outcomes' \in Seq(Outcome)
    BY <1>1 DEF Inv, TypeOK, DiskTypes
  <2>3. index' \in IndexType /\ Len(index'.order) <= MaxEntries
    BY <1>1, EmptyIndex, LedgerAssumption
  <2> QED BY <2>1, <2>2, <2>3 DEF TypeOK, IndexType, DiskTypes
<1>3. IndexCoherent'
  BY <1>1, EmptyIndex DEF IndexCoherent
<1>4. JournalSound'
  BY <1>1 DEF Inv, LedgerInv, JournalSound
<1>5. NothingAhead'
  <2>1. \A q \in Requests : /\ pc'[q] = "idle" => pc[q] = "idle"
                            /\ pc'[q] # "over" => pc[q] # "over"
    BY <1>1
  <2> QED BY <2>1, <1>1, EmptyIndex DEF Inv, LedgerInv, NothingAhead
<1>6. JournalsHoldIndex'
  BY <1>1 DEF JournalsHoldIndex
<1> QED BY <1>1, <1>2, <1>3, <1>4, <1>5, <1>6 DEF Inv, LedgerInv

\* What a restart makes of the journals is an index in which the map holds exactly
\* the IDs of the order, each once.
Coherent(ds, os, x) ==
    /\ Len(Kept(ds)) <= MaxEntries /\ Ids(Kept(ds)) \subseteq Ids(ds) /\ Once(Kept(ds))
    /\ x.order = Kept(ds) /\ x \in IndexType
    /\ \A q \in Requests : x.entries[q] = IF q \in Ids(Kept(ds)) THEN Restored(os, q) ELSE NotHeld
    /\ \A q \in Requests : x.entries[q].held <=> q \in Ids(Kept(ds))

LEMMA ReplayIs ==
    ASSUME NEW ds \in Seq(Requests), NEW os \in Seq(Outcome), Once(ds)
    PROVE  Coherent(ds, os, Replay(ds, os))
<1> DEFINE x == Replay(ds, os)
<1>3. /\ Kept(ds) \in Seq(Requests) /\ Len(Kept(ds)) <= MaxEntries
      /\ Ids(Kept(ds)) \subseteq Ids(ds) /\ Once(Kept(ds))
  <2>1. /\ Kept(ds) \in Seq(Requests)
        /\ Len(Kept(ds)) = IF Len(ds) > MaxEntries THEN MaxEntries ELSE Len(ds)
        /\ Ids(Kept(ds)) \subseteq Ids(ds) /\ Once(Kept(ds))
    BY KeptPart
  <2>2. Len(ds) \in Nat /\ MaxEntries \in Nat
    BY LedgerAssumption
  <2> QED BY <2>1, <2>2
<1>4. \A q \in Requests : Restored(os, q) \in Entry /\ Restored(os, q).held
  <2> TAKE q \in Requests
  <2>1. CASE \E i \in DOMAIN os : os[i].id = q
    <3> DEFINE i == CHOOSE i \in DOMAIN os : os[i].id = q
    <3>1. i \in DOMAIN os
      BY <2>1
    <3> HIDE DEF i
    <3>2. os[i] \in Outcome
      BY <3>1
    <3>3. Restored(os, q) = [held |-> TRUE, actual |-> os[i].actual, outcome |-> os[i].outcome]
      BY <2>1 DEF Restored, i
    <3> QED BY <3>2, <3>3 DEF Outcome, Entry
  <2>2. CASE ~\E i \in DOMAIN os : os[i].id = q
    BY <2>2, EntryTypes DEF Restored
  <2> QED BY <2>1, <2>2
<1>5. /\ x.order = Kept(ds)
      /\ x.entries = [q \in Requests |->
            IF q \in Ids(Kept(ds)) THEN Restored(os, q) ELSE NotHeld]
  BY DEF Replay
<1>6. /\ x \in IndexType
      /\ \A q \in Requests : x.entries[q].held <=> q \in Ids(Kept(ds))
  <2>1. x.entries \in [Requests -> Entry]
    BY <1>4, <1>5, EntryTypes
  <2>2. x = [order |-> x.order, entries |-> x.entries]
    BY DEF Replay
  <2> HIDE DEF x
  <2> QED BY <2>1, <2>2, <1>3, <1>4, <1>5, EntryTypes DEF IndexType
<1> HIDE DEF x
<1>7. Coherent(ds, os, x)
  BY <1>3, <1>5, <1>6 DEF Coherent
<1> QED BY <1>7 DEF x

LEMMA RestartInv == Inv /\ Restart => Inv'
<1> SUFFICES ASSUME Inv, Restart PROVE Inv'
  OBVIOUS
<1>1. /\ up = "down" /\ durable' = durable /\ err' = err /\ pc' = pc /\ served' = served
      /\ decisions' = decisions /\ outcomes' = outcomes /\ torn' = torn /\ bare' = bare
  BY DEF Restart, disk, requests
<1>2. /\ index \in IndexType /\ Len(index.order) <= MaxEntries /\ Once(index.order)
      /\ \A q \in Requests : index.entries[q].held <=> q \in Ids(index.order)
      /\ decisions \in Seq(Requests) /\ outcomes \in Seq(Outcome) /\ Once(decisions)
  BY IndexFacts
<1> DEFINE x == Replay(decisions, outcomes)
<1>3. /\ Len(Kept(decisions)) <= MaxEntries
      /\ Ids(Kept(decisions)) \subseteq Ids(decisions) /\ Once(Kept(decisions))
      /\ x.order = Kept(decisions) /\ x \in IndexType
      /\ \A q \in Requests : x.entries[q].held <=> q \in Ids(Kept(decisions))
  <2>1. Coherent(decisions, outcomes, x)
    BY <1>2, ReplayIs
  <2> HIDE DEF x
  <2> QED BY <2>1 DEF Coherent
<1> HIDE DEF x
<1>7. /\ index' \in {index, Empty, x}
      /\ up' \in {"running", "refused"}
      /\ up' = "running" => /\ durable => index' = x
                            /\ ~(durable /\ torn # "no")
  BY DEF Restart, x
<1>8. /\ index' \in IndexType /\ Len(index'.order) <= MaxEntries /\ Once(index'.order)
      /\ \A q \in Requests : index'.entries[q].held <=> q \in Ids(index'.order)
  <2>1. CASE index' = index
    BY <2>1, <1>2
  <2>2. CASE index' = Empty
    BY <2>2, EmptyIndex, LedgerAssumption DEF Once
  <2>3. CASE index' = x
    BY <2>3, <1>3
  <2> QED BY <2>1, <2>2, <2>3, <1>7
<1>9. TypeOK'
  <2>1. durable' \in BOOLEAN /\ err' \in BOOLEAN /\ DiskTypes'
        /\ pc' \in [Requests -> {"idle", "planned", "served", "over"}]
        /\ served' \in [Requests -> Backends \cup {NoBackend}]
        /\ decisions' \in Seq(Requests) /\ outcomes' \in Seq(Outcome)
    BY <1>1 DEF Inv, TypeOK, DiskTypes
  <2> QED BY <2>1, <1>7, <1>8 DEF TypeOK, IndexType, DiskTypes
<1>10. IndexCoherent'
  BY <1>8 DEF IndexCoherent, Once
<1>11. JournalSound'
  BY <1>1, <1>7 DEF Inv, LedgerInv, JournalSound
<1>12. NothingAhead'
  <2> SUFFICES ASSUME NEW q \in Requests, pc[q] = "idle" PROVE ~index'.entries[q].held
    BY <1>1 DEF Inv, LedgerInv, NothingAhead
  <2>1. q \notin Ids(decisions) /\ ~index.entries[q].held
    BY DEF Inv, LedgerInv, NothingAhead
  <2> QED BY <2>1, <1>3, <1>7, EmptyIndex
<1>13. JournalsHoldIndex'
  <2> SUFFICES ASSUME up' = "running", Journals'
               PROVE  /\ index'.order = x.order
                      /\ \A q \in Requests : SameEntry(index'.entries[q], x.entries[q])
    BY <1>1 DEF JournalsHoldIndex, x
  <2>1. index' = x
    BY <1>1, <1>7 DEF Journals
  <2> QED BY <2>1 DEF SameEntry
<1> QED BY <1>1, <1>9, <1>10, <1>11, <1>12, <1>13 DEF Inv, LedgerInv

------------------------------------------------------------------------------

LEMMA NextInv == Inv /\ [Next]_vars => Inv'
<1> SUFFICES ASSUME Inv, [Next]_vars PROVE Inv'
  OBVIOUS
<1>1. ASSUME NEW r \in Requests, NEW w \in Writes, Record(r, w) PROVE Inv'
  BY <1>1, RecordInv
<1>2. ASSUME NEW r \in Requests, NEW b \in Backends, UpdateActual(r, b) PROVE Inv'
  BY <1>2, UpdateActualInv
<1>3. ASSUME NEW o \in Outcome, NEW w \in Writes, RecordOutcome(o, w) PROVE Inv'
  BY <1>3, RecordOutcomeInv
<1>4. CASE Crash
  BY <1>4, CrashInv
<1>5. CASE Restart
  BY <1>5, RestartInv
<1>7. CASE NewDay
  BY <1>7 DEF NewDay, requests, Inv, TypeOK, LedgerInv, IndexCoherent, JournalSound,
     JournalsHoldIndex, NothingAhead, Journals
<1>6. CASE UNCHANGED vars
  BY <1>6 DEF vars, requests, disk, Inv, TypeOK, LedgerInv, IndexCoherent, JournalSound,
     JournalsHoldIndex, NothingAhead, Journals
<1> QED BY <1>1, <1>2, <1>3, <1>4, <1>5, <1>6, <1>7 DEF Next

\* Index and journals are consistent, agree and are not ahead of the requests, for
\* any requests, backends and capacity, with failing writes and crashes anywhere
\* (the methods of DecisionLedger and its replay).
THEOREM LedgerHolds == Spec => [](TypeOK /\ LedgerInv)
<1>1. Init => Inv
  BY InitInv
<1>2. Inv /\ [Next]_vars => Inv'
  BY NextInv
<1>3. Inv => TypeOK /\ LedgerInv
  BY DEF Inv
<1> QED BY <1>1, <1>2, <1>3, PTL DEF Spec

\* As long as no write has failed since the start and no two documents share a line, the
\* journals hold the index that a crash takes away, but for the backends of unfinished requests (Record and
\* RecordOutcome against NewDecisionLedgerWithJournal).
THEOREM CrashLosesNothing == Spec => []IndexIsReplay
<1>1. TypeOK /\ LedgerInv => IndexIsReplay
  BY DEF LedgerInv, IndexIsReplay
<1> QED BY <1>1, LedgerHolds, PTL

\* No write error, crash or restart leaves a journal with an outcome without its
\* decision, a document twice, or a write behind a line that was cut short (the kept
\* error and the refused start); a line that lacks only its newline is none of these.
THEOREM JournalsStaySound == Spec => []JournalSound
<1>1. TypeOK /\ LedgerInv => JournalSound
  BY DEF LedgerInv
<1> QED BY <1>1, LedgerHolds, PTL

(***************************************************************************)
(* The replay.  A recursive function exists when some function solves its  *)
(* equation; the closed form does.  That it is the only solution follows   *)
(* from the least index at which two solutions could differ.               *)
(***************************************************************************)

\* Two functions that agree at 0 and, wherever they agree, one further, agree.
LEMMA AgreeByStep ==
    ASSUME NEW N \in Nat, NEW f, NEW g, f[0] = g[0],
           \A n \in 1..N : f[n - 1] = g[n - 1] => f[n] = g[n]
    PROVE  \A n \in 0..N : f[n] = g[n]
<1> DEFINE bad == {n \in 0..N : f[n] # g[n]}
<1>1. SUFFICES ASSUME bad # {} PROVE FALSE
  OBVIOUS
<1>2. bad \subseteq Nat
  OBVIOUS
<1>3. PICK n \in bad : \A m \in bad : n <= m
  <2> DEFINE less == {ss \in Nat \X Nat : ss[1] < ss[2]}
  <2>1. IsWellFoundedOn(less, Nat)
    BY NatLessThanWellFounded DEF OpToRel
  <2>2. \A m, k \in Nat : ~(<<m, k>> \in less) => k <= m
    OBVIOUS
  <2> HIDE DEF less, bad
  <2>3. PICK n \in bad : \A m \in bad : ~(<<m, n>> \in less)
    BY <1>1, <1>2, <2>1, WFMin
  <2> QED
    BY <1>2, <2>2, <2>3
<1>4. n \in 1..N /\ n - 1 \in 0..N /\ ~(n <= n - 1)
  OBVIOUS
<1>5. f[n - 1] = g[n - 1]
  BY <1>3, <1>4
<1> QED BY <1>4, <1>5

\* The first n lines of a journal.
Lines(s, n) == SubSeq(s, 1, n)

LEMMA LinesGrow ==
    ASSUME NEW S, NEW s \in Seq(S)
    PROVE  /\ Lines(s, 0) = <<>> /\ Lines(s, Len(s)) = s
           /\ \A n \in 1..Len(s) : /\ Lines(s, n) = Append(Lines(s, n - 1), s[n])
                                    /\ s[n] \in S
           /\ \A n \in 0..Len(s) : /\ Lines(s, n) \in Seq(S) /\ Len(Lines(s, n)) = n
                                    /\ \A i \in 1..n : Lines(s, n)[i] = s[i]
<1>1. \A n \in 0..Len(s) : /\ Lines(s, n) \in Seq(S) /\ Len(Lines(s, n)) = n
                            /\ \A i \in 1..n : Lines(s, n)[i] = s[i]
  BY SubSeqProperties DEF Lines
<1>2. Lines(s, 0) = <<>>
  BY <1>1
<1>3. Lines(s, Len(s)) = s
  BY <1>1
<1>4. ASSUME NEW n \in 1..Len(s)
      PROVE  Lines(s, n) = Append(Lines(s, n - 1), s[n]) /\ s[n] \in S
  <2>1. n \in 0..Len(s) /\ n - 1 \in 0..Len(s) /\ s[n] \in S
    OBVIOUS
  <2> DEFINE a == Lines(s, n)  b == Lines(s, n - 1)
  <2>2. /\ a \in Seq(S) /\ Len(a) = n /\ b \in Seq(S) /\ Len(b) = n - 1
        /\ \A i \in 1..n : a[i] = s[i]
        /\ \A i \in 1..(n - 1) : b[i] = s[i]
    BY <1>1, <2>1
  <2> HIDE DEF a, b
  <2>3. a = Append(b, s[n])
    BY <2>1, <2>2
  <2> QED BY <2>1, <2>3 DEF a, b
<1> QED BY <1>1, <1>2, <1>3, <1>4

LEMMA IndexEqual ==
    ASSUME NEW x \in IndexType, NEW y \in IndexType, x.order = y.order,
           \A q \in Requests : x.entries[q] = y.entries[q]
    PROVE  x = y
<1>1. x.entries = y.entries
  BY DEF IndexType
<1> QED BY <1>1 DEF IndexType

\* One more line of decisions.
LEMMA ReplayDecision ==
    ASSUME NEW s \in Seq(Requests), NEW r \in Requests, Once(s), r \notin Ids(s)
    PROVE  Replay(Append(s, r), <<>>) = recordLocked(Replay(s, <<>>), r)
<1> DEFINE x == Replay(s, <<>>)  y == Replay(Append(s, r), <<>>)  n == recordLocked(x, r)
<1>1. /\ Append(s, r) \in Seq(Requests) /\ Once(Append(s, r)) /\ <<>> \in Seq(Outcome)
      /\ \A q \in Requests : Restored(<<>>, q) = Fresh
  BY AppendOnce DEF Restored
<1>2. /\ Len(x.order) <= MaxEntries /\ Once(x.order) /\ Ids(x.order) \subseteq Ids(s)
      /\ x.order = Kept(s) /\ x \in IndexType
      /\ \A q \in Requests : x.entries[q] = IF q \in Ids(x.order) THEN Fresh ELSE NotHeld
      /\ \A q \in Requests : x.entries[q].held <=> q \in Ids(x.order)
  <2>1. Coherent(s, <<>>, x)
    BY <1>1, ReplayIs
  <2> HIDE DEF x
  <2> QED BY <1>1, <2>1 DEF Coherent
<1>3. /\ y.order = Kept(Append(s, r)) /\ y \in IndexType
      /\ \A q \in Requests : y.entries[q] = IF q \in Ids(y.order) THEN Fresh ELSE NotHeld
  <2>1. Coherent(Append(s, r), <<>>, y)
    BY <1>1, ReplayIs
  <2> HIDE DEF y
  <2> QED BY <1>1, <2>1 DEF Coherent
<1> HIDE DEF x, y
<1>4. Recorded(x, r, n)
  <2>1. ~x.entries[r].held
    BY <1>2
  <2> HIDE DEF n
  <2> QED BY <1>2, <2>1, RecordLocked DEF n
<1> HIDE DEF n
<1>5. n.order = y.order
  BY <1>2, <1>3, <1>4, KeptAppend DEF Recorded
<1>6. \A q \in Requests : n.entries[q] = y.entries[q]
  BY <1>2, <1>3, <1>4, <1>5 DEF Recorded
<1>7. n = y
  BY <1>3, <1>4, <1>5, <1>6, IndexEqual DEF Recorded
<1> QED BY <1>7 DEF n, x, y

\* One more line of outcomes.
LEMMA ReplayOutcome ==
    ASSUME NEW ds \in Seq(Requests), Once(ds), NEW os \in Seq(Outcome), NEW o \in Outcome,
           \A i \in DOMAIN os : os[i].id # o.id
    PROVE  Replay(ds, Append(os, o)) = recordOutcomeLocked(Replay(ds, os), o)
<1> DEFINE x == Replay(ds, os)  y == Replay(ds, Append(os, o))  n == recordOutcomeLocked(x, o)
<1>1. /\ Append(os, o) \in Seq(Outcome)
      /\ \A q \in Requests : Restored(Append(os, o), q) =
            IF q = o.id THEN [held |-> TRUE, actual |-> o.actual, outcome |-> o.outcome]
            ELSE Restored(os, q)
  BY RestoredAppend
<1>2. /\ x.order = Kept(ds) /\ x \in IndexType
      /\ \A q \in Requests :
           x.entries[q] = IF q \in Ids(Kept(ds)) THEN Restored(os, q) ELSE NotHeld
      /\ \A q \in Requests : x.entries[q].held <=> q \in Ids(Kept(ds))
  <2>1. Coherent(ds, os, x)
    BY ReplayIs
  <2> HIDE DEF x
  <2> QED BY <2>1 DEF Coherent
<1>3. /\ y.order = Kept(ds) /\ y \in IndexType
      /\ \A q \in Requests :
           y.entries[q] = IF q \in Ids(Kept(ds)) THEN Restored(Append(os, o), q) ELSE NotHeld
  <2>1. Coherent(ds, Append(os, o), y)
    BY <1>1, ReplayIs
  <2> HIDE DEF y
  <2> QED BY <2>1 DEF Coherent
<1> HIDE DEF x, y
<1>4. /\ n \in IndexType /\ n.order = x.order
      /\ \A q \in Requests : n.entries[q] =
           IF q = o.id /\ x.entries[q].held
           THEN [held |-> TRUE, actual |-> o.actual, outcome |-> o.outcome]
           ELSE x.entries[q]
  BY <1>2, RecordOutcomeLocked
<1> HIDE DEF n
<1>6. \A q \in Requests : n.entries[q] = y.entries[q]
  <2> DEFINE done == [held |-> TRUE, actual |-> o.actual, outcome |-> o.outcome]
             js == Append(os, o)
  <2> HIDE DEF done, js
  <2>1. \A q \in Requests : Restored(js, q) = IF q = o.id THEN done ELSE Restored(os, q)
    BY <1>1 DEF done, js
  <2>2. \A q \in Requests : y.entries[q] =
          IF q \in Ids(Kept(ds)) THEN Restored(js, q) ELSE NotHeld
    BY <1>3 DEF js
  <2>3. \A q \in Requests : n.entries[q] =
          IF q = o.id /\ x.entries[q].held THEN done ELSE x.entries[q]
    BY <1>4 DEF done
  <2> QED BY <1>2, <2>1, <2>2, <2>3
<1>7. n = y
  BY <1>2, <1>3, <1>4, <1>6, IndexEqual
<1> QED BY <1>7 DEF n, x, y

LEMMA ReplayNothing == Replay(<<>>, <<>>) = Empty
<1> DEFINE x == Replay(<<>>, <<>>)
<1>1. <<>> \in Seq(Requests) /\ <<>> \in Seq(Outcome) /\ Once(<<>>) /\ Ids(<<>>) = {}
  BY DEF Once, Ids
<1>2. Empty \in IndexType /\ Empty.order = <<>> /\ \A q \in Requests : Empty.entries[q] = NotHeld
  BY EntryTypes DEF Empty, IndexType
<1>3. /\ x.order = Kept(<<>>) /\ x \in IndexType /\ Ids(Kept(<<>>)) = {}
      /\ \A q \in Requests :
           x.entries[q] = IF q \in Ids(Kept(<<>>)) THEN Restored(<<>>, q) ELSE NotHeld
  <2>1. Coherent(<<>>, <<>>, x)
    BY <1>1, ReplayIs
  <2> HIDE DEF x
  <2> QED BY <1>1, <2>1 DEF Coherent
<1>4. Kept(<<>>) = <<>>
  <2>1. Kept(<<>>) \in Seq(Requests)
        /\ Len(Kept(<<>>)) = IF Len(<<>>) > MaxEntries THEN MaxEntries ELSE Len(<<>>)
    BY <1>1, KeptPart
  <2>2. Len(Kept(<<>>)) = 0
    BY <2>1, LedgerAssumption
  <2> QED BY <2>1, <2>2
<1> HIDE DEF x
<1>5. x = Empty
  BY <1>2, <1>3, <1>4, IndexEqual
<1> QED BY <1>5 DEF x

\* The loop that reads the journals computes the closed form.
LEMMA LoopIsReplay ==
    ASSUME NEW ds \in Seq(Requests), NEW os \in Seq(Outcome), Once(ds),
           \A i, j \in DOMAIN os : os[i].id = os[j].id => i = j
    PROVE  ReplayLoop(ds, os) = Replay(ds, os)
<1> DEFINE N == Len(ds) + Len(os)
           Step(f, n) == IF n = 0 THEN Empty
                         ELSE IF n <= Len(ds) THEN recordLocked(f[n - 1], ds[n])
                         ELSE recordOutcomeLocked(f[n - 1], os[n - Len(ds)])
           Loop(f) == [n \in 0..N |-> Step(f, n)]
           g == [n \in 0..N |-> IF n <= Len(ds) THEN Replay(Lines(ds, n), <<>>)
                                 ELSE Replay(ds, Lines(os, n - Len(ds)))]
           h == CHOOSE f : f = Loop(f)
<1>1. Len(ds) \in Nat /\ Len(os) \in Nat /\ N \in Nat
  OBVIOUS
<1>2. ReplayLoop(ds, os) = h[N]
  BY DEF ReplayLoop
<1>3. \A n \in 0..N : g[n] = IF n <= Len(ds) THEN Replay(Lines(ds, n), <<>>)
                             ELSE Replay(ds, Lines(os, n - Len(ds)))
  OBVIOUS
<1>4. /\ Lines(ds, 0) = <<>> /\ Lines(ds, Len(ds)) = ds
      /\ Lines(os, 0) = <<>> /\ Lines(os, Len(os)) = os
      /\ \A n \in 1..Len(ds) : /\ Lines(ds, n) = Append(Lines(ds, n - 1), ds[n])
                                /\ ds[n] \in Requests
      /\ \A n \in 0..Len(ds) : /\ Lines(ds, n) \in Seq(Requests) /\ Len(Lines(ds, n)) = n
                                /\ \A i \in 1..n : Lines(ds, n)[i] = ds[i]
      /\ \A n \in 1..Len(os) : /\ Lines(os, n) = Append(Lines(os, n - 1), os[n])
                                /\ os[n] \in Outcome
      /\ \A n \in 0..Len(os) : /\ Lines(os, n) \in Seq(Outcome) /\ Len(Lines(os, n)) = n
                                /\ \A i \in 1..n : Lines(os, n)[i] = os[i]
  BY LinesGrow
<1> HIDE DEF g, h
<1>5. g[N] = Replay(ds, os)
  <2>1. CASE Len(os) = 0
    <3>1. N = Len(ds) /\ N \in 0..N /\ N <= Len(ds)
      BY <1>1, <2>1
    <3>2. os = <<>>
      BY <2>1
    <3> QED BY <3>1, <3>2, <1>3, <1>4
  <2>2. CASE Len(os) # 0
    <3>1. N - Len(ds) = Len(os) /\ N \in 0..N /\ ~(N <= Len(ds))
      BY <1>1, <2>2
    <3> QED BY <3>1, <1>3, <1>4
  <2> QED BY <2>1, <2>2
<1>6. g[0] = Empty
  <2>1. 0 \in 0..N /\ 0 <= Len(ds)
    BY <1>1
  <2> QED BY <2>1, <1>3, <1>4, ReplayNothing
<1>7. ASSUME NEW n \in 1..N PROVE g[n] = Step(g, n)
  <2>1. n \in 0..N /\ n - 1 \in 0..N /\ n # 0
    BY <1>1
  <2>2. CASE n <= Len(ds)
    <3> DEFINE s == Lines(ds, n - 1)  r == ds[n]
    <3>1. n \in 1..Len(ds) /\ n - 1 \in 0..Len(ds) /\ n - 1 <= Len(ds)
      BY <1>1, <2>2
    <3>2. /\ s \in Seq(Requests) /\ Len(s) = n - 1 /\ r \in Requests
          /\ \A i \in 1..(n - 1) : s[i] = ds[i]
          /\ Lines(ds, n) = Append(s, r)
      BY <3>1, <1>4
    <3> HIDE DEF s
    <3>3. Once(s) /\ r \notin Ids(s)
      <4>1. DOMAIN s = 1..(n - 1) /\ DOMAIN ds = 1..Len(ds)
        BY <3>2
      <4>2. \A i \in 1..(n - 1) : i \in DOMAIN ds /\ n \in DOMAIN ds /\ i # n
        BY <3>1, <1>1
      <4> QED BY <4>1, <4>2, <3>2 DEF Once, Ids
    <3>4. Replay(Append(s, r), <<>>) = recordLocked(Replay(s, <<>>), r)
      BY <3>2, <3>3, ReplayDecision
    <3>5. g[n] = Replay(Append(s, r), <<>>) /\ g[n - 1] = Replay(s, <<>>)
      BY <2>1, <2>2, <3>1, <3>2, <1>3 DEF s
    <3> QED BY <2>1, <2>2, <3>4, <3>5
  <2>3. CASE ~(n <= Len(ds))
    <3> DEFINE k == n - Len(ds)  s == Lines(os, k - 1)  o == os[k]
    <3>1. k \in 1..Len(os) /\ k - 1 \in 0..Len(os) /\ (n - 1) - Len(ds) = k - 1
      BY <1>1, <2>3
    <3>2. /\ s \in Seq(Outcome) /\ Len(s) = k - 1 /\ o \in Outcome
          /\ \A i \in 1..(k - 1) : s[i] = os[i]
          /\ Lines(os, k) = Append(s, o)
      BY <3>1, <1>4
    <3>3. g[n] = Replay(ds, Append(s, o))
      BY <2>1, <2>3, <3>2, <1>3
    <3>4. g[n - 1] = Replay(ds, s)
      <4>1. CASE k = 1
        <5>1. n - 1 = Len(ds) /\ n - 1 <= Len(ds) /\ k - 1 = 0
          BY <4>1, <1>1
        <5> QED BY <5>1, <2>1, <1>3, <1>4
      <4>2. CASE k # 1
        <5>1. ~(n - 1 <= Len(ds))
          BY <4>2, <3>1, <1>1
        <5> QED BY <5>1, <3>1, <2>1, <1>3
      <4> QED BY <4>1, <4>2
    <3> HIDE DEF s
    <3>5. \A i \in DOMAIN s : s[i].id # o.id
      <4>1. DOMAIN s = 1..(k - 1) /\ DOMAIN os = 1..Len(os)
        BY <3>1, <3>2
      <4>2. \A i \in 1..(k - 1) : i \in DOMAIN os /\ k \in DOMAIN os /\ i # k
        BY <3>1, <4>1, <1>1
      <4> HIDE DEF k
      <4> QED BY <4>1, <4>2, <3>2
    <3>6. Replay(ds, Append(s, o)) = recordOutcomeLocked(Replay(ds, s), o)
      BY <3>2, <3>5, ReplayOutcome
    <3> QED BY <2>1, <2>3, <3>3, <3>4, <3>6
  <2> QED BY <2>2, <2>3
<1>8. g = Loop(g)
  <2>1. \A n \in 0..N : n = 0 \/ n \in 1..N
    BY <1>1
  <2>2. \A n \in 0..N : g[n] = Step(g, n)
    BY <2>1, <1>6, <1>7
  <2>3. g = [n \in 0..N |-> g[n]]
    BY DEF g
  <2> HIDE DEF Step
  <2> QED BY <2>2, <2>3
<1>9. h = Loop(h)
  <2> HIDE DEF Loop
  <2> QED BY <1>8, Zenon DEF h
<1>10. \A n \in 0..N : h[n] = g[n]
  <2>1. \A n \in 0..N : h[n] = Step(h, n) /\ g[n] = Step(g, n)
    <3> HIDE DEF Step
    <3> QED BY <1>8, <1>9
  <2>2. h[0] = g[0]
    BY <2>1, <1>1
  <2>3. \A n \in 1..N : h[n - 1] = g[n - 1] => h[n] = g[n]
    <3>1. \A n \in 1..N : n \in 0..N
      BY <1>1
    <3>2. \A n \in 1..N : h[n - 1] = g[n - 1] => Step(h, n) = Step(g, n)
      BY <1>1
    <3> HIDE DEF Step
    <3> QED BY <2>1, <3>1, <3>2
  <2> HIDE DEF N
  <2>4. N \in Nat
    BY <1>1
  <2> QED BY ONLY <2>2, <2>3, <2>4, AgreeByStep, Zenon
<1> QED BY <1>1, <1>2, <1>5, <1>10

\* In every reachable state the closed form of the restart is what reading the
\* journals line by line computes, for any requests and any capacity of the index
\* (NewDecisionLedgerWithJournal, recordLocked, recordOutcomeLocked).
THEOREM ReplayAlwaysLoop == Spec => []ReplayIsLoop
<1>1. TypeOK /\ LedgerInv => ReplayIsLoop
  <2> SUFFICES ASSUME TypeOK, LedgerInv PROVE ReplayIsLoop
    OBVIOUS
  <2>1. /\ decisions \in Seq(Requests) /\ outcomes \in Seq(Outcome) /\ Once(decisions)
        /\ \A i, j \in DOMAIN outcomes : outcomes[i].id = outcomes[j].id => i = j
    BY DEF TypeOK, LedgerInv, JournalSound, Once
  <2> QED BY <2>1, LoopIsReplay DEF ReplayIsLoop
<1> QED BY <1>1, LedgerHolds, PTL

(***************************************************************************)
(* The predictor's samples.                                                *)
(***************************************************************************)

\* s is what a journal t was at an earlier moment.
Prefix(s, t) == /\ Len(s) \in Nat /\ Len(t) \in Nat /\ Len(s) <= Len(t)
                /\ DOMAIN s = 1..Len(s) /\ DOMAIN t = 1..Len(t)
                /\ \A i \in DOMAIN s : s[i] = t[i]

\* A request that was answered knows by whom, and so does its outcome.
OutcomesReal ==
    /\ \A r \in Requests : pc[r] = "served" => served[r] \in Backends
    /\ \A i \in DOMAIN outcomes :
          /\ pc[outcomes[i].id] = "over"
          /\ outcomes[i].outcome = "measured" =>
                served[outcomes[i].id] # NoBackend /\ outcomes[i].actual = served[outcomes[i].id]

SamplesInv == Prefix(rows, decisions) /\ Prefix(lines, outcomes) /\ OutcomesReal

LEMMA PrefixStays ==
    ASSUME NEW S, NEW s, NEW t \in Seq(S), Prefix(s, t), NEW x \in S
    PROVE  Prefix(s, Append(t, x))
<1>1. /\ Len(Append(t, x)) = Len(t) + 1 /\ DOMAIN Append(t, x) = 1..(Len(t) + 1)
      /\ \A i \in 1..Len(t) : Append(t, x)[i] = t[i]
  OBVIOUS
<1> QED
  BY <1>1 DEF Prefix

LEMMA PrefixWhole ==
    ASSUME NEW S, NEW t \in Seq(S)
    PROVE  Prefix(t, t) /\ Prefix(<<>>, t)
  BY DEF Prefix

LEMMA JournalsGrow ==
    ASSUME TypeOK, Next
    PROVE  /\ decisions' = decisions \/ \E r \in Requests : decisions' = Append(decisions, r)
           /\ outcomes' = outcomes \/ \E o \in Outcome : outcomes' = Append(outcomes, o)
  BY DEF Next, Record, UpdateActual, RecordOutcome, NewDay, Crash, Restart, disk

\* An outcome is written by a request that ends, with the backend that answered it.
LEMMA OutcomesRealStep ==
    ASSUME TypeOK, LedgerInv, OutcomesReal, Next PROVE OutcomesReal'
<1>1. /\ pc \in [Requests -> {"idle", "planned", "served", "over"}]
      /\ served \in [Requests -> Backends \cup {NoBackend}] /\ outcomes \in Seq(Outcome)
      /\ \A i \in DOMAIN outcomes : outcomes[i].id \in Requests
  <2>1. outcomes \in Seq(Outcome)
    BY DEF TypeOK
  <2>2. \A i \in DOMAIN outcomes : outcomes[i] \in Outcome
    BY <2>1
  <2> QED
    BY <2>1, <2>2 DEF TypeOK, Outcome
<1>2. \A r \in Requests : pc[r] = "served" => served[r] \in Backends
  BY DEF OutcomesReal
<1>3. \A i \in DOMAIN outcomes :
          /\ pc[outcomes[i].id] = "over"
          /\ outcomes[i].outcome = "measured" =>
                served[outcomes[i].id] # NoBackend /\ outcomes[i].actual = served[outcomes[i].id]
  BY DEF OutcomesReal
<1>4. ASSUME NEW r \in Requests, NEW w \in Writes, Record(r, w) PROVE OutcomesReal'
  <2>1. pc' = [pc EXCEPT ![r] = "planned"] /\ pc[r] = "idle" /\ served' = served /\ outcomes' = outcomes
    BY <1>4 DEF Record
  <2> QED
    BY <1>1, <1>2, <1>3, <2>1 DEF OutcomesReal
<1>5. ASSUME NEW r \in Requests, NEW b \in Backends, UpdateActual(r, b) PROVE OutcomesReal'
  <2>1. /\ pc' = [pc EXCEPT ![r] = "served"] /\ pc[r] = "planned"
        /\ served' = [served EXCEPT ![r] = b] /\ outcomes' = outcomes
    BY <1>5 DEF UpdateActual, disk
  <2> QED
    BY <1>1, <1>2, <1>3, <2>1 DEF OutcomesReal
<1>6. ASSUME NEW o \in Outcome, NEW w \in Writes, RecordOutcome(o, w) PROVE OutcomesReal'
  <2>1. /\ pc' = [pc EXCEPT ![o.id] = "over"] /\ served' = served
        /\ outcomes' = outcomes \/ outcomes' = Append(outcomes, o)
        /\ \/ pc[o.id] = "planned" /\ o.outcome = "failed"
           \/ pc[o.id] = "served" /\ o.actual = served[o.id]
        /\ o.id \in Requests
    BY <1>6 DEF RecordOutcome, Outcome
  <2>2. \A r \in Requests : pc'[r] = "served" => served'[r] \in Backends
    BY <1>1, <1>2, <2>1
  <2> DEFINE Real(x) == /\ pc'[x.id] = "over"
                        /\ x.outcome = "measured" => served'[x.id] # NoBackend /\ x.actual = served'[x.id]
  <2>3. Real(o)
    BY <1>1, <1>2, <2>1, LedgerAssumption
  <2>4. \A i \in DOMAIN outcomes : Real(outcomes[i])
    BY <1>1, <1>3, <2>1
  <2> HIDE DEF Real
  <2>5. \A i \in DOMAIN outcomes' : Real(outcomes'[i])
    <3>1. CASE outcomes' = outcomes
      BY <2>4, <3>1
    <3>2. CASE outcomes' = Append(outcomes, o)
      <4>1. \A i \in DOMAIN outcomes' : outcomes'[i] = o \/ (i \in DOMAIN outcomes /\ outcomes'[i] = outcomes[i])
        BY <1>1, <3>2
      <4> QED
        BY <2>3, <2>4, <4>1
    <3> QED
      BY <2>1, <3>1, <3>2
  <2> QED
    BY <2>2, <2>5 DEF OutcomesReal, Real
<1>7. CASE Crash
  <2>1. /\ pc' = [r \in Requests |-> IF pc[r] = "idle" THEN "idle" ELSE "over"]
        /\ served' = served /\ outcomes' = outcomes
    BY <1>7 DEF Crash, disk
  <2> QED
    BY <1>1, <1>3, <2>1 DEF OutcomesReal
<1>8. CASE Restart
  BY <1>8 DEF Restart, requests, disk, OutcomesReal
<1>9. CASE NewDay
  BY <1>9 DEF NewDay, requests, OutcomesReal
<1> QED
  BY <1>4, <1>5, <1>6, <1>7, <1>8, <1>9 DEF Next

\* The inductive invariant of the samples: what was read is what the journals were.
LEMMA SamplesStep ==
    ASSUME TypeOK, LedgerInv, SamplesInv, [PredictorNext]_all
    PROVE  SamplesInv'
<1>1. decisions \in Seq(Requests) /\ outcomes \in Seq(Outcome)
  BY DEF TypeOK
<1>2. CASE Next /\ UNCHANGED reader
  <2>1. rows' = rows /\ lines' = lines
    BY <1>2 DEF reader
  <2>2. Prefix(rows, decisions)'
    BY <1>1, <1>2, <2>1, JournalsGrow, PrefixStays DEF SamplesInv
  <2>3. Prefix(lines, outcomes)'
    BY <1>1, <1>2, <2>1, JournalsGrow, PrefixStays DEF SamplesInv
  <2> QED
    BY <1>2, <2>2, <2>3, OutcomesRealStep DEF SamplesInv
<1>3. CASE ReaderNext
  <2>1. UNCHANGED <<decisions, outcomes, pc, served>>
    BY <1>3 DEF ReaderNext, ReadOutcomes, ReadDecisions, vars, disk, requests
  <2>2. rows' \in {rows, <<>>, decisions} /\ lines' \in {lines, <<>>, outcomes}
    BY <1>3 DEF ReaderNext, ReadOutcomes, ReadDecisions
  <2> QED
    BY <1>1, <2>1, <2>2, PrefixWhole DEF SamplesInv, OutcomesReal
<1>4. CASE UNCHANGED all
  BY <1>4 DEF all, vars, disk, requests, reader, SamplesInv, Prefix, OutcomesReal
<1> QED
  BY <1>2, <1>3, <1>4 DEF PredictorNext

LEMMA SamplesFollow ==
    ASSUME TypeOK, LedgerInv, SamplesInv PROVE SamplesRealized
<1>1. /\ decisions \in Seq(Requests) /\ Len(decisions) \in Nat
      /\ DOMAIN decisions = 1..Len(decisions)
  BY DEF TypeOK
<1>2. /\ DOMAIN rows = 1..Len(rows) /\ Len(rows) \in Nat /\ Len(rows) <= Len(decisions)
      /\ \A i \in DOMAIN rows : rows[i] = decisions[i]
      /\ DOMAIN lines \subseteq DOMAIN outcomes /\ \A i \in DOMAIN lines : lines[i] = outcomes[i]
  BY DEF SamplesInv, Prefix
<1>3. \A i \in DOMAIN outcomes : outcomes[i].id \in Ids(decisions)
  BY DEF LedgerInv, JournalSound
<1>4. ASSUME NEW i \in Samples(task, rows, lines)
      PROVE  /\ pc[lines[i].id] = "over" /\ served[lines[i].id] # NoBackend
             /\ lines[i].actual = served[lines[i].id]
  <2>1. i \in DOMAIN lines /\ lines[i].outcome = "measured"
    BY <1>4 DEF Samples, Used, Eligible
  <2> QED
    BY <1>2, <2>1 DEF SamplesInv, OutcomesReal
<1>5. \A i, j \in DOMAIN lines : lines[i].id = lines[j].id => i = j
  BY <1>2 DEF LedgerInv, JournalSound
<1>6. ASSUME NEW i \in DOMAIN lines, ~Joined(lines[i], rows)
      PROVE  lines[i].id \in Ids(SubSeq(decisions, Len(rows) + 1, Len(decisions)))
  <2>1. PICK k \in 1..Len(decisions) : decisions[k] = lines[i].id
    BY <1>1, <1>2, <1>3 DEF Ids
  <2>2. k \notin 1..Len(rows)
    BY <1>2, <1>6, <2>1 DEF Joined, Ids
  <2> DEFINE a == Len(rows) + 1
             n == Len(decisions)
             s == SubSeq(decisions, a, n)
  <2>3. a \in Int /\ n \in Int /\ k \in a..n /\ a <= n /\ \A m \in a..n : decisions[m] \in Requests
    BY <1>1, <1>2, <2>2
  <2> HIDE DEF a, n
  <2>4. /\ s \in Seq(Requests) /\ Len(s) = n - a + 1
        /\ \A j \in 1..(n - a + 1) : s[j] = decisions[a + j - 1]
    BY <2>3, SubSeqProperties
  <2>5. k - a + 1 \in DOMAIN s /\ s[k - a + 1] = lines[i].id
    <3>1. k - a + 1 \in 1..(n - a + 1) /\ a + (k - a + 1) - 1 = k /\ DOMAIN s = 1..(n - a + 1)
      BY <2>3, <2>4
    <3> QED
      BY <2>1, <2>4, <3>1
  <2> HIDE DEF s
  <2>6. lines[i].id \in Ids(s)
    BY <2>5 DEF Ids
  <2> QED
    BY <2>6 DEF s, a, n
<1> QED
  BY <1>4, <1>5, <1>6 DEF SamplesRealized

\* The reader adds no step to the ledger.
LEMMA LedgerUnderReader == PredictorSpec => [](TypeOK /\ LedgerInv)
<1>1. [PredictorNext]_all => [Next]_vars
  BY DEF PredictorNext, ReaderNext, ReadOutcomes, ReadDecisions, all
<1>2. PredictorSpec => Spec
  BY <1>1, PTL DEF PredictorSpec, PredictorInit, Spec
<1> QED
  BY <1>2, LedgerHolds, PTL

\* Every sample of a fit or a validation is the outcome of a request that was answered, by
\* the backend it names, and counts once; an outcome without its decision belongs to a
\* request routed after the decisions were read (fit_from_journal, validate_predictor over
\* DecisionLedger's journals), whatever the gateway does meanwhile.
THEOREM SamplesAlwaysRealized == PredictorSpec => []SamplesRealized
<1>1. PredictorInit => SamplesInv
  <2> SUFFICES ASSUME Init, ReaderInit PROVE SamplesInv
    BY DEF PredictorInit
  <2>1. OutcomesReal
    BY DEF Init, OutcomesReal
  <2>2. Prefix(rows, decisions) /\ Prefix(lines, outcomes)
    BY DEF Init, ReaderInit, Prefix
  <2> QED
    BY <2>1, <2>2 DEF SamplesInv
<1>2. TypeOK /\ LedgerInv /\ SamplesInv /\ [PredictorNext]_all => SamplesInv'
  BY SamplesStep
<1>3. TypeOK /\ LedgerInv /\ SamplesInv => SamplesRealized
  BY SamplesFollow
<1> QED
  BY <1>1, <1>2, <1>3, LedgerUnderReader, PTL DEF PredictorSpec
=============================================================================
