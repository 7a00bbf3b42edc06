------------------------------ MODULE RoyProofs ------------------------------
(***************************************************************************)
(* Proofs about a swarm node, for every set of contacts, size of its queue  *)
(* and its table, and limit of time.                                       *)
(***************************************************************************)
EXTENDS Roy, Extremes, FiniteSetTheorems, SequenceTheorems

-----------------------------------------------------------------------------
(* The queue: the ring of RoyQueue implements the window of EventWindow *)

Wrap(n) == IF n < MaxOchered THEN n ELSE n - MaxOchered

\* A place of the ring, reached by at most one round from another.
LEMMA Wraps ==
    ASSUME NEW i \in Places, NEW k \in 0..MaxOchered
    PROVE  (i + k) % MaxOchered = Wrap(i + k)
  <1>1. i + k \in Nat /\ i + k < 2 * MaxOchered
    BY QueueAssumption, SMT DEF Places
  <1> QED BY <1>1, QueueAssumption, Remainder DEF Wrap

\* The place after another, by the queue's own remainder.
LEMMA FollowingWraps ==
    ASSUME NEW i \in Places
    PROVE  Following(i) = Wrap(i + 1) /\ Following(i) \in Places
  <1>1. 1 \in 0..MaxOchered
    BY QueueAssumption, SMT
  <1>2. Following(i) = Wrap(i + 1)
    BY <1>1, Wraps DEF Following
  <1> QED BY <1>2, QueueAssumption, SMT DEF Wrap, Places

-----------------------------------------------------------------------------
(* QueueOK with the places spelled out. *)

Reachable == \A k \in 0..schetchik - 1 : ochered[Wrap(golova + k)] \in Events

Shape ==
    /\ ochered \in [Places -> Events \cup {Nothing}]
    /\ golova \in Places
    /\ hvost \in Places
    /\ schetchik \in 0..MaxOchered
    /\ given \in Events \cup {Nothing}
    /\ hvost = Wrap(golova + schetchik)

\* QueueOK, in the shape of the ring and what of it is in use.
LEMMA QueueOKSpelled == QueueOK <=> Shape /\ Reachable
  <1>1. ASSUME golova \in Places, schetchik \in 0..MaxOchered
        PROVE  /\ (golova + schetchik) % MaxOchered = Wrap(golova + schetchik)
               /\ \A k \in 0..schetchik - 1 :
                     (golova + k) % MaxOchered = Wrap(golova + k)
    <2>1. (golova + schetchik) % MaxOchered = Wrap(golova + schetchik)
      BY <1>1, Wraps
    <2>2. ASSUME NEW k \in 0..schetchik - 1
          PROVE  (golova + k) % MaxOchered = Wrap(golova + k)
      <3>1. k \in 0..MaxOchered BY <1>1, QueueAssumption, SMT
      <3> QED BY <1>1, <3>1, Wraps
    <2> QED BY <2>1, <2>2
  <1>2. QueueOK => Shape /\ Reachable
    BY <1>1 DEF QueueOK, Shape, Reachable
  <1>3. Shape /\ Reachable => QueueOK
    BY <1>1 DEF QueueOK, Shape, Reachable
  <1> QED BY <1>2, <1>3

\* An empty queue has both, ...
LEMMA InitOK == QueueInit => Shape /\ Reachable
  BY QueueAssumption, SMT DEF QueueInit, Shape, Reachable, Places, Wrap

\* ... putting an event keeps them, full or not, ...
LEMMA PutOK ==
    ASSUME Shape, Reachable, NEW e \in Events, PutEvent(e)
    PROVE  Shape' /\ Reachable'
  <1> USE QueueAssumption
  <1>1. Following(golova) = Wrap(golova + 1) /\ Following(golova) \in Places
    BY FollowingWraps DEF Shape
  <1>2. Following(hvost) = Wrap(hvost + 1) /\ Following(hvost) \in Places
    BY FollowingWraps DEF Shape
  <1>3. Shape'
    <2>1. /\ ochered' \in [Places -> Events \cup {Nothing}]
          /\ hvost' \in Places
          /\ given' \in Events \cup {Nothing}
      BY <1>2 DEF Shape, PutEvent
    <2>2. golova' \in Places /\ schetchik' \in 0..MaxOchered
      BY <1>1, SMT DEF Shape, PutEvent
    <2>3. hvost' = Wrap(golova' + schetchik')
      BY <1>1, <1>2, SMT DEF Shape, PutEvent, Wrap, Places
    <2> QED BY <2>1, <2>2, <2>3 DEF Shape
  <1>4. ASSUME NEW k \in 0..schetchik' - 1
        PROVE  ochered'[Wrap(golova' + k)] \in Events
    <2>1. CASE k = schetchik' - 1
      <3>1. Wrap(golova' + k) = hvost
        BY <1>1, <2>1, SMT DEF Shape, PutEvent, Wrap, Places
      <3> QED BY <3>1 DEF Shape, PutEvent
    <2>2. CASE k < schetchik' - 1
      <3>1. PICK j \in 0..schetchik - 1 :
              Wrap(golova' + k) = Wrap(golova + j) /\ Wrap(golova + j) # hvost
        <4>1. CASE schetchik = MaxOchered
          <5>1. k + 1 \in 0..schetchik - 1
            BY <2>2, <4>1, SMT DEF PutEvent
          <5>2. /\ Wrap(golova' + k) = Wrap(golova + (k + 1))
                /\ Wrap(golova + (k + 1)) # hvost
            BY <1>1, <2>2, <4>1, <5>1, SMT DEF Shape, PutEvent, Wrap, Places
          <5> QED BY <5>1, <5>2
        <4>2. CASE schetchik # MaxOchered
          <5>1. k \in 0..schetchik - 1
            BY <2>2, <4>2, SMT DEF PutEvent, Shape
          <5>2. Wrap(golova' + k) = Wrap(golova + k) /\ Wrap(golova + k) # hvost
            BY <2>2, <4>2, <5>1, SMT DEF Shape, PutEvent, Wrap, Places
          <5> QED BY <5>1, <5>2
        <4> QED BY <4>1, <4>2
      <3>2. Wrap(golova + j) \in Places
        BY <3>1, SMT DEF Shape, Wrap, Places
      <3>3. ochered'[Wrap(golova + j)] = ochered[Wrap(golova + j)]
        BY <3>1, <3>2 DEF Shape, PutEvent
      <3> QED BY <3>1, <3>3 DEF Reachable
    <2>3. schetchik' \in Int
      BY <1>3 DEF Shape
    <2>4. k = schetchik' - 1 \/ k < schetchik' - 1
      <3>1. PICK n \in Int : n = schetchik'
        BY <2>3
      <3>2. k \in 0..n - 1
        BY <3>1
      <3>3. k = n - 1 \/ k < n - 1
        BY <3>2, SMT
      <3> QED BY <3>1, <3>3
    <2> QED BY <2>1, <2>2, <2>4
  <1> QED BY <1>3, <1>4 DEF Reachable

\* ... taking one does, ...
LEMMA TakeOK ==
    ASSUME Shape, Reachable, TakeEvent
    PROVE  Shape' /\ Reachable'
  <1> USE QueueAssumption
  <1>1. Following(golova) = Wrap(golova + 1) /\ Following(golova) \in Places
    BY FollowingWraps DEF Shape
  <1>2. Shape'
    <2>1. given' \in Events \cup {Nothing}
      BY DEF Shape, TakeEvent
    <2>2. golova' \in Places /\ schetchik' \in 0..MaxOchered
      BY <1>1, SMT DEF Shape, TakeEvent
    <2>3. hvost' = Wrap(golova' + schetchik')
      BY <1>1, SMT DEF Shape, TakeEvent, Wrap, Places
    <2> QED BY <2>1, <2>2, <2>3 DEF Shape, TakeEvent
  <1>3. ASSUME NEW k \in 0..schetchik' - 1
        PROVE  ochered'[Wrap(golova' + k)] \in Events
    <2>1. k + 1 \in 0..schetchik - 1
      BY SMT DEF Shape, TakeEvent
    <2>2. Wrap(golova' + k) = Wrap(golova + (k + 1))
      BY <1>1, <2>1, SMT DEF Shape, TakeEvent, Wrap, Places
    <2> QED BY <2>1, <2>2 DEF Reachable, TakeEvent
  <1> QED BY <1>2, <1>3 DEF Reachable

\* ... and so does every step.
LEMMA StepOK == Shape /\ Reachable /\ [QueueNext]_queueVars => Shape' /\ Reachable'
  <1> SUFFICES ASSUME Shape, Reachable, [QueueNext]_queueVars
               PROVE  Shape' /\ Reachable'
    OBVIOUS
  <1>1. CASE TakeEvent
    BY <1>1, TakeOK
  <1>2. ASSUME NEW e \in Events, PutEvent(e)
        PROVE  Shape' /\ Reachable'
    BY <1>2, PutOK
  <1>3. CASE UNCHANGED queueVars
    BY <1>3 DEF Shape, Reachable, queueVars
  <1> QED BY <1>1, <1>2, <1>3 DEF QueueNext

\* The counters of the ring agree in every state of every behaviour, and the
\* reader never reaches an entry the node has not written.
THEOREM QueueCorrect == QueueSpec => []QueueOK
  <1>1. QueueInit => Shape /\ Reachable
    BY InitOK
  <1>2. Shape /\ Reachable /\ [QueueNext]_queueVars => Shape' /\ Reachable'
    BY StepOK
  <1>3. Shape /\ Reachable => QueueOK
    BY QueueOKSpelled
  <1> QED BY <1>1, <1>2, <1>3, PTL DEF QueueSpec

-----------------------------------------------------------------------------
(* The events held, as a sequence. *)

\* The events held, read off the ring, now ...
LEMMA HeldIs ==
    ASSUME Shape, Reachable
    PROVE  /\ Held \in Seq(Events)
           /\ Len(Held) = schetchik
           /\ \A k \in 1..schetchik : Held[k] = ochered[Wrap(golova + (k - 1))]
  <1>1. schetchik \in Nat /\ golova \in Places
    BY QueueAssumption, SMT DEF Shape
  <1>2. ASSUME NEW k \in 1..schetchik
        PROVE  /\ ochered[(golova + k - 1) % MaxOchered] = ochered[Wrap(golova + (k - 1))]
               /\ ochered[Wrap(golova + (k - 1))] \in Events
    <2>1. k - 1 \in 0..schetchik - 1 /\ k - 1 \in 0..MaxOchered
      BY <1>1, QueueAssumption, SMT DEF Shape
    <2>2. (golova + (k - 1)) % MaxOchered = Wrap(golova + (k - 1))
      BY <1>1, <2>1, Wraps
    <2>3. golova + k - 1 = golova + (k - 1)
      BY <1>1, SMT DEF Places
    <2> QED BY <2>1, <2>2, <2>3 DEF Reachable
  <1>3. Held \in [1..schetchik -> Events]
    BY <1>2 DEF Held
  <1>4. Held \in Seq(Events) /\ Len(Held) = schetchik
    BY <1>1, <1>3, SMT
  <1> QED BY <1>2, <1>4 DEF Held

\* ... and after a step.
LEMMA HeldAfter ==
    ASSUME Shape, Reachable, [QueueNext]_queueVars
    PROVE  /\ Held' \in Seq(Events)
           /\ Len(Held') = schetchik'
           /\ \A k \in 1..schetchik' : Held'[k] = ochered'[Wrap(golova' + (k - 1))]
  <1>1. Shape' /\ Reachable'
    BY StepOK
  <1>2. (Shape /\ Reachable =>
           /\ Held \in Seq(Events)
           /\ Len(Held) = schetchik
           /\ \A k \in 1..schetchik : Held[k] = ochered[Wrap(golova + (k - 1))])'
    BY HeldIs, PTL
  <1> QED BY <1>1, <1>2

\* Taking an event takes the oldest one held.
LEMMA TakeSimulates ==
    ASSUME Shape, Reachable, TakeEvent
    PROVE  W!Take
  <1> USE QueueAssumption
  <1>1. Shape' /\ Reachable'
    BY TakeOK
  <1>2. QueueNext
    BY DEF QueueNext
  <1>3. /\ Held \in Seq(Events)
        /\ Len(Held) = schetchik
        /\ \A k \in 1..schetchik : Held[k] = ochered[Wrap(golova + (k - 1))]
    BY HeldIs
  <1>4. /\ Held' \in Seq(Events)
        /\ Len(Held') = schetchik'
        /\ \A k \in 1..schetchik' : Held'[k] = ochered'[Wrap(golova' + (k - 1))]
    BY <1>2, HeldAfter
  <1>5. schetchik \in Nat /\ schetchik # 0 /\ schetchik' = schetchik - 1
    BY SMT DEF Shape, TakeEvent
  <1>6. Held # <<>>
    BY <1>3, <1>5, SMT
  <1>7. given' = Head(Held)
    <2>1. Wrap(golova + (1 - 1)) = golova
      BY SMT DEF Shape, Wrap, Places
    <2>2. Held[1] = ochered[golova]
      BY <1>3, <1>5, <2>1, SMT
    <2>3. Head(Held) = Held[1]
      OBVIOUS
    <2> QED BY <2>2, <2>3 DEF TakeEvent
  <1>8. Held' = Tail(Held)
    <2>1. /\ Tail(Held) \in Seq(Events)
          /\ Len(Tail(Held)) = Len(Held) - 1
          /\ \A i \in 1..Len(Tail(Held)) : Tail(Held)[i] = Held[i + 1]
      BY <1>3, <1>6, HeadTailProperties
    <2>2. ASSUME NEW k \in 1..schetchik - 1
          PROVE  Held'[k] = Tail(Held)[k]
      <3>1. k + 1 \in 1..schetchik /\ k \in 1..schetchik' /\ k \in 1..Len(Tail(Held))
        BY <1>3, <1>5, <2>1, SMT
      <3>2. Following(golova) = Wrap(golova + 1) /\ Following(golova) \in Places
        BY FollowingWraps DEF Shape
      <3>3. Wrap(golova' + (k - 1)) = Wrap(golova + ((k + 1) - 1))
        BY <1>5, <3>1, <3>2, SMT DEF Shape, TakeEvent, Wrap, Places
      <3> QED BY <1>3, <1>4, <2>1, <3>1, <3>3 DEF TakeEvent
    <2>3. Len(Held') = Len(Tail(Held))
      BY <1>3, <1>4, <1>5, <2>1
    <2>4. \A i \in 1..Len(Held') : Held'[i] = Tail(Held)[i]
      BY <1>4, <1>5, <2>2
    <2> QED BY <1>4, <2>1, <2>3, <2>4, SeqEqual
  <1> QED BY <1>6, <1>7, <1>8 DEF W!Take

\* Putting an event puts it last, and drops the oldest one if the ring is full.
LEMMA PutSimulates ==
    ASSUME Shape, Reachable, NEW e \in Events, PutEvent(e)
    PROVE  W!Put(e)
  <1> USE QueueAssumption
  <1> DEFINE kept == IF Len(Held) = MaxOchered THEN Tail(Held) ELSE Held
             from == IF schetchik = MaxOchered THEN 1 ELSE 0
  <1>2. QueueNext
    BY DEF QueueNext
  <1>3. /\ Held \in Seq(Events)
        /\ Len(Held) = schetchik
        /\ \A k \in 1..schetchik : Held[k] = ochered[Wrap(golova + (k - 1))]
    BY HeldIs
  <1>4. /\ Held' \in Seq(Events)
        /\ Len(Held') = schetchik'
        /\ \A k \in 1..schetchik' : Held'[k] = ochered'[Wrap(golova' + (k - 1))]
    BY <1>2, HeldAfter
  <1>5. /\ schetchik \in 0..MaxOchered
        /\ schetchik' = schetchik + 1 - from
        /\ from \in 0..1
        /\ golova' = Wrap(golova + from)
        /\ golova' \in Places
    <2>1. Following(golova) = Wrap(golova + 1) /\ Following(golova) \in Places
      BY FollowingWraps DEF Shape
    <2> QED BY <2>1, SMT DEF Shape, PutEvent, Wrap, Places
  <1>6. /\ kept \in Seq(Events)
        /\ Len(kept) = schetchik - from
        /\ \A i \in 1..schetchik - from : kept[i] = Held[i + from]
    <2>1. CASE schetchik = MaxOchered
      <3>1. Held # <<>>
        BY <1>3, <2>1, SMT
      <3>2. /\ Tail(Held) \in Seq(Events)
            /\ Len(Tail(Held)) = Len(Held) - 1
            /\ \A i \in 1..Len(Tail(Held)) : Tail(Held)[i] = Held[i + 1]
        BY <1>3, <3>1, HeadTailProperties
      <3> QED BY <1>3, <2>1, <3>2
    <2>2. CASE schetchik # MaxOchered
      BY <1>3, <1>5, <2>2, SMT
    <2> QED BY <2>1, <2>2
  <1> HIDE DEF kept, from
  <1>7. /\ Append(kept, e) \in Seq(Events)
        /\ Len(Append(kept, e)) = schetchik'
        /\ \A i \in 1..schetchik - from : Append(kept, e)[i] = kept[i]
        /\ Append(kept, e)[schetchik'] = e
    BY <1>5, <1>6, SMT
  <1>8. ASSUME NEW k \in 1..Len(Held')
        PROVE  Held'[k] = Append(kept, e)[k]
    <2>1. k \in 1..schetchik + 1 - from
      BY <1>4, <1>5
    <2>2. CASE k = schetchik + 1 - from
      <3>1. Wrap(golova' + (k - 1)) = hvost
        BY <1>5, <2>2, SMT DEF Shape, Wrap, Places, from
      <3>2. ochered'[hvost] = e
        BY DEF Shape, PutEvent
      <3> QED BY <1>4, <1>5, <1>7, <2>1, <2>2, <3>1, <3>2
    <2>3. CASE k < schetchik + 1 - from
      <3>1. k \in 1..schetchik - from /\ k + from \in 1..schetchik
        BY <1>5, <2>1, <2>3, SMT
      <3>2. /\ Wrap(golova' + (k - 1)) = Wrap(golova + ((k + from) - 1))
            /\ Wrap(golova' + (k - 1)) # hvost
            /\ Wrap(golova' + (k - 1)) \in Places
        BY <1>5, <3>1, SMT DEF Shape, Wrap, Places, from
      <3>3. ochered'[Wrap(golova' + (k - 1))] = ochered[Wrap(golova' + (k - 1))]
        BY <3>2 DEF Shape, PutEvent
      <3>4. Held'[k] = Held[k + from]
        BY <1>3, <1>4, <1>5, <2>1, <3>1, <3>2, <3>3
      <3> QED BY <1>6, <1>7, <3>1, <3>4
    <2>4. k = schetchik + 1 - from \/ k < schetchik + 1 - from
      BY <1>5, <2>1, SMT
    <2> QED BY <2>2, <2>3, <2>4
  <1>9. Held' = Append(kept, e)
    BY <1>4, <1>7, <1>8, SeqEqual
  <1> QED BY <1>9 DEF W!Put, PutEvent, kept

\* The ring implements the window: whatever its size, events are given in the
\* order they were put, and an overflow loses exactly the oldest one.
THEOREM Refinement == QueueSpec => ImplementsWindow
  <1>1. QueueInit => W!Init
    <2> SUFFICES ASSUME QueueInit PROVE W!Init
      OBVIOUS
    <2>1. Held \in Seq(Events) /\ Len(Held) = schetchik
      BY InitOK, HeldIs
    <2>2. Held = <<>>
      BY <2>1, SMT DEF QueueInit
    <2> QED BY <2>2 DEF QueueInit, W!Init
  <1>2. Shape /\ Reachable /\ [QueueNext]_queueVars => [W!Next]_<<Held, given>>
    <2> SUFFICES ASSUME Shape, Reachable, [QueueNext]_queueVars
                 PROVE  [W!Next]_<<Held, given>>
      OBVIOUS
    <2>1. CASE TakeEvent
      BY <2>1, TakeSimulates DEF W!Next
    <2>2. ASSUME NEW e \in Events, PutEvent(e)
          PROVE  W!Next
      BY <2>2, PutSimulates DEF W!Next
    <2>3. CASE UNCHANGED queueVars
      BY <2>3 DEF queueVars, Held
    <2> QED BY <2>1, <2>2, <2>3 DEF QueueNext
  <1>3. QueueInit => Shape /\ Reachable
    BY InitOK
  <1>4. Shape /\ Reachable /\ [QueueNext]_queueVars => Shape' /\ Reachable'
    BY StepOK
  <1> QED BY <1>1, <1>2, <1>3, <1>4, PTL DEF QueueSpec, ImplementsWindow, W!Spec

-----------------------------------------------------------------------------
(* The node *)

Entry == [contact: Contacts, age: 0..SrokGoda + 1]

Known(s, c) == {i \in DOMAIN s : s[i].contact.id = c.id \/ s[i].contact.adres = c.adres}
Fresh(c) == [contact |-> c, age |-> 0]

-----------------------------------------------------------------------------
(* The table of neighbours *)

\* A contact takes over the first entry that shares its id or address, is added
\* at the end, or finds the table full.
LEMMA UpdatedCases ==
    ASSUME NEW s \in Seq(Entry), NEW c \in Contacts
    PROVE  \/ \E m \in Known(s, c) : Updated(s, c) = [s EXCEPT ![m] = Fresh(c)]
           \/ Known(s, c) = {} /\ Len(s) < MaxSosedi /\ Updated(s, c) = Append(s, Fresh(c))
           \/ Updated(s, c) = s /\ Known(s, c) = {}
  <1>1. CASE Known(s, c) # {}
    <2>1. Known(s, c) \in SUBSET Nat
      BY DEF Known
    <2>2. Min(Known(s, c)) \in Known(s, c)
      BY <1>1, <2>1, MinIsLeast
    <2>3. Updated(s, c) = [s EXCEPT ![Min(Known(s, c))] = Fresh(c)]
      BY <1>1 DEF Updated, Known, Fresh
    <2> QED BY <2>2, <2>3
  <1>2. CASE Known(s, c) = {}
    BY <1>2 DEF Updated, Known, Fresh
  <1> QED BY <1>1, <1>2

\* Hearing of a node keeps the neighbours' type and number.
LEMMA UpdatedType ==
    ASSUME NEW s \in Seq(Entry), Len(s) <= MaxSosedi, NEW c \in Contacts
    PROVE  Updated(s, c) \in Seq(Entry) /\ Len(Updated(s, c)) <= MaxSosedi
  <1>1. Fresh(c) \in Entry
    BY RoyAssumption DEF Fresh, Entry
  <1>2. MaxSosedi \in Nat
    BY RoyAssumption
  <1>3. ASSUME NEW m \in Known(s, c), Updated(s, c) = [s EXCEPT ![m] = Fresh(c)]
        PROVE  Updated(s, c) \in Seq(Entry) /\ Len(Updated(s, c)) <= MaxSosedi
    <2>1. m \in DOMAIN s
      BY DEF Known
    <2> QED BY <1>1, <1>3, <2>1
  <1>4. CASE Len(s) < MaxSosedi /\ Updated(s, c) = Append(s, Fresh(c))
    BY <1>1, <1>2, <1>4
  <1> QED BY <1>3, <1>4, UpdatedCases

\* What the cleaning keeps: entries of the table, in their order, and all that
\* are recent.
LEMMA KeptEntries ==
    ASSUME NEW s \in Seq(Entry), NEW f \in Kept(s)
    PROVE  /\ [k \in DOMAIN f |-> s[f[k]]] \in Seq(Entry)
           /\ Len([k \in DOMAIN f |-> s[f[k]]]) <= Len(s)
           /\ DOMAIN [k \in DOMAIN f |-> s[f[k]]] = DOMAIN f
           /\ \A k \in DOMAIN f : f[k] \in DOMAIN s
           /\ \A j, k \in DOMAIN f : f[j] = f[k] => j = k
           /\ \A i \in DOMAIN s : Recent(s[i]) => \E k \in DOMAIN f : f[k] = i
  <1> DEFINE stay == {i \in DOMAIN s : Recent(s[i])}
             n == Cardinality(stay)
             t == [k \in DOMAIN f |-> s[f[k]]]
  <1>1. IsFiniteSet(stay) /\ n \in Nat /\ n <= Len(s)
    <2>1. IsFiniteSet(1..Len(s)) /\ Cardinality(1..Len(s)) = Len(s)
      <3>1. Len(s) \in Nat
        OBVIOUS
      <3>2. /\ IsFiniteSet(1..Len(s))
            /\ Cardinality(1..Len(s)) = IF 1 > Len(s) THEN 0 ELSE Len(s) - 1 + 1
        BY <3>1, FS_Interval
      <3> QED BY <3>1, <3>2
    <2>2. stay \in SUBSET (1..Len(s))
      OBVIOUS
    <2>3. IsFiniteSet(stay) /\ n <= Cardinality(1..Len(s))
      BY <2>1, <2>2, FS_Subset
    <2> QED BY <2>1, <2>3, FS_CardinalityType
  <1>2. f \in [1..n -> stay] /\ \A j, k \in DOMAIN f : j < k => f[j] < f[k]
    BY DEF Kept
  <1>3. \A i \in stay : i \in DOMAIN s /\ i \in Nat /\ s[i] \in Entry
    OBVIOUS
  <1>4. \A i \in DOMAIN s : Recent(s[i]) => i \in stay
    OBVIOUS
  <1> HIDE DEF n, stay
  <1>5. \A j, k \in 1..n : f[j] = f[k] => j = k
    <2> TAKE j, k \in 1..n
    <2>1. j \in Int /\ k \in Int /\ f[j] \in Nat /\ f[k] \in Nat
      BY <1>2, <1>3
    <2>2. (j < k => f[j] < f[k]) /\ (k < j => f[k] < f[j])
      BY <1>2
    <2> QED BY <2>1, <2>2
  <1>6. \A i \in stay : \E k \in 1..n : f[k] = i
    <2>1. IsFiniteSet(1..n) /\ Cardinality(1..n) = n
      <3>1. IsFiniteSet(1..n) /\ Cardinality(1..n) = IF 1 > n THEN 0 ELSE n - 1 + 1
        BY <1>1, FS_Interval
      <3> QED BY <1>1, <3>1
    <2>2. f \in Injection(1..n, stay)
      BY <1>2, <1>5 DEF Injection, IsInjective
    <2>3. Cardinality(1..n) = Cardinality(stay)
      BY <2>1 DEF n
    <2>4. f \in Surjection(1..n, stay)
      BY <1>1, <2>2, <2>3, FS_Injection
    <2> QED BY <2>4 DEF Surjection
  <1>7. t \in [1..n -> Entry] /\ DOMAIN t = 1..n /\ DOMAIN f = 1..n
    BY <1>2, <1>3
  <1>8. t \in Seq(Entry) /\ Len(t) = n
    BY <1>1, <1>7
  <1> QED BY <1>1, <1>2, <1>3, <1>4, <1>5, <1>6, <1>7, <1>8

\* A second makes the entries older and leaves them where they are.
LEMMA OlderEntries ==
    ASSUME sosedi \in Seq(Entry), Second
    PROVE  /\ sosedi' \in Seq(Entry)
           /\ Len(sosedi') = Len(sosedi)
           /\ \A i \in DOMAIN sosedi : sosedi'[i].contact = sosedi[i].contact
  <1>1. SrokGoda \in Nat
    BY RoyAssumption
  <1>2. sosedi' = [i \in 1..Len(sosedi) |-> [sosedi[i] EXCEPT !.age = Older(@, SrokGoda + 1)]]
    BY DEF Second
  <1>3. ASSUME NEW i \in 1..Len(sosedi)
        PROVE  /\ [sosedi[i] EXCEPT !.age = Older(@, SrokGoda + 1)] \in Entry
               /\ [sosedi[i] EXCEPT !.age = Older(@, SrokGoda + 1)].contact = sosedi[i].contact
    <2>0. sosedi[i] \in Entry
      OBVIOUS
    <2>1. sosedi[i] \in [contact: Contacts, age: 0..SrokGoda + 1]
      BY <2>0 DEF Entry
    <2>2. Older(sosedi[i].age, SrokGoda + 1) \in 0..SrokGoda + 1
      BY <1>1, <2>1 DEF Older
    <2> QED BY <2>1, <2>2 DEF Entry
  <1>4. sosedi' \in [1..Len(sosedi) -> Entry] /\ Len(sosedi) \in Nat
    BY <1>2, <1>3
  <1>5. sosedi' \in Seq(Entry) /\ Len(sosedi') = Len(sosedi)
    BY <1>4
  <1>6. \A i \in 1..Len(sosedi) : sosedi'[i].contact = sosedi[i].contact
    BY <1>2, <1>3
  <1> QED BY <1>5, <1>6

-----------------------------------------------------------------------------
(* Types, and what the thread carries *)

ThreadPlaces == {"select", "packet", "event", "greet", "clean", "ended"}

\* TypeOK with the queue's part taken out.
NodeTypeOK ==
    /\ sosedi \in Seq(Entry)
    /\ Len(sosedi) <= MaxSosedi
    /\ zapushchen \in BOOLEAN
    /\ potok \in ThreadPlaces
    /\ paket \in Packets \cup {NoPacket}
    /\ privetAge \in 0..PrivetInterval
    /\ stopped \in BOOLEAN
    /\ dropped \in 0..MaxDropped

\* The queue is used by calls of its own only, and with its events.
LEMMA QueueSteps == PacketInv /\ [Next]_vars => [QueueNext]_queueVars
  <1> SUFFICES ASSUME PacketInv, [Next]_vars PROVE [QueueNext]_queueVars
    OBVIOUS
  <1>1. CASE Report
    BY <1>1 DEF Report, PacketInv, QueueNext
  <1>2. CASE Take
    BY <1>2 DEF Take, QueueNext
  <1>3. CASE ThreadStep /\ ~Report
    BY <1>3 DEF ThreadStep, Drop, Receive, Timeout, Note, Greet, Clean, End
  <1>4. CASE SendGreeting \/ Stop \/ Joined \/ Second \/ \E c \in Contacts : AddNeighbour(c)
    BY <1>4 DEF SendGreeting, Stop, Joined, Second, AddNeighbour
  <1>5. CASE UNCHANGED vars
    BY <1>5 DEF vars
  <1> QED BY <1>1, <1>2, <1>3, <1>4, <1>5 DEF Next

\* The packet that is worked on names a contact.
LEMMA PacketSender ==
    ASSUME PacketInv, potok = "packet"
    PROVE  paket.from \in Contacts /\ paket.kind \in Kinds
  BY DEF PacketInv, Packets

\* The steps that leave the table of neighbours alone.
LEMMA SosediCases ==
    ASSUME [Next]_vars
    PROVE  \/ sosedi' = sosedi
           \/ Note
           \/ Clean
           \/ \E c \in Contacts : AddNeighbour(c)
           \/ Second
  BY DEF Next, ThreadStep, Drop, Receive, Timeout, Report, Greet, End, Take, SendGreeting, Stop,
         Joined, vars, royVars

\* Every step keeps the neighbours' type, ...
LEMMA SosediStep ==
    ASSUME NodeTypeOK, PacketInv, [Next]_vars
    PROVE  sosedi' \in Seq(Entry) /\ Len(sosedi') <= MaxSosedi
  <1> USE DEF NodeTypeOK
  <1>0. MaxSosedi \in Nat /\ Len(sosedi) \in Nat
    BY RoyAssumption
  <1>1. ASSUME NEW c \in Contacts, sosedi' = Updated(sosedi, c)
        PROVE  sosedi' \in Seq(Entry) /\ Len(sosedi') <= MaxSosedi
    BY <1>1, UpdatedType
  <1>2. CASE Note
    BY <1>1, <1>2, PacketSender DEF Note
  <1>3. ASSUME NEW c \in Contacts, AddNeighbour(c)
        PROVE  sosedi' \in Seq(Entry) /\ Len(sosedi') <= MaxSosedi
    BY <1>1, <1>3 DEF AddNeighbour
  <1>4. CASE Clean
    <2>1. PICK f \in Kept(sosedi) : sosedi' = [k \in DOMAIN f |-> sosedi[f[k]]]
      BY <1>4 DEF Clean
    <2>2. sosedi' \in Seq(Entry) /\ Len(sosedi') <= Len(sosedi)
      BY <2>1, KeptEntries
    <2>3. Len(sosedi') \in Nat
      BY <2>2
    <2> QED BY <1>0, <2>2, <2>3
  <1>5. CASE Second
    BY <1>5, OlderEntries
  <1>6. CASE sosedi' = sosedi
    BY <1>6
  <1> QED BY <1>2, <1>3, <1>4, <1>5, <1>6, SosediCases

\* ... the types of the rest, the packet in hand, and the quiet of a stopped node.
LEMMA NodeStep ==
    ASSUME NodeTypeOK, PacketInv, ThreadEnded, [Next]_vars
    PROVE  NodeTypeOK' /\ PacketInv' /\ ThreadEnded'
  <1> USE DEF NodeTypeOK, PacketInv, ThreadEnded, ThreadPlaces
  <1>0. /\ sosedi' \in Seq(Entry) /\ Len(sosedi') <= MaxSosedi
        /\ PrivetInterval \in Nat /\ MaxDropped \in Nat
        /\ NoPacket.kind = "none"
    BY SosediStep, RoyAssumption DEF NoPacket
  <1>1. CASE Drop
    BY <1>0, <1>1 DEF Drop
  <1>2. ASSUME NEW p \in Packets, Receive(p)
        PROVE  NodeTypeOK' /\ PacketInv' /\ ThreadEnded'
    BY <1>0, <1>2 DEF Receive
  <1>3. CASE Timeout \/ Greet \/ Clean \/ End
    BY <1>0, <1>3 DEF Timeout, Greet, Clean, End
  <1>4. CASE Note
    <2>1. paket \in Packets /\ paket.kind \in Kinds /\ (paket.kind = "bad_formula" => dropped < MaxDropped)
      BY <1>4, PacketSender DEF Note
    <2>2. /\ AfterNote(paket.kind) \in {"select", "event", "greet"}
          /\ AfterNote(paket.kind) = "event" => paket.kind \in Events
      BY RoyAssumption DEF AfterNote
    <2>3. dropped' \in 0..MaxDropped
      BY <1>0, <1>4, <2>1 DEF Note
    <2>4. NodeTypeOK'
      BY <1>0, <1>4, <2>1, <2>2, <2>3 DEF Note
    <2>5. PacketInv' /\ ThreadEnded'
      BY <1>4, <2>1, <2>2 DEF Note
    <2> QED BY <2>4, <2>5
  <1>5. CASE Report
    BY <1>0, <1>5 DEF Report
  <1>6. CASE Take
    BY <1>6 DEF Take, royVars
  <1>7. ASSUME NEW c \in Contacts, AddNeighbour(c)
        PROVE  NodeTypeOK' /\ PacketInv' /\ ThreadEnded'
    BY <1>0, <1>7 DEF AddNeighbour
  <1>8. CASE SendGreeting \/ Stop \/ Joined
    <2>1. privetAge' \in 0..PrivetInterval
      BY <1>0, <1>8 DEF SendGreeting, Stop, Joined
    <2>2. CASE SendGreeting
      BY <1>0, <2>1, <2>2 DEF SendGreeting
    <2>3. CASE Stop
      BY <1>0, <2>1, <2>3 DEF Stop
    <2>4. CASE Joined
      BY <1>0, <2>1, <2>4 DEF Joined
    <2> QED BY <1>8, <2>2, <2>3, <2>4
  <1>9. CASE Second
    <2>1. privetAge' \in 0..PrivetInterval
      BY <1>0, <1>9 DEF Second, Older
    <2> QED BY <1>0, <1>9, <2>1 DEF Second
  <1>10. CASE UNCHANGED vars
    BY <1>10 DEF vars, royVars
  <1> QED BY <1>1, <1>2, <1>3, <1>4, <1>5, <1>6, <1>7, <1>8, <1>9, <1>10 DEF Next, ThreadStep

\* TypeOK, in the queue's part and the node's.
LEMMA TypeSplit == TypeOK <=> QueueOK /\ NodeTypeOK
  BY DEF TypeOK, NodeTypeOK, Entry, ThreadPlaces

\* A node that starts has all of it.
LEMMA NodeInit == Init => Shape /\ Reachable /\ NodeTypeOK /\ PacketInv /\ ThreadEnded
  <1> SUFFICES ASSUME Init PROVE Shape /\ Reachable /\ NodeTypeOK /\ PacketInv /\ ThreadEnded
    OBVIOUS
  <1>1. Shape /\ Reachable
    BY InitOK DEF Init
  <1>2. NodeTypeOK
    <2>1. sosedi \in Seq(Entry) /\ Len(sosedi) = 0
      BY DEF Init
    <2>2. MaxSosedi \in Nat /\ 0 \in 0..MaxDropped /\ 0 \in 0..PrivetInterval
      BY RoyAssumption
    <2>3. 0 <= MaxSosedi
      BY <2>2
    <2> QED BY <2>1, <2>2, <2>3 DEF Init, NodeTypeOK, ThreadPlaces
  <1> QED BY <1>1, <1>2 DEF Init, PacketInv, ThreadEnded

-----------------------------------------------------------------------------
(* The neighbours, when an id stands for one address *)

\* The table s holds no address twice.
OnePerAddress(s) ==
    \A i, j \in DOMAIN s : s[i].contact.adres = s[j].contact.adres => i = j

OneEntryEach == OnePerAddress(sosedi)

\* Every address with a recent sign in table s is in table t.
CarriedOver(s, t) ==
    \A i \in DOMAIN s : s[i].age <= SrokGoda =>
        \E j \in DOMAIN t : t[j].contact.adres = s[i].contact.adres

\* An entry that a contact takes over is the one at its address.
LEMMA SteadyUpdate ==
    ASSUME Steady, NEW s \in Seq(Entry), NEW c \in Contacts, OnePerAddress(s)
    PROVE  OnePerAddress(Updated(s, c)) /\ CarriedOver(s, Updated(s, c))
  <1>1. \A i \in DOMAIN s : s[i].contact \in Contacts
    <2> TAKE i \in DOMAIN s
    <2>1. s[i] \in Entry
      OBVIOUS
    <2> QED BY <2>1 DEF Entry
  <1>2. \A i \in Known(s, c) : i \in DOMAIN s /\ s[i].contact.adres = c.adres
    BY <1>1 DEF Known, Steady
  <1>3. \A i \in DOMAIN s : s[i].contact.adres = c.adres => i \in Known(s, c)
    BY DEF Known
  <1>4. Fresh(c).contact = c
    BY DEF Fresh
  <1>5. ASSUME NEW m \in Known(s, c), Updated(s, c) = [s EXCEPT ![m] = Fresh(c)]
        PROVE  OnePerAddress(Updated(s, c)) /\ CarriedOver(s, Updated(s, c))
    <2>1. DOMAIN Updated(s, c) = DOMAIN s
      BY <1>5
    <2>2. \A i \in DOMAIN s : Updated(s, c)[i].contact.adres = s[i].contact.adres
      <3> TAKE i \in DOMAIN s
      <3>1. CASE i = m
        BY <1>2, <1>4, <1>5, <3>1
      <3>2. CASE i # m
        BY <1>5, <3>2
      <3> QED BY <3>1, <3>2
    <2> QED BY <2>1, <2>2 DEF OnePerAddress, CarriedOver
  <1>6. CASE Known(s, c) = {} /\ Updated(s, c) = Append(s, Fresh(c))
    <2> DEFINE t == Append(s, Fresh(c))
               n == Len(s)
    <2>1. /\ n \in Nat /\ DOMAIN s = 1..n /\ DOMAIN t = 1..n + 1
          /\ \A i \in 1..n : t[i] = s[i]
          /\ t[n + 1].contact.adres = c.adres
      BY <1>4
    <2>2. \A i \in 1..n : s[i].contact.adres # c.adres
      BY <1>3, <1>6, <2>1
    <2> HIDE DEF t, n
    <2>3. \A i \in 1..n + 1 : i \in 1..n \/ i = n + 1
      BY <2>1
    <2>4. \A i \in 1..n : i \in 1..n + 1
      BY <2>1
    <2>5. OnePerAddress(t)
      BY <2>1, <2>2, <2>3 DEF OnePerAddress
    <2>6. CarriedOver(s, t)
      BY <2>1, <2>4 DEF CarriedOver
    <2> QED BY <1>6, <2>5, <2>6 DEF t
  <1>7. CASE Updated(s, c) = s
    BY <1>7 DEF CarriedOver
  <1> QED BY <1>5, <1>6, <1>7, UpdatedCases

\* Steps that drop no packet keep one entry an address, and each recent neighbour.
LEMMA SteadyStep ==
    ASSUME Steady, NodeTypeOK, PacketInv, OnePerAddress(sosedi), [Next]_vars
    PROVE  OnePerAddress(sosedi') /\ CarriedOver(sosedi, sosedi')
  <1>0. sosedi \in Seq(Entry)
    BY DEF NodeTypeOK
  <1>1. ASSUME NEW c \in Contacts, sosedi' = Updated(sosedi, c)
        PROVE  OnePerAddress(sosedi') /\ CarriedOver(sosedi, sosedi')
    BY <1>0, <1>1, SteadyUpdate
  <1>2. CASE Note
    BY <1>1, <1>2, PacketSender DEF Note
  <1>3. ASSUME NEW c \in Contacts, AddNeighbour(c)
        PROVE  OnePerAddress(sosedi') /\ CarriedOver(sosedi, sosedi')
    BY <1>1, <1>3 DEF AddNeighbour
  <1>4. CASE Clean
    <2>1. PICK f \in Kept(sosedi) : sosedi' = [k \in DOMAIN f |-> sosedi[f[k]]]
      BY <1>4 DEF Clean
    <2>2. /\ DOMAIN sosedi' = DOMAIN f
          /\ \A k \in DOMAIN f : sosedi'[k] = sosedi[f[k]]
      BY <2>1
    <2>3. /\ \A k \in DOMAIN f : f[k] \in DOMAIN sosedi
          /\ \A j, k \in DOMAIN f : f[j] = f[k] => j = k
          /\ \A i \in DOMAIN sosedi : Recent(sosedi[i]) => \E k \in DOMAIN f : f[k] = i
      BY <1>0, KeptEntries
    <2>4. OnePerAddress(sosedi')
      BY <2>2, <2>3 DEF OnePerAddress
    <2>5. CarriedOver(sosedi, sosedi')
      BY <2>2, <2>3 DEF CarriedOver, Recent
    <2> QED BY <2>4, <2>5
  <1>5. CASE Second
    <2>1. /\ DOMAIN sosedi' = DOMAIN sosedi
          /\ \A i \in DOMAIN sosedi : sosedi'[i].contact = sosedi[i].contact
      BY <1>0, <1>5, OlderEntries
    <2> QED BY <2>1 DEF OnePerAddress, CarriedOver
  <1>6. CASE sosedi' = sosedi
    BY <1>6 DEF CarriedOver
  <1> QED BY <1>2, <1>3, <1>4, <1>5, <1>6, SosediCases

\* One entry for each address is one entry for each id as well.
LEMMA NoTwinsSplit ==
    ASSUME Steady, sosedi \in Seq(Entry), OnePerAddress(sosedi)
    PROVE  NoTwins
  <1>1. \A i \in DOMAIN sosedi : sosedi[i].contact \in Contacts
    <2> TAKE i \in DOMAIN sosedi
    <2>1. sosedi[i] \in Entry
      OBVIOUS
    <2> QED BY <2>1 DEF Entry
  <1> QED BY <1>1 DEF Steady, OnePerAddress, NoTwins

-----------------------------------------------------------------------------
(* The results *)

\* The node keeps its types and its limits, the thread carries a packet or an event
\* exactly where its loop has one, and does nothing after it was stopped.
THEOREM Inductive == Spec => []IInv
  <1> DEFINE Inv == Shape /\ Reachable /\ NodeTypeOK /\ PacketInv /\ ThreadEnded
  <1>1. Init => Inv
    BY NodeInit
  <1>2. Inv /\ [Next]_vars => Inv'
    BY QueueSteps, StepOK, NodeStep
  <1>3. Inv => IInv
    BY QueueOKSpelled, TypeSplit DEF IInv
  <1> QED BY <1>1, <1>2, <1>3, PTL DEF Spec

\* Once kolibri_roy_ostanovit has returned and the locks are gone, no step changes the
\* queue, the table or the thread, but for the ages of its entries.
THEOREM QuietOnceStopped == Spec => QuietAfterStop
  <1> DEFINE Quiet ==
        /\ UNCHANGED <<queueVars, zapushchen, potok, paket, stopped, dropped>>
        /\ DOMAIN sosedi' = DOMAIN sosedi
        /\ \A i \in DOMAIN sosedi : sosedi'[i].contact = sosedi[i].contact
  <1>1. ASSUME IInv, Next, stopped PROVE Quiet
    <2>1. potok = "ended" /\ sosedi \in Seq(Entry)
      BY <1>1, TypeSplit DEF IInv, ThreadEnded, NodeTypeOK
    <2>2. ~ThreadStep
      BY <2>1 DEF ThreadStep, Drop, Receive, Timeout, Note, Report, Greet, Clean, End
    <2>3. ASSUME \/ Take \/ SendGreeting \/ Joined \/ \E c \in Contacts : AddNeighbour(c)
          PROVE  FALSE
      BY <1>1, <2>3 DEF Take, SendGreeting, Joined, AddNeighbour
    <2>4. CASE Stop
      BY <1>1, <2>4 DEF Stop, IInv, ThreadEnded
    <2>5. CASE Second
      BY <2>1, <2>5, OlderEntries DEF Second
    <2> QED BY <1>1, <2>2, <2>3, <2>4, <2>5 DEF Next
  <1>2. ASSUME IInv, [Next]_vars PROVE [stopped => Quiet]_vars
    BY <1>1, <1>2
  <1> QED BY <1>2, Inductive, PTL DEF Spec, QuietAfterStop

\* The queue of a running node is the ring of module RoyQueue: between them, the
\* thread and the program make no other use of it, ...
THEOREM NodeUsesQueue == Spec => QueueSpec
  <1>1. Init => QueueInit
    BY DEF Init
  <1>2. IInv /\ [Next]_vars => [QueueNext]_queueVars
    BY QueueSteps DEF IInv
  <1> QED BY <1>1, <1>2, Inductive, PTL DEF Spec, QueueSpec

\* ... so that the program gets the node's events in order, and an overflow costs
\* it the oldest ones only.
THEOREM NodeGivesWindow == Spec => ImplementsWindow
  BY NodeUsesQueue, Refinement, PTL

\* When an id stands for one address, the table never holds an address twice ...
LEMMA AddressesDiffer == Steady => (Spec => []OneEntryEach)
  <1> SUFFICES ASSUME Steady PROVE Spec => []OneEntryEach
    OBVIOUS
  <1>1. Init => OneEntryEach
    BY DEF Init, OneEntryEach, OnePerAddress
  <1>2. IInv /\ OneEntryEach /\ [Next]_vars => OneEntryEach'
    BY SteadyStep, TypeSplit DEF IInv, OneEntryEach
  <1> QED BY <1>1, <1>2, Inductive, PTL DEF Spec

\* ... so that no neighbour is in it twice, and ...
THEOREM NeverTwice == Steady => (Spec => []NoTwins)
  <1> SUFFICES ASSUME Steady PROVE Spec => []NoTwins
    OBVIOUS
  <1>1. IInv /\ OneEntryEach => NoTwins
    BY NoTwinsSplit, TypeSplit DEF IInv, NodeTypeOK, OneEntryEach
  <1>2. Spec => []OneEntryEach
    BY AddressesDiffer
  <1> QED BY <1>1, <1>2, Inductive, PTL

\* ... none that gave a sign lately is lost, whichever of the thread and the
\* program writes to the table.
THEOREM NeverLost == Steady => (Spec => RecentKept)
  <1> SUFFICES ASSUME Steady PROVE Spec => RecentKept
    OBVIOUS
  <1>1. IInv /\ OneEntryEach /\ [Next]_vars =>
          [\A i \in DOMAIN sosedi : sosedi[i].age <= SrokGoda =>
              \E j \in DOMAIN sosedi' : sosedi'[j].contact.adres = sosedi[i].contact.adres]_sosedi
    BY SteadyStep, TypeSplit DEF IInv, OneEntryEach, CarriedOver
  <1>2. Spec => []OneEntryEach
    BY AddressesDiffer
  <1> QED BY <1>1, <1>2, Inductive, PTL DEF Spec, RecentKept
=============================================================================
