------------------------ MODULE KnowledgeRelayProofs ------------------------
(***************************************************************************)
(* Proofs about KnowledgeRelay, for every set of targets and of event       *)
(* kinds, however much is recorded and however often passes fail.          *)
(***************************************************************************)
EXTENDS KnowledgeRelay, FiniteSetTheorems, TLAPS

-----------------------------------------------------------------------------
(* Journals *)

\* What a failure does to its count.
LEMMA FailCounts ==
    ASSUME NEW f, Fail(f)
    PROVE  f \in Failures /\ failures' = [failures EXCEPT ![f] = @ + 1]
  BY DEF Fail

\* A failure keeps the counts' type and lowers none of them.
LEMMA FailureCounted ==
    ASSUME RelayTypeOK, NEW f, Fail(f)
    PROVE  /\ failures' \in [AllFailures -> Nat]
           /\ failures'["crash"] >= failures["crash"]
           /\ failures'["unsaved"] >= failures["unsaved"]
           /\ f = "crash" => failures'["crash"] = failures["crash"] + 1
           /\ f = "unsaved" => failures'["unsaved"] = failures["unsaved"] + 1
  <1>1. f \in AllFailures /\ failures' = [failures EXCEPT ![f] = @ + 1]
    BY FailCounts, RelayAssumption
  <1>2. failures \in [AllFailures -> Nat] /\ "crash" \in AllFailures /\ "unsaved" \in AllFailures
    BY DEF RelayTypeOK, AllFailures
  <1> HIDE DEF AllFailures
  <1> QED BY <1>1, <1>2

\* A number put at the end of a journal is the one thing its range gains.
LEMMA RangeOfAppend ==
    ASSUME NEW s \in Seq(Nat), NEW x \in Nat
    PROVE  Range(Append(s, x)) = Range(s) \cup {x}
  <1>1. /\ DOMAIN s = 1..Len(s)
        /\ DOMAIN Append(s, x) = 1..Len(s) + 1
        /\ \A n \in 1..Len(s) : Append(s, x)[n] = s[n]
        /\ Append(s, x)[Len(s) + 1] = x
        /\ Len(s) \in Nat
    OBVIOUS
  <1>2. ASSUME NEW y \in Range(Append(s, x)) PROVE y \in Range(s) \cup {x}
    <2>1. PICK n \in 1..Len(s) + 1 : y = Append(s, x)[n]
      BY <1>1 DEF Range
    <2>2. n \in 1..Len(s) \/ n = Len(s) + 1
      BY <1>1
    <2> QED BY <1>1, <2>1, <2>2 DEF Range
  <1>3. ASSUME NEW y \in Range(s) PROVE y \in Range(Append(s, x))
    <2>1. PICK n \in 1..Len(s) : y = s[n]
      BY <1>1 DEF Range
    <2>2. n \in 1..Len(s) + 1
      BY <1>1
    <2> QED BY <1>1, <2>1, <2>2 DEF Range
  <1>4. x \in Range(Append(s, x))
    <2>1. Len(s) + 1 \in 1..Len(s) + 1
      BY <1>1
    <2> QED BY <1>1, <2>1 DEF Range
  <1> QED BY <1>2, <1>3, <1>4

\* A place where a sequence starts over.
Descents(s) == {n \in 2..Len(s) : s[n] <= s[n - 1]}

\* The places where a sequence goes down can be counted.
LEMMA DescentsFinite ==
    ASSUME NEW s \in Seq(Nat)
    PROVE  IsFiniteSet(Descents(s)) /\ Cardinality(Descents(s)) \in Nat
  <1>1. IsFiniteSet(2..Len(s))
    BY FS_Interval
  <1>2. Descents(s) \in SUBSET (2..Len(s))
    BY DEF Descents
  <1>3. IsFiniteSet(Descents(s))
    BY <1>1, <1>2, FS_Subset
  <1> QED BY <1>3, FS_CardinalityType

\* An entry put at the end adds at most one of them, and none if it is greater
\* than the last.
LEMMA DescentsOfAppend ==
    ASSUME NEW s \in Seq(Nat), NEW x \in Nat
    PROVE  /\ Cardinality(Descents(Append(s, x))) <= Cardinality(Descents(s)) + 1
           /\ (\A n \in 1..Len(s) : n = Len(s) => s[n] < x)
              => Cardinality(Descents(Append(s, x))) <= Cardinality(Descents(s))
  <1> DEFINE r == Append(s, x)
  <1>1. /\ r \in Seq(Nat) /\ Len(r) = Len(s) + 1 /\ Len(s) \in Nat
        /\ \A n \in 1..Len(s) : r[n] = s[n]
        /\ r[Len(s) + 1] = x
    OBVIOUS
  <1> HIDE DEF r
  <1>2. \A n \in 2..Len(s) : r[n] = s[n] /\ r[n - 1] = s[n - 1]
    <2> TAKE n \in 2..Len(s)
    <2>1. n \in 1..Len(s) /\ n - 1 \in 1..Len(s)
      BY <1>1
    <2> QED BY <1>1, <2>1
  <1>3. \A n \in Descents(r) : n \in Descents(s) \/ n = Len(s) + 1
    <2> TAKE n \in Descents(r)
    <2>1. n \in 2..Len(s) + 1 /\ r[n] <= r[n - 1]
      BY <1>1 DEF Descents
    <2>2. n \in 2..Len(s) \/ n = Len(s) + 1
      BY <1>1, <2>1
    <2> QED BY <1>2, <2>1, <2>2 DEF Descents
  <1>4. IsFiniteSet(Descents(s)) /\ Cardinality(Descents(s)) \in Nat
        /\ IsFiniteSet(Descents(r)) /\ Cardinality(Descents(r)) \in Nat
    BY <1>1, DescentsFinite
  <1>5. Cardinality(Descents(r)) <= Cardinality(Descents(s)) + 1
    <2>1. /\ IsFiniteSet(Descents(s) \cup {Len(s) + 1})
          /\ Cardinality(Descents(s) \cup {Len(s) + 1}) <= Cardinality(Descents(s)) + 1
          /\ Cardinality(Descents(s) \cup {Len(s) + 1}) \in Nat
      <3>1. /\ IsFiniteSet(Descents(s) \cup {Len(s) + 1})
            /\ Cardinality(Descents(s) \cup {Len(s) + 1}) =
                  IF Len(s) + 1 \in Descents(s) THEN Cardinality(Descents(s))
                  ELSE Cardinality(Descents(s)) + 1
        BY <1>4, FS_AddElement
      <3> HIDE DEF Descents
      <3> QED BY <1>4, <3>1
    <2>2. Descents(r) \in SUBSET (Descents(s) \cup {Len(s) + 1})
      BY <1>3
    <2>3. Cardinality(Descents(r)) <= Cardinality(Descents(s) \cup {Len(s) + 1})
      BY <2>1, <2>2, FS_Subset
    <2> QED BY <1>4, <2>1, <2>3
  <1>6. ASSUME \A n \in 1..Len(s) : n = Len(s) => s[n] < x
        PROVE  Cardinality(Descents(r)) <= Cardinality(Descents(s))
    <2>1. Len(s) + 1 \notin Descents(r)
      <3>1. SUFFICES ASSUME Len(s) + 1 \in 2..Len(r), r[Len(s) + 1] <= r[(Len(s) + 1) - 1]
                     PROVE  FALSE
        BY DEF Descents
      <3>2. Len(s) \in 1..Len(s) /\ (Len(s) + 1) - 1 = Len(s)
        BY <1>1, <3>1
      <3>3. s[Len(s)] < x /\ r[Len(s)] = s[Len(s)] /\ s[Len(s)] \in Nat
        <4>1. s[Len(s)] < x
          BY <1>6, <3>2
        <4>2. s[Len(s)] \in Nat
          BY <3>2
        <4> QED BY <1>1, <3>2, <4>1, <4>2
      <3> QED BY <1>1, <3>1, <3>2, <3>3
    <2>2. Descents(r) \in SUBSET Descents(s)
      BY <1>3, <2>1
    <2> QED BY <1>4, <2>2, FS_Subset
  <1> QED BY <1>5, <1>6 DEF r

-----------------------------------------------------------------------------
(* What the actions do *)

\* An event the server adds lies behind all that was recorded.
LEMMA ServerForwards ==
    ASSUME RelayTypeOK, NEW k \in Kinds, ServerRecords(k)
    PROVE  /\ source' \in Seq(Kinds)
           /\ Len(source') = Len(source) + 1
           /\ \A i \in Forwarded' : i \in Nat /\ (i < Len(source) => i \in Forwarded)
  <1>1. /\ source \in Seq(Kinds) /\ source' = Append(source, k)
        /\ Len(source) \in Nat
    BY DEF RelayTypeOK, ServerRecords
  <1>2. source' \in Seq(Kinds) /\ Len(source') = Len(source) + 1
    BY <1>1
  <1>3. ASSUME NEW i \in Forwarded' PROVE i \in Nat /\ (i < Len(source) => i \in Forwarded)
    <2>1. i \in 0..Len(source) /\ source'[i + 1] \in Relayed
      BY <1>1, <1>2 DEF Forwarded
    <2>2. ASSUME i < Len(source) PROVE i \in Forwarded
      <3>1. i \in 0..Len(source) - 1 /\ i + 1 \in 1..Len(source)
        BY <1>1, <2>1, <2>2
      <3>2. source'[i + 1] = source[i + 1]
        BY <1>1, <3>1
      <3> QED BY <2>1, <3>1, <3>2 DEF Forwarded
    <2> QED BY <2>1, <2>2
  <1> QED BY <1>2, <1>3

\* A delivery puts the event's index behind one journal.
LEMMA Delivers ==
    ASSUME RelayTypeOK, NEW t \in Targets, Deliver(t)
    PROVE  /\ target' \in [Targets -> Seq(Nat)]
           /\ target'[t] = Append(target[t], pos)
           /\ \A u \in Targets : u # t => target'[u] = target[u]
           /\ \A u \in Targets : \A i : Delivered(i, u)' <=> Delivered(i, u) \/ (u = t /\ i = pos)
  <1>1. /\ target \in [Targets -> Seq(Nat)] /\ pos \in Nat
        /\ target' = [target EXCEPT ![t] = Append(@, pos)]
    BY DEF RelayTypeOK, Deliver, Index
  <1>2. /\ target' \in [Targets -> Seq(Nat)]
        /\ target'[t] = Append(target[t], pos)
        /\ \A u \in Targets : u # t => target'[u] = target[u]
    BY <1>1
  <1>3. Range(Append(target[t], pos)) = Range(target[t]) \cup {pos}
    BY <1>1, RangeOfAppend
  <1>4. \A u \in Targets : \A i : Delivered(i, u)' <=> Delivered(i, u) \/ (u = t /\ i = pos)
    BY <1>2, <1>3 DEF Delivered
  <1> QED BY <1>2, <1>4

\* The steps that leave the source and the journals alone.
Inward ==
    \/ StartPass \/ SkipDone \/ SkipKind \/ Broadcast \/ EndBroadcast \/ EndOfSource
    \/ TruncateOffset \/ WriteOffset \/ NoDirectory \/ LeaveOffset \/ Crash
    \/ \E t \in Targets : Refused(t)

\* The relay's inward steps leave the journals alone, ...
LEMMA InwardLeaves ==
    ASSUME Inward
    PROVE  source' = source /\ target' = target
  BY DEF Inward, StartPass, SkipDone, SkipKind, Broadcast, EndBroadcast, EndOfSource,
         TruncateOffset, WriteOffset, NoDirectory, LeaveOffset, Crash, Refused

\* ... and may count a failure.
LEMMA InwardFails ==
    ASSUME RelayTypeOK, Inward
    PROVE  /\ failures' \in [AllFailures -> Nat]
           /\ failures'["crash"] >= failures["crash"]
           /\ failures'["unsaved"] >= failures["unsaved"]
  <1>0. failures \in [AllFailures -> Nat] /\ failures["crash"] \in Nat /\ failures["unsaved"] \in Nat
    BY DEF RelayTypeOK, AllFailures
  <1>1. CASE failures' = failures
    BY <1>0, <1>1
  <1>2. ASSUME NEW f, Fail(f)
        PROVE  /\ failures' \in [AllFailures -> Nat]
               /\ failures'["crash"] >= failures["crash"]
               /\ failures'["unsaved"] >= failures["unsaved"]
    BY <1>2, FailureCounted
  <1>3. failures' = failures \/ \E f : Fail(f)
    BY DEF Inward, StartPass, SkipDone, SkipKind, Broadcast, EndBroadcast, EndOfSource,
           TruncateOffset, WriteOffset, NoDirectory, LeaveOffset, Crash, Refused
  <1> QED BY <1>1, <1>2, <1>3

\* The steps: inward ones, a delivery to a target, an event at the source.
LEMMA Cases ==
    ASSUME [RelayNext]_relayVars
    PROVE  \/ Inward \/ UNCHANGED relayVars
           \/ \E t \in Targets : Deliver(t)
           \/ \E k \in Kinds : ServerRecords(k)
  BY DEF RelayNext, RelayStep, Inward

-----------------------------------------------------------------------------
(* Types and the cursor *)

\* Every step keeps the types, ...
LEMMA TypeStep ==
    ASSUME RelayTypeOK, CursorInv, [RelayNext]_relayVars
    PROVE  RelayTypeOK'
  <1> USE DEF RelayTypeOK
  <1>1. CASE Inward
    <2>1. source' = source /\ target' = target /\ failures' \in [AllFailures -> Nat]
      BY <1>1, InwardLeaves, InwardFails
    <2>2. /\ stage' \in {"idle", "reading", "broadcasting", "saving", "writing"}
          /\ todo' \subseteq Targets
      BY <1>1 DEF Inward, StartPass, SkipDone, SkipKind, Broadcast, EndBroadcast, EndOfSource,
             TruncateOffset, WriteOffset, NoDirectory, LeaveOffset, Crash, Refused
    <2>3. pos' \in Nat
      BY <1>1 DEF Inward, StartPass, SkipDone, SkipKind, Broadcast, EndBroadcast, EndOfSource,
             TruncateOffset, WriteOffset, NoDirectory, LeaveOffset, Crash, Refused
    <2>4. startIndex' \in Nat
      BY <1>1 DEF Inward, StartPass, SkipDone, SkipKind, Broadcast, EndBroadcast, EndOfSource, Index,
             TruncateOffset, WriteOffset, NoDirectory, LeaveOffset, Crash, Refused, NoOffset
    <2>5. offset' \in Nat \cup {NoOffset} /\ offset' <= Len(source)
      <3>1. offset' \in {offset, NoOffset, startIndex}
        BY <1>1 DEF Inward, StartPass, SkipDone, SkipKind, Broadcast, EndBroadcast, EndOfSource,
             TruncateOffset, WriteOffset, NoDirectory, LeaveOffset, Crash, Refused
      <3>2. Len(source) \in Nat
        OBVIOUS
      <3> QED BY <3>1, <3>2 DEF NoOffset, CursorInv
    <2>6. refused' \subseteq Nat \X Targets
      BY <1>1 DEF Inward, StartPass, SkipDone, SkipKind, Broadcast, EndBroadcast, EndOfSource,
             TruncateOffset, WriteOffset, NoDirectory, LeaveOffset, Crash, Refused, Index
    <2> QED BY <2>1, <2>2, <2>3, <2>4, <2>5, <2>6
  <1>2. ASSUME NEW t \in Targets, Deliver(t) PROVE RelayTypeOK'
    <2>1. target' \in [Targets -> Seq(Nat)]
      BY <1>2, Delivers
    <2> QED BY <1>2, <2>1 DEF Deliver
  <1>3. ASSUME NEW k \in Kinds, ServerRecords(k) PROVE RelayTypeOK'
    <2>1. source' \in Seq(Kinds) /\ Len(source') = Len(source) + 1 /\ Len(source) \in Nat
      BY <1>3, ServerForwards
    <2>2. offset' = offset /\ offset <= Len(source')
      BY <1>3, <2>1 DEF ServerRecords, NoOffset
    <2> QED BY <1>3, <2>1, <2>2 DEF ServerRecords
  <1>4. CASE UNCHANGED relayVars
    BY <1>4 DEF relayVars
  <1> QED BY <1>1, <1>2, <1>3, <1>4, Cases

\* ... and where the pass stands in its events;
LEMMA CursorStep ==
    ASSUME RelayTypeOK, CursorInv, [RelayNext]_relayVars
    PROVE  CursorInv'
  <1> USE DEF CursorInv
  <1>0. Len(source) \in Nat /\ startIndex \in Nat /\ pos \in Nat
    BY DEF RelayTypeOK
  <1>1. CASE Inward
    <2>1. source' = source
      BY <1>1, InwardLeaves
    <2>2. CASE StartPass
      BY <1>0, <2>1, <2>2 DEF StartPass, RelayTypeOK, NoOffset
    <2>3. CASE SkipDone \/ SkipKind \/ Broadcast \/ EndBroadcast
      BY <1>0, <2>1, <2>3 DEF SkipDone, SkipKind, Broadcast, EndBroadcast, More, Index
    <2>4. CASE EndOfSource \/ TruncateOffset \/ WriteOffset \/ NoDirectory \/ LeaveOffset \/ Crash
      BY <1>0, <2>1, <2>4 DEF EndOfSource, TruncateOffset, WriteOffset, NoDirectory, LeaveOffset, Crash
    <2>5. ASSUME NEW t \in Targets, Refused(t) PROVE CursorInv'
      BY <2>1, <2>5 DEF Refused
    <2> QED BY <1>1, <2>2, <2>3, <2>4, <2>5 DEF Inward
  <1>2. ASSUME NEW t \in Targets, Deliver(t) PROVE CursorInv'
    BY <1>2 DEF Deliver
  <1>3. ASSUME NEW k \in Kinds, ServerRecords(k) PROVE CursorInv'
    BY <1>0, <1>3, ServerForwards DEF ServerRecords
  <1>4. CASE UNCHANGED relayVars
    BY <1>4 DEF relayVars
  <1> QED BY <1>1, <1>2, <1>3, <1>4, Cases

-----------------------------------------------------------------------------
(* What was offered *)

\* Nothing that was delivered or refused is taken back, and no event to forward
\* appears below what the cursor has passed.
LEMMA OfferedLasts ==
    ASSUME RelayTypeOK, [RelayNext]_relayVars, NEW u \in Targets, NEW n \in Int, n <= Len(source), Offered(n, u)
    PROVE  Offered(n, u)'
  <1> USE DEF Offered
  <1>1. CASE Inward
    <2>1. source' = source /\ target' = target
      BY <1>1, InwardLeaves
    <2>2. refused \subseteq refused'
      BY <1>1 DEF Inward, StartPass, SkipDone, SkipKind, Broadcast, EndBroadcast, EndOfSource,
             TruncateOffset, WriteOffset, NoDirectory, LeaveOffset, Crash, Refused
    <2> QED BY <2>1, <2>2 DEF Forwarded, Delivered
  <1>2. ASSUME NEW t \in Targets, Deliver(t) PROVE Offered(n, u)'
    <2>1. \A i : Delivered(i, u) => Delivered(i, u)'
      BY <1>2, Delivers
    <2>2. source' = source /\ refused' = refused
      BY <1>2 DEF Deliver
    <2> QED BY <2>1, <2>2 DEF Forwarded
  <1>3. ASSUME NEW k \in Kinds, ServerRecords(k) PROVE Offered(n, u)'
    <2>1. target' = target /\ refused' = refused
      BY <1>3 DEF ServerRecords
    <2>2. Len(source) \in Nat
      BY DEF RelayTypeOK
    <2>3. ASSUME NEW i \in Forwarded', i < n PROVE i \in Forwarded
      <3>1. i \in Nat /\ (i < Len(source) => i \in Forwarded)
        BY <1>3, ServerForwards
      <3> QED BY <2>2, <2>3, <3>1
    <2> QED BY <2>1, <2>3 DEF Delivered
  <1>4. CASE UNCHANGED relayVars
    BY <1>4 DEF relayVars, Forwarded, Delivered
  <1> QED BY <1>1, <1>2, <1>3, <1>4, Cases

\* When a target was offered the event at pos, the cursor may pass it.
LEMMA OneMoreOffered ==
    ASSUME RelayTypeOK, NEW u \in Targets, Offered(pos, u),
           pos \in Forwarded => Delivered(pos, u) \/ <<pos, u>> \in refused
    PROVE  Offered(pos + 1, u)
  <1> SUFFICES ASSUME NEW i \in Forwarded, i < pos + 1
               PROVE  Delivered(i, u) \/ <<i, u>> \in refused
    BY DEF Offered
  <1>1. i \in Int /\ pos \in Int
    BY DEF Forwarded, RelayTypeOK
  <1>2. CASE i < pos
    BY <1>2 DEF Offered
  <1>3. CASE i = pos
    BY <1>3
  <1> QED BY <1>1, <1>2, <1>3

\* whatever the offset vouches for was offered to every target;
LEMMA OfferedStep ==
    ASSUME RelayTypeOK, CursorInv, OfferedInv, OffsetMeansDelivered, [RelayNext]_relayVars
    PROVE  OfferedInv'
  <1>0. /\ Len(source) \in Nat /\ startIndex \in Nat /\ pos \in Nat /\ startIndex <= Len(source)
        /\ stage = "idle" \/ \A u \in Targets : Offered(startIndex, u)
    BY DEF RelayTypeOK, CursorInv, OfferedInv
  <1>1. ASSUME startIndex' = startIndex, stage # "idle", NEW u \in Targets
        PROVE  Offered(startIndex, u)'
    <2>1. Offered(startIndex, u)
      BY <1>0, <1>1
    <2>2. \A i \in Forwarded' : i < startIndex => (Delivered(i, u) \/ <<i, u>> \in refused)'
      BY <1>0, <2>1, OfferedLasts DEF Offered
    <2> QED BY <1>1, <2>2 DEF Offered
  <1>2. ASSUME stage # "idle", startIndex' = pos + 1, startIndex = pos, UNCHANGED <<source, target, refused>>,
               NEW u \in Targets, pos \in Forwarded => Delivered(pos, u) \/ <<pos, u>> \in refused
        PROVE  Offered(startIndex, u)'
    <2>1. Offered(pos + 1, u)
      BY <1>0, <1>2, OneMoreOffered
    <2> QED BY <1>2, <2>1 DEF Offered, Forwarded, Delivered
  <1>3. CASE StartPass
    <2>1. ASSUME NEW u \in Targets PROVE Offered(startIndex, u)'
      <3>1. startIndex' = 0 \/ startIndex' = offset
        BY <1>3 DEF StartPass
      <3>2. \A i \in Forwarded : ~(i < 0)
        BY <1>0 DEF Forwarded
      <3>3. \A i \in Forwarded : i < startIndex' => Delivered(i, u) \/ <<i, u>> \in refused
        BY <3>1, <3>2 DEF OffsetMeansDelivered
      <3> QED BY <1>3, <3>3 DEF StartPass, Offered, Forwarded, Delivered
    <2> QED BY <1>3, <2>1 DEF StartPass, OfferedInv
  <1>4. CASE SkipDone \/ EndOfSource \/ TruncateOffset \/ NoDirectory
    <2>1. startIndex' = startIndex /\ stage # "idle" /\ stage' # "broadcasting"
      BY <1>4 DEF SkipDone, EndOfSource, TruncateOffset, NoDirectory, More
    <2> QED BY <1>1, <2>1 DEF OfferedInv
  <1>5. CASE WriteOffset \/ LeaveOffset \/ Crash
    <2>1. stage' = "idle"
      BY <1>5 DEF WriteOffset, LeaveOffset, Crash
    <2> QED BY <2>1 DEF OfferedInv
  <1>6. CASE SkipKind
    <2>1. /\ stage = "reading" /\ stage' = "reading" /\ startIndex' = pos + 1 /\ startIndex = pos
          /\ UNCHANGED <<source, target, refused>>
      BY <1>0, <1>6 DEF SkipKind, More, Index, CursorInv
    <2>2. pos \notin Forwarded
      BY <1>6 DEF SkipKind, Forwarded
    <2>3. \A u \in Targets : Offered(startIndex, u)'
      BY <1>2, <2>1, <2>2
    <2> QED BY <2>1, <2>3 DEF OfferedInv
  <1>7. CASE Broadcast
    <2>1. startIndex' = startIndex /\ stage # "idle" /\ todo' = Targets
      BY <1>7 DEF Broadcast, More
    <2> QED BY <1>1, <2>1 DEF OfferedInv
  <1>8. CASE EndBroadcast
    <2>1. /\ stage = "broadcasting" /\ stage' = "reading" /\ startIndex' = pos + 1 /\ startIndex = pos
          /\ UNCHANGED <<source, target, refused>> /\ todo = {}
      BY <1>8 DEF EndBroadcast, Index, CursorInv
    <2>2. \A u \in Targets : Delivered(pos, u) \/ <<pos, u>> \in refused
      BY <2>1 DEF OfferedInv
    <2>3. \A u \in Targets : Offered(startIndex, u)'
      BY <1>2, <2>1, <2>2
    <2> QED BY <2>1, <2>3 DEF OfferedInv
  <1>9. ASSUME NEW t \in Targets, Refused(t) PROVE OfferedInv'
    <2>1. /\ startIndex' = startIndex /\ stage = "broadcasting" /\ pos' = pos /\ target' = target
          /\ todo' = todo \ {t} /\ refused' = refused \cup {<<pos, t>>}
      BY <1>9 DEF Refused, Index
    <2>2. \A u \in Targets \ todo' : (Delivered(pos, u) \/ <<pos, u>> \in refused)'
      BY <2>1 DEF OfferedInv, Delivered
    <2> QED BY <1>1, <2>1, <2>2 DEF OfferedInv
  <1>10. ASSUME NEW t \in Targets, Deliver(t) PROVE OfferedInv'
    <2>1. /\ startIndex' = startIndex /\ stage = "broadcasting" /\ pos' = pos /\ refused' = refused
          /\ todo' = todo \ {t}
      BY <1>10 DEF Deliver
    <2>2. \A u \in Targets : \A i : Delivered(i, u)' <=> Delivered(i, u) \/ (u = t /\ i = pos)
      BY <1>10, Delivers
    <2>3. \A u \in Targets \ todo' : (Delivered(pos, u) \/ <<pos, u>> \in refused)'
      BY <2>1, <2>2 DEF OfferedInv, Delivered
    <2> QED BY <1>1, <2>1, <2>3 DEF OfferedInv
  <1>11. ASSUME NEW k \in Kinds, ServerRecords(k) PROVE OfferedInv'
    <2>1. UNCHANGED <<target, stage, pos, startIndex, todo, refused>>
      BY <1>11 DEF ServerRecords
    <2> QED BY <1>1, <2>1 DEF OfferedInv, Delivered
  <1>12. CASE UNCHANGED relayVars
    BY <1>12 DEF relayVars, OfferedInv, Offered, Forwarded, Delivered
  <1> QED BY <1>3, <1>4, <1>5, <1>6, <1>7, <1>8, <1>9, <1>10, <1>11, <1>12, Cases DEF Inward

\* The offset file holds nothing, what it held, or start_index.
LEMMA OffsetStep ==
    ASSUME RelayTypeOK, CursorInv, OfferedInv, OffsetMeansDelivered, [RelayNext]_relayVars
    PROVE  OffsetMeansDelivered'
  <1>0. Len(source) \in Nat /\ startIndex \in Nat /\ startIndex <= Len(source)
        /\ offset \in Int /\ offset <= Len(source)
    BY DEF RelayTypeOK, CursorInv, NoOffset
  <1>1. ASSUME NEW u \in Targets PROVE Offered(offset, u)'
    <2>1. Offered(offset, u)
      BY DEF OffsetMeansDelivered, Offered
    <2>2. CASE offset' = offset
      <3>1. \A i \in Forwarded' : i < offset => (Delivered(i, u) \/ <<i, u>> \in refused)'
        BY <1>0, <2>1, OfferedLasts DEF Offered
      <3> QED BY <2>2, <3>1 DEF Offered
    <2>3. CASE offset' = NoOffset
      <3>1. \A i \in Forwarded' : ~(i < -1)
        BY DEF Forwarded
      <3> QED BY <2>3, <3>1 DEF Offered, NoOffset
    <2>4. CASE WriteOffset
      <3>1. Offered(startIndex, u)
        BY <2>4 DEF OfferedInv, WriteOffset
      <3> QED BY <2>4, <3>1 DEF Offered, WriteOffset, Forwarded, Delivered
    <2>5. offset' = offset \/ offset' = NoOffset \/ WriteOffset
      BY DEF RelayNext, RelayStep, ServerRecords, StartPass, SkipDone, SkipKind, Broadcast, Deliver, EndBroadcast,
             EndOfSource, TruncateOffset, NoDirectory, LeaveOffset, Crash, Refused, relayVars
    <2> QED BY <2>2, <2>3, <2>4, <2>5
  <1> QED BY <1>1 DEF OffsetMeansDelivered, Offered

-----------------------------------------------------------------------------
(* What the journals hold *)

\* An entry of a journal that got one more is an older one or the new one.
LEMMA EntryOfDelivery ==
    ASSUME RelayTypeOK, NEW t \in Targets, Deliver(t), NEW n \in 1..Len(target'[t])
    PROVE  /\ Len(target[t]) \in Nat /\ target[t] \in Seq(Nat)
           /\ Len(target'[t]) = Len(target[t]) + 1
           /\ \/ n \in 1..Len(target[t]) /\ target'[t][n] = target[t][n]
              \/ n = Len(target[t]) + 1 /\ target'[t][n] = pos
  <1>1. /\ target[t] \in Seq(Nat) /\ pos \in Nat
        /\ target'[t] = Append(target[t], pos)
    BY Delivers DEF RelayTypeOK
  <1>2. CASE n \in 1..Len(target[t])
    BY <1>1, <1>2
  <1>3. CASE n = Len(target[t]) + 1
    BY <1>1, <1>3
  <1> QED BY <1>1, <1>2, <1>3

\* a target holds only what the source has;
LEMMA WithinSourceStep ==
    ASSUME RelayTypeOK, CursorInv, WithinSource, [RelayNext]_relayVars
    PROVE  WithinSource'
  <1> USE DEF WithinSource
  <1>1. CASE Inward
    BY <1>1, InwardLeaves
  <1>2. ASSUME NEW t \in Targets, Deliver(t) PROVE WithinSource'
    <2>1. source' = source /\ pos < Len(source)
      BY <1>2 DEF Deliver, CursorInv
    <2>2. ASSUME NEW n \in 1..Len(target'[t]) PROVE target'[t][n] < Len(source)
      BY <1>2, <2>1, EntryOfDelivery
    <2>3. \A u \in Targets : u # t => target'[u] = target[u]
      BY <1>2, Delivers
    <2> QED BY <2>1, <2>2, <2>3
  <1>3. ASSUME NEW k \in Kinds, ServerRecords(k) PROVE WithinSource'
    <2>1. target' = target /\ Len(source') = Len(source) + 1 /\ Len(source) \in Nat
      BY <1>3, ServerForwards DEF ServerRecords, RelayTypeOK
    <2>2. ASSUME NEW u \in Targets, NEW n \in 1..Len(target[u])
          PROVE  target[u][n] < Len(source) + 1
      <3>1. target[u] \in Seq(Nat)
        BY DEF RelayTypeOK
      <3>2. target[u][n] \in Nat /\ target[u][n] < Len(source)
        BY <3>1
      <3> QED BY <2>1, <3>2
    <2> QED BY <2>1, <2>2
  <1>4. CASE UNCHANGED relayVars
    BY <1>4 DEF relayVars
  <1> QED BY <1>1, <1>2, <1>3, <1>4, Cases

\* An event is appended to a journal that has got, or refused, all before it.
LEMMA NoGapsStep ==
    ASSUME RelayTypeOK, CursorInv, OfferedInv, WithinSource, NoGaps, [RelayNext]_relayVars
    PROVE  NoGaps'
  <1> USE DEF NoGaps
  <1>1. CASE Inward
    <2>1. source' = source /\ target' = target
      BY <1>1, InwardLeaves
    <2>2. refused \subseteq refused'
      BY <1>1 DEF Inward, StartPass, SkipDone, SkipKind, Broadcast, EndBroadcast, EndOfSource,
             TruncateOffset, WriteOffset, NoDirectory, LeaveOffset, Crash, Refused
    <2> QED BY <2>1, <2>2 DEF Forwarded
  <1>2. ASSUME NEW t \in Targets, Deliver(t) PROVE NoGaps'
    <2>1. /\ source' = source /\ refused' = refused /\ Forwarded' = Forwarded
          /\ stage = "broadcasting"
      BY <1>2 DEF Deliver, Forwarded
    <2>2. \A u \in Targets : u # t => target'[u] = target[u]
      BY <1>2, Delivers
    <2>3. ASSUME NEW n \in 1..Len(target'[t]), NEW i \in Forwarded, i < target'[t][n]
          PROVE  \/ \E m \in 1..n - 1 : target'[t][m] = i
                 \/ <<i, t>> \in refused
      <3>1. /\ Len(target[t]) \in Nat
            /\ target'[t] = Append(target[t], pos)
            /\ \A m \in 1..Len(target[t]) : target'[t][m] = target[t][m]
        <4>1. target[t] \in Seq(Nat) /\ target'[t] = Append(target[t], pos)
          BY <1>2, Delivers DEF RelayTypeOK
        <4> QED BY <4>1
      <3>2. CASE n \in 1..Len(target[t]) /\ target'[t][n] = target[t][n]
        <4>1. \A m \in 1..n - 1 : m \in 1..Len(target[t])
          BY <3>1, <3>2
        <4>2. i < target[t][n]
          BY <2>3, <3>2
        <4>3. \/ \E m \in 1..n - 1 : target[t][m] = i
              \/ <<i, t>> \in refused
          BY <3>2, <4>2
        <4> QED BY <3>1, <4>1, <4>3
      <3>3. CASE n = Len(target[t]) + 1 /\ target'[t][n] = pos
        <4>1. Delivered(i, t) \/ <<i, t>> \in refused
          <5>1. startIndex = pos /\ Offered(startIndex, t)
            BY <2>1 DEF CursorInv, OfferedInv
          <5> QED BY <2>3, <3>3, <5>1 DEF Offered
        <4>2. ASSUME Delivered(i, t) PROVE \E m \in 1..Len(target[t]) : target[t][m] = i
          BY <4>2 DEF Delivered, Range, RelayTypeOK
        <4>3. 1..n - 1 = 1..Len(target[t])
          BY <3>1, <3>3
        <4> QED BY <3>1, <4>1, <4>2, <4>3
      <3> QED BY <1>2, <3>2, <3>3, EntryOfDelivery
    <2> QED BY <2>1, <2>2, <2>3
  <1>3. ASSUME NEW k \in Kinds, ServerRecords(k) PROVE NoGaps'
    <2>1. target' = target /\ refused' = refused /\ Len(source) \in Nat
      BY <1>3 DEF ServerRecords, RelayTypeOK
    <2>2. ASSUME NEW u \in Targets, NEW n \in 1..Len(target[u]), NEW i \in Forwarded',
                 i < target[u][n]
          PROVE  i \in Forwarded
      <3>1. target[u] \in Seq(Nat)
        BY DEF RelayTypeOK
      <3>2. target[u][n] \in Nat /\ target[u][n] < Len(source)
        BY <3>1 DEF WithinSource
      <3>3. i \in Nat /\ (i < Len(source) => i \in Forwarded)
        BY <1>3, ServerForwards
      <3> QED BY <2>1, <2>2, <3>2, <3>3
    <2> QED BY <2>1, <2>2
  <1>4. CASE UNCHANGED relayVars
    BY <1>4 DEF relayVars, Forwarded
  <1> QED BY <1>1, <1>2, <1>3, <1>4, Cases

-----------------------------------------------------------------------------
(* Where journals start over *)

\* A target's restarts are the places where its journal goes back.
LEMMA RestartsCount ==
    ASSUME RelayTypeOK, NEW t \in Targets
    PROVE  /\ Restarts(t) = Descents(target[t])
           /\ Cardinality(Restarts(t)) \in Nat
           /\ failures["crash"] \in Nat /\ failures["unsaved"] \in Nat
  <1>1. target[t] \in Seq(Nat)
    BY DEF RelayTypeOK
  <1>2. Restarts(t) = Descents(target[t])
    BY DEF Restarts, Descents
  <1>3. failures["crash"] \in Nat /\ failures["unsaved"] \in Nat
    BY DEF RelayTypeOK, AllFailures
  <1> QED BY <1>1, <1>2, <1>3, DescentsFinite

\* Below the cursor nothing is sent again, unless the pass fails to save it.
LEMMA CursorAdvances ==
    ASSUME RelayTypeOK, CursorInv, Inward, ~LeaveOffset, ~Crash, NEW u \in Targets
    PROVE  Cursor(u) \in Int /\ Cursor(u)' \in Int /\ Cursor(u) <= Cursor(u)'
  <1> USE DEF Cursor
  <1>0. startIndex \in Nat /\ pos \in Nat /\ offset \in Nat \cup {-1}
    BY DEF RelayTypeOK, NoOffset
  <1>1. CASE StartPass
    BY <1>0, <1>1 DEF StartPass, NoOffset
  <1>2. CASE SkipDone \/ SkipKind \/ Broadcast \/ NoDirectory
    BY <1>0, <1>2 DEF SkipDone, SkipKind, Broadcast, NoDirectory, More, Index
  <1>3. CASE EndBroadcast
    BY <1>0, <1>3 DEF EndBroadcast, Index
  <1>4. CASE EndOfSource \/ TruncateOffset \/ WriteOffset
    BY <1>0, <1>4 DEF EndOfSource, TruncateOffset, WriteOffset
  <1>5. ASSUME NEW t \in Targets, Refused(t)
        PROVE  Cursor(u) \in Int /\ Cursor(u)' \in Int /\ Cursor(u) <= Cursor(u)'
    BY <1>0, <1>5 DEF Refused, CursorInv
  <1> QED BY <1>1, <1>2, <1>3, <1>4, <1>5 DEF Inward

\* every restart is paid for by a pass that did not save its offset.
LEMMA RestartStep ==
    ASSUME RelayTypeOK, CursorInv, RestartInv, RestartsAccountedFor, [RelayNext]_relayVars
    PROVE  RestartInv' /\ RestartsAccountedFor'
  <1> DEFINE F == failures["crash"] + failures["unsaved"]
             Ahead(u) == \A n \in 1..Len(target[u]) : n = Len(target[u]) => target[u][n] < Cursor(u)
             Fine(u) == /\ Ahead(u) \/ Cardinality(Restarts(u)) < F
                        /\ Cardinality(Restarts(u)) <= F
  <1>0. \A u \in Targets : Fine(u)
    BY DEF RestartInv, RestartsAccountedFor
  <1> SUFFICES ASSUME NEW u \in Targets PROVE Fine(u)'
    BY DEF RestartInv, RestartsAccountedFor
  <1>1. /\ Cardinality(Restarts(u)) \in Nat /\ failures["crash"] \in Nat /\ failures["unsaved"] \in Nat
        /\ target[u] \in Seq(Nat)
    BY RestartsCount DEF RelayTypeOK
  <1>2. CASE Inward
    <2>1. target' = target /\ Restarts(u)' = Restarts(u)
      BY <1>2, InwardLeaves DEF Restarts
    <2>2. /\ failures'["crash"] \in Nat /\ failures'["unsaved"] \in Nat
          /\ failures'["crash"] >= failures["crash"]
          /\ failures'["unsaved"] >= failures["unsaved"]
      BY <1>2, InwardFails DEF AllFailures
    <2>3. CASE LeaveOffset \/ Crash
      <3>1. \/ failures'["crash"] = failures["crash"] + 1
            \/ failures'["unsaved"] = failures["unsaved"] + 1
        BY <2>3, FailureCounted DEF LeaveOffset, Crash
      <3>2. Cardinality(Restarts(u)) < F'
        BY <1>0, <1>1, <2>2, <3>1
      <3> QED BY <1>1, <2>1, <2>2, <3>2
    <2>4. CASE ~LeaveOffset /\ ~Crash
      <3>1. Cursor(u) \in Int /\ Cursor(u)' \in Int /\ Cursor(u) <= Cursor(u)'
        BY <1>2, <2>4, CursorAdvances
      <3>2. Cardinality(Restarts(u)) <= F' /\ (Cardinality(Restarts(u)) < F => Cardinality(Restarts(u)) < F')
        BY <1>0, <1>1, <2>2
      <3>3. Ahead(u) => Ahead(u)'
        BY <1>1, <2>1, <3>1
      <3> QED BY <1>0, <2>1, <3>2, <3>3
    <2> QED BY <2>3, <2>4
  <1>3. ASSUME NEW t \in Targets, Deliver(t) PROVE Fine(u)'
    <2>1. /\ stage = "broadcasting" /\ startIndex = pos /\ pos \in Nat /\ t \in todo
          /\ UNCHANGED <<failures, stage, pos, startIndex, offset>> /\ todo' = todo \ {t}
      BY <1>3 DEF Deliver, CursorInv, RelayTypeOK
    <2>2. CASE u # t
      <3>1. target'[u] = target[u]
        BY <1>3, <2>2, Delivers
      <3>2. Cursor(u)' = Cursor(u)
        BY <2>1, <2>2 DEF Cursor
      <3>3. Restarts(u)' = Restarts(u)
        BY <3>1 DEF Restarts
      <3> QED BY <1>0, <2>1, <3>1, <3>2, <3>3
    <2>3. CASE u = t
      <3>1. target'[u] = Append(target[u], pos)
        BY <1>3, <2>3, Delivers
      <3>2. Cursor(u) = pos /\ Cursor(u)' = pos + 1
        BY <2>1, <2>3 DEF Cursor
      <3>3. Ahead(u)'
        BY <1>1, <2>1, <3>1, <3>2
      <3>4. /\ Restarts(u) = Descents(target[u])
            /\ Restarts(u)' = Descents(Append(target[u], pos))
        BY <3>1 DEF Restarts, Descents
      <3>5. /\ Cardinality(Descents(Append(target[u], pos))) <= Cardinality(Descents(target[u])) + 1
            /\ Ahead(u) => Cardinality(Descents(Append(target[u], pos))) <= Cardinality(Descents(target[u]))
        BY <1>1, <2>1, <3>2, DescentsOfAppend
      <3>6. Cardinality(Descents(Append(target[u], pos))) \in Nat
        <4>1. Append(target[u], pos) \in Seq(Nat)
          BY <1>1, <2>1
        <4> QED BY <4>1, DescentsFinite
      <3>7. F' = F /\ F \in Nat
        BY <1>1, <2>1
      <3>8. Cardinality(Restarts(u))' <= F'
        <4> DEFINE d == Cardinality(Descents(target[u]))
                   e == Cardinality(Descents(Append(target[u], pos)))
        <4>1. d \in Nat /\ e \in Nat /\ d <= F /\ e <= d + 1
          BY <1>0, <1>1, <3>4, <3>5, <3>6
        <4>2. d < F \/ e <= d
          BY <1>0, <3>4, <3>5
        <4>3. Cardinality(Restarts(u))' = e
          BY <3>4
        <4> HIDE DEF d, e, F
        <4> QED BY <3>7, <4>1, <4>2, <4>3
      <3> QED BY <3>3, <3>8
    <2> QED BY <2>2, <2>3
  <1>4. ASSUME NEW k \in Kinds, ServerRecords(k) PROVE Fine(u)'
    BY <1>0, <1>4 DEF ServerRecords, Restarts, Cursor
  <1>5. CASE UNCHANGED relayVars
    BY <1>0, <1>5 DEF relayVars, Restarts, Cursor
  <1> QED BY <1>2, <1>3, <1>4, <1>5, Cases

-----------------------------------------------------------------------------
(* The results *)

\* A relay that never ran has the invariant, ...
LEMMA InvariantInit == RelayInit => RelayInv
  <1> SUFFICES ASSUME RelayInit PROVE RelayInv
    OBVIOUS
  <1> USE DEF RelayInit
  <1>1. RelayTypeOK
    <2>1. source \in Seq(Kinds) /\ Len(source) = 0
      OBVIOUS
    <2>2. target \in [Targets -> Seq(Nat)]
      OBVIOUS
    <2> QED BY <2>1, <2>2 DEF RelayTypeOK, NoOffset
  <1>2. CursorInv /\ OfferedInv
    BY DEF CursorInv, OfferedInv
  <1>3. \A t \in Targets : target[t] = <<>> /\ Len(target[t]) = 0 /\ 1..Len(target[t]) = {}
    OBVIOUS
  <1>4. WithinSource /\ RestartInv /\ NoGaps
    BY <1>3 DEF WithinSource, RestartInv, NoGaps
  <1>5. OffsetMeansDelivered
    <2>1. Forwarded = {}
      BY DEF Forwarded
    <2> QED BY <2>1 DEF OffsetMeansDelivered
  <1>6. RestartsAccountedFor
    <2>1. \A t \in Targets : Restarts(t) = {}
      BY <1>3 DEF Restarts
    <2>2. Cardinality({}) = 0
      BY FS_EmptySet
    <2>3. failures["crash"] = 0 /\ failures["unsaved"] = 0
      BY DEF AllFailures
    <2> QED BY <2>1, <2>2, <2>3, SMTT(30) DEF RestartsAccountedFor
  <1> QED BY <1>1, <1>2, <1>4, <1>5, <1>6 DEF RelayInv, NoneIsPassedOver

\* ... and every step keeps it.
LEMMA InvariantStep == RelayInv /\ [RelayNext]_relayVars => RelayInv'
  <1> SUFFICES ASSUME RelayInv, [RelayNext]_relayVars PROVE RelayInv'
    OBVIOUS
  <1> USE DEF RelayInv, NoneIsPassedOver
  <1>1. RelayTypeOK' /\ CursorInv'
    BY TypeStep, CursorStep
  <1>2. OfferedInv' /\ OffsetMeansDelivered'
    BY OfferedStep, OffsetStep
  <1>3. WithinSource' /\ NoGaps'
    BY WithinSourceStep, NoGapsStep
  <1>4. RestartInv' /\ RestartsAccountedFor'
    BY RestartStep
  <1> QED BY <1>1, <1>2, <1>3, <1>4

\* The invariant of the relay: where its cursor stands, what the targets were
\* offered below it, and which failures its repetitions are charged to.
THEOREM Inductive == RelaySpec => []RelayInv
  <1>1. RelayInit => RelayInv
    BY InvariantInit
  <1>2. RelayInv /\ [RelayNext]_relayVars => RelayInv'
    BY InvariantStep
  <1> QED BY <1>1, <1>2, PTL DEF RelaySpec

\* Wherever passes were cut short, neither the offset file nor a node's journal is
\* ahead of an event that the node has neither got nor refused.
THEOREM NothingPassedOver == RelaySpec => []NoneIsPassedOver
  <1>1. RelayInv => NoneIsPassedOver
    BY DEF RelayInv
  <1> QED BY <1>1, Inductive, PTL

\* A journal starts over no more often than passes ended without saving their offset.
THEOREM RestartsBounded == RelaySpec => []RestartsAccountedFor
  <1>1. RelayInv => RestartsAccountedFor
    BY DEF RelayInv
  <1> QED BY <1>1, Inductive, PTL
=============================================================================
