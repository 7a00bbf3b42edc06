------------------------------ MODULE RoyQueue ------------------------------
(***************************************************************************)
(* The event queue of backend/src/roy.c: a ring of KOLIBRI_ROY_MAX_OCHERED  *)
(* entries between the node's thread, which puts events, and the program,   *)
(* which takes them.  Both work under ochered_zamek, so a call is a step.  *)
(***************************************************************************)
EXTENDS Integers, Sequences

CONSTANTS
    Events,
    MaxOchered,     \* KOLIBRI_ROY_MAX_OCHERED
    Nothing         \* no event

ASSUME QueueAssumption ==
    /\ MaxOchered \in Nat \ {0}
    /\ Nothing \notin Events

VARIABLES
    ochered,        \* the entries; an entry never written holds Nothing
    golova,         \* where the next event is taken
    hvost,          \* where the next event is put
    schetchik,      \* events held
    given           \* the event poluchit_sobytie returned last

queueVars == <<ochered, golova, hvost, schetchik, given>>

Places == 0..MaxOchered - 1
Following(i) == (i + 1) % MaxOchered

QueueInit ==
    /\ ochered = [i \in Places |-> Nothing]
    /\ golova = 0
    /\ hvost = 0
    /\ schetchik = 0
    /\ given = Nothing

\* Mutant of PutEvent: a full queue forgets to move its head.
MutPutEventStuck(e) ==
    /\ schetchik' = IF schetchik = MaxOchered THEN schetchik ELSE schetchik + 1
    /\ ochered' = [ochered EXCEPT ![hvost] = e]
    /\ hvost' = Following(hvost)
    /\ UNCHANGED <<golova, given>>

\* kolibri_roy_postavit_sobytie: a full queue loses its oldest event.
PutEvent(e) ==
    /\ IF schetchik = MaxOchered
       THEN golova' = Following(golova) /\ schetchik' = schetchik
       ELSE golova' = golova /\ schetchik' = schetchik + 1
    /\ ochered' = [ochered EXCEPT ![hvost] = e]
    /\ hvost' = Following(hvost)
    /\ UNCHANGED given

\* kolibri_roy_poluchit_sobytie; an empty queue is left as it is.
TakeEvent ==
    /\ schetchik # 0
    /\ given' = ochered[golova]
    /\ golova' = Following(golova)
    /\ schetchik' = schetchik - 1
    /\ UNCHANGED <<ochered, hvost>>

QueueNext == TakeEvent \/ \E e \in Events : PutEvent(e)

QueueSpec == QueueInit /\ [][QueueNext]_queueVars

-----------------------------------------------------------------------------
\* The three counters agree, and every entry the reader can reach was written.
QueueOK ==
    /\ ochered \in [Places -> Events \cup {Nothing}]
    /\ golova \in Places
    /\ hvost \in Places
    /\ schetchik \in 0..MaxOchered
    /\ given \in Events \cup {Nothing}
    /\ hvost = (golova + schetchik) % MaxOchered
    /\ \A k \in 0..schetchik - 1 : ochered[(golova + k) % MaxOchered] \in Events

\* The events held, oldest first.
Held == [k \in 1..schetchik |-> ochered[(golova + k - 1) % MaxOchered]]

W == INSTANCE EventWindow WITH window <- Held, Limit <- MaxOchered

\* The ring is a window on the latest events: nothing is reordered, repeated
\* or invented, and an overflow costs the oldest event only.
ImplementsWindow == W!Spec
=============================================================================
