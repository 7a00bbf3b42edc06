-------------------------------- MODULE Roy --------------------------------
(***************************************************************************)
(* A swarm node of backend/src/roy.c: the thread kolibri_roy_potok listens  *)
(* to UDP, keeps the table of neighbours, puts events into the queue of     *)
(* module RoyQueue, greets the swarm and forgets silent neighbours, while   *)
(* the program takes events, adds neighbours and stops the node.           *)
(*                                                                         *)
(* Time is kept as ages in seconds, counted no further than they matter.    *)
(* The network may lose, repeat and reorder packets: any packet of Packets  *)
(* may arrive at any time.  Each lock is held for one step only.           *)
(***************************************************************************)
EXTENDS RoyQueue, SequencesExt

CONSTANTS
    Contacts,       \* [id, adres] pairs a packet or a call may name
    MaxSosedi,      \* KOLIBRI_ROY_MAX_SOSSEDI
    PrivetInterval, \* KOLIBRI_ROY_PRIVET_INTERVAL
    SrokGoda,       \* KOLIBRI_ROY_SROK_GODA
    MaxDropped      \* bound: packets the thread drops

ASSUME RoyAssumption ==
    /\ Events = {"HELLO", "FORMULA"}
    /\ MaxSosedi \in Nat \ {0}
    /\ PrivetInterval \in Nat \ {0}
    /\ SrokGoda \in Nat \ {0}
    /\ MaxDropped \in Nat

VARIABLES
    sosedi,         \* the neighbours: contacts with the age of the last sign
    zapushchen,     \* the flag the thread runs by
    potok,          \* where the thread stands
    paket,          \* the packet it works on
    privetAge,      \* seconds since poslednij_privet
    stopped,        \* kolibri_roy_ostanovit has returned, the locks are gone
    dropped         \* packets dropped so far

royVars == <<sosedi, zapushchen, potok, paket, privetAge, stopped, dropped>>
vars == <<queueVars, royVars>>

Kinds == {"HELLO", "FORMULA", "bad_formula", "unknown"}
Packets == [kind: Kinds, from: Contacts]
NoPacket == [kind |-> "none"]

Init ==
    /\ QueueInit
    /\ sosedi = <<>>
    /\ zapushchen = TRUE
    /\ potok = "select"
    /\ paket = NoPacket
    /\ privetAge = 0
    /\ stopped = FALSE
    /\ dropped = 0

-----------------------------------------------------------------------------
(* The neighbours *)

\* Mutants of Updated: one entry too many is let in; the table is not searched.
MutUpdatedPastEnd(s, c) ==
    LET known == {i \in DOMAIN s : s[i].contact.id = c.id \/ s[i].contact.adres = c.adres}
        fresh == [contact |-> c, age |-> 0]
    IN  IF known # {} THEN [s EXCEPT ![Min(known)] = fresh]
        ELSE IF Len(s) <= MaxSosedi THEN Append(s, fresh)
        ELSE s

MutUpdatedAppends(s, c) ==
    IF Len(s) < MaxSosedi THEN Append(s, [contact |-> c, age |-> 0]) ELSE s

\* kolibri_roy_obnovit_soseda: the first entry with the id or the address is
\* taken over; without one, an entry is added while there is room.
Updated(s, c) ==
    LET known == {i \in DOMAIN s : s[i].contact.id = c.id \/ s[i].contact.adres = c.adres}
        fresh == [contact |-> c, age |-> 0]
    IN  IF known # {} THEN [s EXCEPT ![Min(known)] = fresh]
        ELSE IF Len(s) < MaxSosedi THEN Append(s, fresh)
        ELSE s

\* Mutant of Recent: the neighbour is forgotten one second too early.
MutRecentEarly(e) == e.age < SrokGoda

Recent(e) == e.age <= SrokGoda

-----------------------------------------------------------------------------
(* The thread *)

\* A packet too short, forged, of another version or the node's own is passed
\* over, and with it the greeting and the cleaning of this turn.
Drop ==
    /\ potok = "select"
    /\ zapushchen
    /\ dropped < MaxDropped
    /\ dropped' = dropped + 1
    /\ UNCHANGED <<queueVars, sosedi, zapushchen, potok, paket, privetAge, stopped>>

Receive(p) ==
    /\ potok = "select"
    /\ zapushchen
    /\ p.kind = "bad_formula" => dropped < MaxDropped
    /\ paket' = p
    /\ potok' = "packet"
    /\ UNCHANGED <<queueVars, sosedi, zapushchen, privetAge, stopped, dropped>>

\* select waits its second in vain.
Timeout ==
    /\ potok = "select"
    /\ zapushchen
    /\ potok' = "greet"
    /\ UNCHANGED <<queueVars, sosedi, zapushchen, paket, privetAge, stopped, dropped>>

\* A greeting or a formula is reported, a formula that cannot be read ends the
\* turn of the loop, a packet of another kind does nothing more.
AfterNote(kind) ==
    CASE kind \in Events -> "event"
      [] kind = "bad_formula" -> "select"
      [] OTHER -> "greet"

\* The sender is noted before the packet's contents are looked at.
Note ==
    /\ potok = "packet"
    /\ sosedi' = Updated(sosedi, paket.from)
    /\ potok' = AfterNote(paket.kind)
    /\ paket' = IF paket.kind \in Events THEN paket ELSE NoPacket
    /\ dropped' = IF paket.kind = "bad_formula" THEN dropped + 1 ELSE dropped
    /\ UNCHANGED <<queueVars, zapushchen, privetAge, stopped>>

Report ==
    /\ potok = "event"
    /\ PutEvent(paket.kind)
    /\ paket' = NoPacket
    /\ potok' = "greet"
    /\ UNCHANGED <<sosedi, zapushchen, privetAge, stopped, dropped>>

\* A greeting is sent when the last one is old enough.
Greet ==
    /\ potok = "greet"
    /\ privetAge' = IF privetAge >= PrivetInterval THEN 0 ELSE privetAge
    /\ potok' = "clean"
    /\ UNCHANGED <<queueVars, sosedi, zapushchen, paket, stopped, dropped>>

\* Mutant of Clean: only the first neighbour is looked at.
MutCleanFirst ==
    /\ potok = "clean"
    /\ sosedi' = IF sosedi # <<>> /\ ~Recent(Head(sosedi)) THEN Tail(sosedi) ELSE sosedi
    /\ potok' = "select"
    /\ UNCHANGED <<queueVars, zapushchen, paket, privetAge, stopped, dropped>>

\* The order in which the entries that stay are moved together.
Kept(s) ==
    LET stay == {i \in DOMAIN s : Recent(s[i])}
    IN  {f \in [1..Cardinality(stay) -> stay] : \A j, k \in DOMAIN f : j < k => f[j] < f[k]}

\* kolibri_roy_ochistit_sosedey
Clean ==
    /\ potok = "clean"
    /\ \E f \in Kept(sosedi) : sosedi' = [k \in DOMAIN f |-> sosedi[f[k]]]
    /\ potok' = "select"
    /\ UNCHANGED <<queueVars, zapushchen, paket, privetAge, stopped, dropped>>

\* Mutant of End: the thread looks at the flag only when it gets a packet.
MutEndOnPacket ==
    /\ potok = "packet"
    /\ ~zapushchen
    /\ potok' = "ended"
    /\ UNCHANGED <<queueVars, sosedi, zapushchen, paket, privetAge, stopped, dropped>>

End ==
    /\ potok = "select"
    /\ ~zapushchen
    /\ potok' = "ended"
    /\ UNCHANGED <<queueVars, sosedi, zapushchen, paket, privetAge, stopped, dropped>>

ThreadStep == Drop \/ (\E p \in Packets : Receive(p)) \/ Timeout \/ Note \/ Report \/ Greet \/ Clean \/ End

-----------------------------------------------------------------------------
(* The program and the clock *)

Take ==
    /\ ~stopped
    /\ TakeEvent
    /\ UNCHANGED royVars

\* kolibri_roy_dobavit_soseda; its greeting goes to the new neighbour alone.
AddNeighbour(c) ==
    /\ ~stopped
    /\ sosedi' = Updated(sosedi, c)
    /\ UNCHANGED <<queueVars, zapushchen, potok, paket, privetAge, stopped, dropped>>

\* kolibri_roy_otpravit_privet, which writes poslednij_privet under no lock.
SendGreeting ==
    /\ ~stopped
    /\ privetAge' = 0
    /\ UNCHANGED <<queueVars, sosedi, zapushchen, potok, paket, stopped, dropped>>

\* kolibri_roy_ostanovit clears the flag and shuts the socket ...
Stop ==
    /\ zapushchen
    /\ zapushchen' = FALSE
    /\ UNCHANGED <<queueVars, sosedi, potok, paket, privetAge, stopped, dropped>>

\* Mutant of Joined: the thread is not waited for.
MutJoinedEarly ==
    /\ ~zapushchen
    /\ ~stopped
    /\ stopped' = TRUE
    /\ UNCHANGED <<queueVars, sosedi, zapushchen, potok, paket, privetAge, dropped>>

\* ... waits for the thread, closes the socket and destroys the locks.
Joined ==
    /\ ~zapushchen
    /\ ~stopped
    /\ potok = "ended"
    /\ stopped' = TRUE
    /\ UNCHANGED <<queueVars, sosedi, zapushchen, potok, paket, privetAge, dropped>>

Older(age, limit) == IF age < limit THEN age + 1 ELSE age

Second ==
    /\ sosedi' = [i \in DOMAIN sosedi |-> [sosedi[i] EXCEPT !.age = Older(@, SrokGoda + 1)]]
    /\ privetAge' = Older(privetAge, PrivetInterval)
    /\ UNCHANGED <<queueVars, zapushchen, potok, paket, stopped, dropped>>

Next ==
    \/ ThreadStep
    \/ Take
    \/ \E c \in Contacts : AddNeighbour(c)
    \/ SendGreeting
    \/ Stop
    \/ Joined
    \/ Second

\* The thread keeps running and so does a call of kolibri_roy_ostanovit.
Spec == Init /\ [][Next]_vars /\ WF_vars(ThreadStep) /\ WF_vars(Joined)

-----------------------------------------------------------------------------
TypeOK ==
    /\ QueueOK
    /\ sosedi \in Seq([contact: Contacts, age: 0..SrokGoda + 1])
    /\ Len(sosedi) <= MaxSosedi
    /\ zapushchen \in BOOLEAN
    /\ potok \in {"select", "packet", "event", "greet", "clean", "ended"}
    /\ paket \in Packets \cup {NoPacket}
    /\ privetAge \in 0..PrivetInterval
    /\ stopped \in BOOLEAN
    /\ dropped \in 0..MaxDropped

\* As long as an id is used at one address, no neighbour is in the table
\* twice, even if a caller names one under a wrong id first: otherwise
\* kolibri_roy_otpravit_vsem sends it every formula twice.
NoTwins ==
    \A i, j \in DOMAIN sosedi :
        \/ sosedi[i].contact.id = sosedi[j].contact.id
        \/ sosedi[i].contact.adres = sosedi[j].contact.adres
        => i = j

\* A neighbour that gave a sign lately is not lost, whatever the thread and
\* the program do to the table at once.
RecentKept ==
    [][\A i \in DOMAIN sosedi : sosedi[i].age <= SrokGoda =>
        \E j \in DOMAIN sosedi' : sosedi'[j].contact.adres = sosedi[i].contact.adres]_sosedi

\* A contact table in which an id stands for one address.
Steady == \A c, d \in Contacts : c.id = d.id => c.adres = d.adres

\* Once kolibri_roy_ostanovit has returned and the locks are destroyed, nothing of
\* the node is touched any more, whatever the thread was at when it was asked to end.
QuietAfterStop ==
    [][stopped =>
          /\ UNCHANGED <<queueVars, zapushchen, potok, paket, stopped, dropped>>
          /\ DOMAIN sosedi' = DOMAIN sosedi
          /\ \A i \in DOMAIN sosedi : sosedi'[i].contact = sosedi[i].contact]_vars

ThreadEnded == stopped => potok = "ended" /\ ~zapushchen

\* What the thread carries from one step to the next: a packet it has received, and
\* an event only while it is about to report one.
PacketInv ==
    /\ potok = "packet" =>
          paket \in Packets /\ (paket.kind = "bad_formula" => dropped < MaxDropped)
    /\ potok = "event" => paket \in Packets /\ paket.kind \in Events

IInv == TypeOK /\ PacketInv /\ ThreadEnded

\* kolibri_roy_ostanovit returns, even while packets keep coming.
StopReturns == ~zapushchen ~> stopped

\* A running node greets the swarm again and again, although packets that are
\* dropped (a bounded number of them) skip the greeting.
KeepsGreeting == privetAge >= PrivetInterval ~> privetAge = 0 \/ ~zapushchen

\* A neighbour that stays silent is forgotten.
SilentForgotten ==
    \A c \in Contacts :
        (\E i \in DOMAIN sosedi : sosedi[i].contact = c /\ sosedi[i].age > SrokGoda)
            ~> \/ ~zapushchen
               \/ ~\E i \in DOMAIN sosedi : sosedi[i].contact = c /\ sosedi[i].age > SrokGoda

\* Whatever comes in, the thread comes to both of its other duties.
RoundsAreMade == KeepsGreeting /\ SilentForgotten
=============================================================================
