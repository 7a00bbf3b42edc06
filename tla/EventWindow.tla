---------------------------- MODULE EventWindow ----------------------------
(***************************************************************************)
(* What the event queue of a swarm node (backend/src/roy.c) promises to its *)
(* reader: events come out in the order they went in, and a reader that     *)
(* falls behind loses the oldest ones, never the newest Limit.             *)
(***************************************************************************)
EXTENDS Naturals, Sequences

CONSTANTS
    Events,
    Limit,      \* events kept for the reader
    Nothing     \* what the reader holds before its first event

VARIABLES
    window,     \* events kept, oldest first
    given       \* the event the reader was given last

Init == window = <<>> /\ given = Nothing

Put(e) ==
    /\ window' = Append(IF Len(window) = Limit THEN Tail(window) ELSE window, e)
    /\ UNCHANGED given

Take ==
    /\ window # <<>>
    /\ given' = Head(window)
    /\ window' = Tail(window)

Next == Take \/ \E e \in Events : Put(e)

Spec == Init /\ [][Next]_<<window, given>>
=============================================================================
