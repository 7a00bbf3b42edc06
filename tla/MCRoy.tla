------------------------------- MODULE MCRoy -------------------------------
(* Instances of Roy for TLC. *)
EXTENDS Roy

CONSTANTS none

\* Neighbours at addresses of their own, one also known by a wrong id.
SteadyContacts ==
    {[id |-> 1, adres |-> "a1"], [id |-> 9, adres |-> "a1"],
     [id |-> 2, adres |-> "a2"], [id |-> 3, adres |-> "a3"]}
=============================================================================
