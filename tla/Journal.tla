------------------------------ MODULE Journal -------------------------------
(***************************************************************************)
(* What the digital genome promises its callers: a journal that only grows, *)
(* that belongs to the key of its first entry, in which an acknowledged    *)
(* entry stays for ever, and which a torn write closes to further entries. *)
(* Genome implements it when one process at a time holds the file.         *)
(***************************************************************************)
EXTENDS Naturals, Sequences

CONSTANTS Keys, Events

VARIABLES
    log,       \* the entries, each with the key that signed it
    acked,     \* positions whose writer was told "recorded"
    sealed     \* a torn write has ended the journal

jvars == <<log, acked, sealed>>

Entry == [key: Keys, event: Events]

Init ==
    /\ log = <<>>
    /\ acked = {}
    /\ sealed = FALSE

MayRecord(k) == ~sealed /\ (log # <<>> => log[1].key = k)

\* The entry is recorded and its writer is told so.
Record(k, e) ==
    /\ MayRecord(k)
    /\ log' = Append(log, [key |-> k, event |-> e])
    /\ acked' = acked \cup {Len(log) + 1}
    /\ UNCHANGED sealed

\* The entry is recorded and its writer dies before it is told.
RecordUnheard(k, e) ==
    /\ MayRecord(k)
    /\ log' = Append(log, [key |-> k, event |-> e])
    /\ UNCHANGED <<acked, sealed>>

\* The writer dies half-way through an entry.
Tear(k) ==
    /\ MayRecord(k)
    /\ sealed' = TRUE
    /\ UNCHANGED <<log, acked>>

Next ==
    \E k \in Keys :
        \/ Tear(k)
        \/ \E e \in Events : Record(k, e) \/ RecordUnheard(k, e)

Spec == Init /\ [][Next]_jvars
=============================================================================
