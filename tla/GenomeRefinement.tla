-------------------------- MODULE GenomeRefinement --------------------------
(* The genome file, read as the journal it stands for. *)
EXTENDS Genome

\* The entry a block carries.
EntryOf(b) == [key |-> b.key, event |-> b.event]

\* The whole blocks of the file, in order.
FileLog ==
    [n \in 1..Len(file) \div Parts |-> EntryOf(file[Parts * (n - 1) + 1].blk)]

J == INSTANCE Journal WITH
        log <- FileLog,
        acked <- {b.index + 1 : b \in acked},
        sealed <- Len(file) % Parts # 0

\* With one process at a time, and processes that may die anywhere, every
\* behaviour of the file and its contexts is a behaviour of a Journal: kg_open,
\* kg_append and kg_close add entries, never change or drop one.
ImplementsJournal == J!Spec
=============================================================================
