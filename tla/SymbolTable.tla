----------------------------- MODULE SymbolTable -----------------------------
(***************************************************************************)
(* backend/src/symbol_table.c: a symbol gets three decimal digits, the      *)
(* number of its entry, when it is first seen.  A table is made for each    *)
(* script: it loads what the genome tells of symbols, then adds the         *)
(* defaults.  It is to keep new symbols in the genome, whose events hold    *)
(* digits only: its payload has a bar, and kg_append takes none of them.    *)
(* What it reads there are events of the former form, written by the        *)
(* version that numbered symbols in the order of its events.               *)
(***************************************************************************)
EXTENDS Integers, Sequences

CONSTANTS
    Symbols,        \* code points
    Defaults,       \* the seeded ones, in order
    SymbolMax,      \* KOLIBRI_SYMBOL_MAX, 256 in the code
    DigitSpace,     \* what three digits can tell apart, 1000
    Formers,        \* what a genome may hold: sequences of symbols
    MaxTables       \* bound: tables made

ASSUME SymbolAssumption ==
    /\ SymbolMax \in Nat /\ DigitSpace \in Nat /\ SymbolMax < DigitSpace
    /\ MaxTables \in Nat \ {0}
    /\ Defaults \in Seq(Symbols) /\ Len(Defaults) <= SymbolMax
    /\ \A f \in Formers : /\ f \in Seq(Symbols) /\ Len(f) <= SymbolMax
                          /\ \A i, j \in DOMAIN f : f[i] = f[j] => i = j

VARIABLES
    former,         \* the SYMBOL_MAP events of the genome
    table,          \* entries of the table, [symbol, digits], in order
    handed,         \* history: what this table has handed out
    fixed,          \* history: what any table made of the defaults, and of the former
    tables

symbolVars == <<former, table, handed, fixed, tables>>

Found(entries, c) == \E i \in DOMAIN entries : entries[i].symbol = c

\* kolibri_symbol_table_find: the first entry.
DigitsOf(entries, c) ==
    entries[CHOOSE i \in DOMAIN entries :
        /\ entries[i].symbol = c
        /\ \A j \in 1..i - 1 : entries[j].symbol # c].digits

NextDigits(entries) == Len(entries) % DigitSpace

\* Mutant of AddEntry: a full table gives its last place away.
MutAddEntry(entries, c, d) ==
    LET e == [symbol |-> c, digits |-> d]
    IN  IF Len(entries) >= SymbolMax THEN [entries EXCEPT ![SymbolMax] = e]
        ELSE Append(entries, e)

\* kolibri_symbol_table_add_entry: a full table stays as it is, and says nothing.
AddEntry(entries, c, d) ==
    IF Len(entries) >= SymbolMax THEN entries ELSE Append(entries, [symbol |-> c, digits |-> d])

\* kolibri_symbol_table_seed_entry, for one default after the other.
Seeded(entries) ==
    LET from[k \in 0..Len(Defaults)] ==
            IF k = 0 THEN entries
            ELSE IF Found(from[k - 1], Defaults[k]) THEN from[k - 1]
            ELSE AddEntry(from[k - 1], Defaults[k], NextDigits(from[k - 1]))
    IN  from[Len(Defaults)]

\* kolibri_symbol_table_load.
Loaded(events) == [i \in DOMAIN events |-> [symbol |-> events[i], digits |-> i - 1]]

\* The first entry with these digits; none fails.
Decoded(d) == {table[i].symbol : i \in {k \in DOMAIN table :
    table[k].digits = d /\ \A j \in 1..k - 1 : table[j].digits # d}}

Entries(t) == {t[i] : i \in DOMAIN t}

SymbolInit ==
    /\ former \in Formers
    /\ table = Seeded(Loaded(former))
    /\ handed = {}
    /\ fixed = Entries(table)
    /\ tables = 1

\* ks_init: another script, in this process or a later one.
NewTable ==
    /\ tables < MaxTables
    /\ tables' = tables + 1
    /\ table' = Seeded(Loaded(former))
    /\ handed' = {}
    /\ fixed' = fixed \cup Entries(table')
    /\ UNCHANGED former

\* kolibri_symbol_encode.
Encode(c) ==
    LET d == IF Found(table, c) THEN DigitsOf(table, c) ELSE NextDigits(table) IN
    /\ table' = IF Found(table, c) THEN table ELSE AddEntry(table, c, d)
    /\ handed' = handed \cup {[symbol |-> c, digits |-> d]}
    /\ UNCHANGED <<former, fixed, tables>>

SymbolNext == NewTable \/ \E c \in Symbols : Encode(c)

SymbolSpec == SymbolInit /\ [][SymbolNext]_symbolVars

-----------------------------------------------------------------------------
\* Digits a table has handed out never decode to another symbol, be it full or
\* not and whatever it was loaded from; at worst they decode to none.
DecodeNeverWrong == \A e \in handed : Decoded(e.digits) \subseteq {e.symbol}

\* Defaults, and the symbols of a former version, mean the same in every table,
\* whatever else the tables before saw first.
DefaultsAreStable == \A e \in fixed : Decoded(e.digits) = {e.symbol}

SymbolsKeepTheirDigits == DecodeNeverWrong /\ DefaultsAreStable

-----------------------------------------------------------------------------
(* Why: the inductive invariant *)

\* Entries are numbered as they stand, and none is a symbol's second.
TableOK(entries) ==
    /\ entries \in Seq([symbol : Symbols, digits : Nat]) /\ Len(entries) <= SymbolMax
    /\ \A i \in DOMAIN entries : entries[i].digits = i - 1
    /\ \A i, j \in DOMAIN entries : entries[i].symbol = entries[j].symbol => i = j

BeginsWith(entries, first) ==
    /\ Len(first) <= Len(entries)
    /\ \A i \in DOMAIN first : entries[i] = first[i]

\* Every table begins with the same entries; what it has handed out is in it, or
\* was beyond a full table.
SymbolInv ==
    /\ former \in Formers /\ tables \in 1..MaxTables
    /\ TableOK(table) /\ TableOK(Seeded(Loaded(former)))
    /\ BeginsWith(table, Seeded(Loaded(former)))
    /\ fixed = Entries(Seeded(Loaded(former)))
    /\ \A e \in handed : e \in Entries(table) \/ (e.symbol \in Symbols /\ e.digits = SymbolMax)
=============================================================================
