-------------------------------- MODULE SimLog --------------------------------
(***************************************************************************)
(* The log of a simulation (backend/src/sim.c), a ring that gives up its    *)
(* oldest entry when it is full, and who reads it: the command line tool    *)
(* (apps/kolibri_sim_cli.c), whose soak writes the log to a file after each *)
(* tick, and the web build, which reads from the oldest entry on.            *)
(* Entries are numbered from the last reset; what they tell of is the pool,  *)
(* whose ticks are those of FormulaPool.                                    *)
(***************************************************************************)
EXTENDS Integers, Sequences

CONSTANTS
    LogCapacity,    \* KOLIBRI_SIM_LOG_CAPACITY, 512 in the code
    View,           \* entries the soak asks for, 64
    MaxPushed       \* bound: entries since the last reset

ASSUME SimLogAssumption ==
    /\ LogCapacity \in Nat \ {0, 1} /\ View \in 1..LogCapacity
    /\ MaxPushed \in Nat \ {0}

VARIABLES
    logs,           \* the ring: logs[i], 0 if the place is free
    logHead,
    logCount,
    logOffset,      \* entries given up
    pushed,         \* history: entries since the last reset
    lastOffset,     \* the soak's: number of the entry it writes next
    soakFile        \* what it has written

simVars == <<logs, logHead, logCount, logOffset, pushed, lastOffset, soakFile>>

Slots == 0..LogCapacity - 1

SimInit ==
    /\ logs = [i \in Slots |-> IF i = 0 THEN 1 ELSE 0]
    /\ logHead = 0 /\ logCount = 1 /\ logOffset = 0
    /\ pushed = 1
    /\ lastOffset = 0 /\ soakFile = <<>>

\* How many entries a push gives up.
GivesUp == IF logCount = LogCapacity THEN 1 ELSE 0

\* log_push.  The new entry's place is reckoned before the oldest is given up.
Push ==
    /\ pushed < MaxPushed
    /\ pushed' = pushed + 1
    /\ logs' = [logs EXCEPT ![(logHead + logCount) % LogCapacity] = pushed']
    /\ logHead' = (logHead + GivesUp) % LogCapacity
    /\ logCount' = logCount + 1 - GivesUp
    /\ logOffset' = logOffset + GivesUp

\* kolibri_sim_tick, by a program that looks at the log when it likes.
SimTick == Push /\ soakFile = <<>> /\ UNCHANGED <<lastOffset, soakFile>>

\* Mutant of Oldest: the youngest entries.
MutOldest(capacity) ==
    LET n == IF logCount < capacity THEN logCount ELSE capacity
    IN  [i \in 1..n |-> logs[(logHead + logCount - n + i - 1) % LogCapacity]]

\* kolibri_sim_get_logs: the oldest entries, as many as asked for.
Oldest(capacity) ==
    [i \in 1..(IF logCount < capacity THEN logCount ELSE capacity) |->
        logs[(logHead + i - 1) % LogCapacity]]

\* dump_logs, after a tick: what the view shows of the entries not yet written.
SoakTick ==
    /\ soakFile # <<>> \/ pushed = 1
    /\ Push
    /\ LET shown == Oldest(View)'
           known == IF lastOffset > logOffset' THEN lastOffset - logOffset' ELSE 0
           start == IF known > Len(shown) THEN Len(shown) ELSE known
       IN  /\ soakFile' = soakFile \o SubSeq(shown, start + 1, Len(shown))
           /\ lastOffset' = logOffset' + Len(shown)

\* kolibri_sim_reset, which logs that.
Reset ==
    /\ soakFile = <<>>
    /\ logs' = [i \in Slots |-> IF i = 0 THEN 1 ELSE 0]
    /\ logHead' = 0 /\ logCount' = 1 /\ logOffset' = 0
    /\ pushed' = 1
    /\ UNCHANGED <<lastOffset, soakFile>>

SimNext == SimTick \/ SoakTick \/ Reset

SimSpec == SimInit /\ [][SimNext]_simVars

-----------------------------------------------------------------------------
SimOK ==
    /\ logs \in [Slots -> 0..MaxPushed]
    /\ logHead \in Slots /\ logCount \in 1..LogCapacity
    /\ logOffset \in Nat /\ lastOffset \in Nat
    /\ pushed \in 1..MaxPushed
    /\ soakFile \in Seq(1..MaxPushed)

\* The ring shows the last entries in their order, however often it went round and
\* was reset, and the offset numbers the first of them.
LogIsWindow ==
    /\ Oldest(LogCapacity) = [i \in 1..logCount |-> logOffset + i]
    /\ logOffset + logCount = pushed
    /\ logCount = LogCapacity \/ logOffset = 0

\* The soak's view is shorter than the ring and shows its oldest part.  Its file has
\* each entry once and in order all the same; it lags, by no more than the ring
\* holds beyond the view.
SoakWritesInOrder ==
    soakFile # <<>> =>
        /\ soakFile = [i \in DOMAIN soakFile |-> i]
        /\ Len(soakFile) + LogCapacity - View >= pushed

\* The ring of the simulation and the file of its soak tell what was logged.
LogsAreFaithful == LogIsWindow /\ SoakWritesInOrder

-----------------------------------------------------------------------------
(* The inductive invariant.  That the soak misses nothing rests on where it stands:  *)
(* it has written all that its view showed last time, and one push later the view    *)
(* begins at most one entry further on.                                              *)

Shown == IF logCount < View THEN logCount ELSE View

SoakInv ==
    /\ soakFile = <<>> => lastOffset = 0
    /\ soakFile # <<>> => lastOffset = Len(soakFile) /\ lastOffset = logOffset + Shown
    /\ \A i \in DOMAIN soakFile : soakFile[i] = i

SimInv == SimOK /\ LogIsWindow /\ SoakInv
=============================================================================
