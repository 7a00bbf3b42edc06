# Kolibri in TLA+

A verification development for Kolibri: TLA+ modules of the parts that keep state,
the TLC configurations that check them on small instances, and theorems with
proofs checked by TLAPS. Paths are relative to the repository's root.

    tlasany Genome.tla                                # parse a module
    tlc -config MCGenome_crash.cfg MCGenome           # model-check an instance
    tlapm GenomeProofs.tla                            # check the proofs of a part

`PROJECT.json` lists the components, the runs, for each property a mutated
definition that breaks it, the source lines each definition models, the hazards
and the theorems. Definitions named `Mut...` are those mutants; nothing else
uses them.

## 1. Inventory

| Part | State | Operations | What is hard | What makes it correct |
|---|---|---|---|---|
| **Digital genome** `backend/src/genome.c` | a file of 512-byte blocks chained by hash and HMAC; a context per user: file position, next index, last hash | `kg_open` (scan), `kg_append`, `kg_close`, `kg_verify_file` | crash inside a write, power loss, several processes on one file | acknowledged blocks stay; the file verifies; nothing written changes; an accepted file has no gap |
| **Knowledge relay** `apps/kolibri_knowledge_relay.c` | an offset file; the journals it reads and writes | one pass: skip, forward to each target, save the offset | dying between delivery and offset; a target that refuses | an offset never covers what was not delivered; order; no loss |
| **Formula pool** `backend/src/formula.c` | 24 formulas, 64 examples, 10000 associations | teach, tick (score, sort, breed, hand out), feedback | order between a sort and feedback, copies that go stale, eviction | best first; no regress; one answer per question |
| **Swarm node** `backend/src/roy.c` | neighbours, a ring of events, running flag | thread: receive, note, report, greet, clean; program: take event, add, greet, send, stop | two threads, full tables, stopping | ring = window of latest events; no twins; stop returns and is final |
| **Knowledge queue** `backend/src/knowledge_queue.c`, `apps/kolibri_queue.c`, `scripts/knowledge_pipeline.sh` | SQLite rows, exported files, `index.json` | enqueue, moderate, list, export; index | other processes between the steps of an export; crash; limit; file operations nobody looks at | only decided texts published; the snapshot agrees with the queue |
| **Knowledge index** `backend/src/knowledge_index.c`, `knowledge.c`, `apps/kolibri_indexer.c` | documents, tokens, vectors | build, write, search | a search that keeps a few of many, in float | the best are found |
| **Interactive node** `apps/kolibri_node.c` | pool, genome, last answer | teach, ask, good, bad, tick, script, share, import, automatic cycles | last answer goes stale; imported gene with undefined fields; event lost while the pool changed | feedback reaches the gene that answered; the journal tells what happened to the pool |
| **Gene exchange** `backend/src/net.c`, `apps/kolibri_coordinator.c` | sockets, one loop each; the best gene heard of | share, poll, rebroadcast | loops that block on each other in connect and in recv, a best gene that never ages, processes that die of each other | the best gene spreads |
| **Symbol table** `backend/src/symbol_table.c` | 256 symbols with digits | encode, decode, load, seed | its events are rejected; the limit | digits never decode to another symbol; the defaults keep theirs |
| **Knowledge server** `backend/src/knowledge_server.c` | index, genome, counters | search, teach, feedback, metrics, signals | events too long, failed appends, a second server, death between answer and record | what there was room for is in the genome, in order |
| **KolibriScript** `backend/src/script.c`, `apps/ks_compiler.c` | variables, mode, pool, crystal chain | parse; statements, loops with a limit of 1024 | slips of the hand; guesses learned like lessons; a verification of a stale answer; events too long to record | what is executed is what is written; guesses replace no lesson but over doubled spaces; the chain is linked |
| **Simulation** `backend/src/sim.c`, `apps/kolibri_sim_cli.c` | pool, ring of 512 log entries | tick, reset, read, soak to a file | ring at its limit, a view shorter than the ring | each entry in the file once, in order |
| **Python simulator** `core/kolibri_sim.py`, `core/kolibri_script/genome.py` | knowledge, formulas, journal; ledger file | teach, ask, evolve, swarm; append and read frames | names that collide, a swarm that raises halfway; torn frames, Python's buffers | exchange spreads; a reader gets frames in order |
| **Feedback service** `backend/feedback_service/` | database client, table, JSONL dataset | submit | overlapping requests, failures of database and disk, death | dataset within database; a 201 is in both |
| **Swarm scripts** `scripts/swarm_exchange.py`, `run_autonomy.sh` | offsets per edge | run the relay along a topology | one relay per edge, in turn | as the relay |
| **Context and learning libraries** `context_window.c`, `logical_memory.c`, `corpus_learning.c`, `text_generation.c`, `formula_logic.c`, `semantic_digits.c` | tokens and attention matrix, cells, patterns | add, slide, attend; store, match | a matrix older than the tokens | matrix and tokens agree |
| **Cloud storage** `cloud-storage/server.js` | `data.json`, compressed files | register, login, upload, delete, download | requests that read, wait and write the whole back; a file empty while written; file operations that fail | quota = sum of files; nothing lost without overlap or a failed write |
| **Compression and archive** `backend/src/compress.c` | an archive file | three stages and back; create, add, close, open, extract | escapes in the data, a table written over files, short writes | what is extracted is what was added, or nothing |
| **Digits, hashes** `decimal.c`, `digits.c`, `digit_text.c`, `sha256.c`, `random.c` | none | pure functions | bytes | round trips |
| **Bridges, services, user interfaces, kernel, GPU** | little of their own | | | |

How they interact. The node, the knowledge server and the script interpreter each
hold a *genome* open and append an event for what they do. The *relay* reads the
server's genome block by block and appends its TEACH and USER_FEEDBACK events to
the genomes of the nodes, through `kg_open`/`kg_append`/`kg_close` of its own. The
node, the simulator and the interpreter own a *formula pool*; nodes exchange genes
over the *gene exchange*, or over the UDP *swarm node*, whose events the program
takes out of a ring. The *queue* feeds approved texts to the index the knowledge
server searches.

## 2. Plan

What was planned is there: the genome and the swarm node, each with runs of its own; the
queue's pipeline and the relay, in one run (`knowledge`); the interactive node composed with
the pool, and the exchange of genes between nodes and coordinator (`node`); and thirteen
parts that share no state with each other, the pool by itself and the swarm node's ring
among them, in one run (`services`).

Each of these parts has its safety properties proved as well (section 6), all but the
parser of scripts. What stays with TLC is that parser, whose operators recurse over trees, and
liveness.

No module with a theorem, nor any it extends, declares a RECURSIVE operator.

## 3. Modules

### Genome (`Genome`, `Journal`, `GenomeRefinement`, `GenomeProofs`, `MCGenome`)

`file` is a sequence of units; a block is `Parts = 2` of them, so that a half-written
block can be told from a whole one. A block carries index, previous hash, key, event
and a `stamp` that stands for its hash: SHA-256 is taken to be injective and the
HMAC unforgeable, which is what `BlockVerifies` compares. `off`, `nextIndex`, `prev`
are the fields of a `KolibriGenome`, `pc` says where `kg_open` stands; its `fopen`,
creation, the reading of each block and the seek are steps of their own, because
other processes may come between them. `AppendBlock` is `kg_append` and ends with the
return to the caller. `acked` is history: the blocks whose `kg_append` returned 0.
`Exclusive` lets one process at a time use the file. A block is read in one step.

`Faults` names what the environment may do:

| Fault | Actions |
|---|---|
| `short_write` | `AppendShort`: `fwrite` or `fflush` fails after part of a block, and the FILE's position stays behind it |
| `crash` | `CrashInAppend`, `Crash`: the process dies, in the middle of a write or anywhere else |
| `power_loss` | `PowerLoss`: nothing calls `fsync`, so any units of the file may be lost, as an end of it or as holes of zeroes in it |
| `io_error` | `OpenFails`, `ScanEnd`, `SeekEnd`: creating, reading or seeking fails, and `kg_open` with it |
| `open_error` | `OpenMissing`: `fopen` "r+b" fails on a file that is there, and "w+b" empties it |

`Journal` is the promise: a log of one key that only grows, whose acknowledged entries
stay, and that a torn write seals. `GenomeRefinement` maps file to log.

Runs: `genome_crash`, `genome_faults` (pass); `genome_shared_append` (a violation, see 5).
Bounds: two processes, two keys where keys can be confused, three blocks — enough for a
first, a middle and a last block, each of which may be torn or lost with the others still
there, and for a second process that comes in at any of them.

### Knowledge relay (`KnowledgeRelay`, `KnowledgeRelayProofs`, `MCKnowledge`, `MCKnowledgeRelay`)

One action per step of `main`; `source` is what the server has recorded so far, growing
while a pass runs; a target's journal is the list of source indices appended to it.
`TruncateOffset` and `WriteOffset` are `fopen("w")` and the `fprintf`. Failures: the relay dies
anywhere, a target refuses, the directory is missing, the offset file cannot be
written. `failures` and `refused` are history: the properties say what a failure may
cause, and that it causes nothing else. The passes are sequential.
Bounds: three events of two kinds (one relayed, one not), two targets, two failures:
one failure can hit the recovery from another.

### Formula pool (`FormulaPool`, `KolibriNodeProofs`, `Extremes`, `MCServices`)

A gene is a tuple of digits and `Score` a constant function from the number of examples
and a gene to a fitness: the properties hold for whatever the arithmetic of a formula
yields, as they only speak of order. The draws of the random generator are open
choices, and so is the order `qsort` gives equal formulas: `Sorted` is any rearrangement
(`Rearranges`) in which no formula stands behind a worse one. `kf_pool_tick` is `StartTick`, one
`Generation` at a time, `EndTick`. Bounds: `Count = 6`, hence an elite of 2 and `AssocTop = 1`
(in the code 24, 8, 3: what matters is AssocTop < Elite < Count); genes of one digit; four
lessons on three questions against a pool of two, so that a question can be
answered anew, pushed out and taught again; two marks of feedback and one tick in any
order between them.

### Swarm node (`EventWindow`, `RoyQueue`, `Roy`, `RoyProofs`, `MCRoy`)

`RoyQueue` is the ring with its counters as the code has them; `EventWindow` is its
promise. `Roy` adds the thread, whose place in its loop is `potok`, the neighbours with the
age of their last sign, and the program's calls. Ages are counted up to the limit they
are compared with. `Clean` closes up the table over the neighbours too old: those that
stay keep their order (`Kept`). A packet of any kind from any contact may arrive at any time: loss,
repetition and reordering are included. Bounds: a ring of 1 in `MCRoy` and of 3 in
`MCServices`, two neighbours for four contacts (a full table), limits of one second, one
dropped packet.
NoTwins and RecentKept assume (`Steady`) that an id stays at one address, as it does in
`MCRoy` (`SteadyContacts`); the code does not keep
the table free of twins otherwise.

### Knowledge queue (`KnowledgeQueue`, `KnowledgeProofs`, `MCKnowledge`, `MCKnowledgeQueue`)

Rows are a sequence of statuses. `change` is the statement of a process that holds the
database to commit it: until `Commit` or `RollBack`, who opens or reads gets SQLITE_BUSY at
once (no busy timeout is set anywhere). The pipeline's steps are the export's (open,
delete the files, fetch, write file after file) and the indexer's (read the files, empty
`index.json`, fill it).

What goes wrong goes wrong as in the code. The export looks at no file operation: an old
file that cannot be removed stays (`DeleteFiles`), and a text whose file cannot be opened or
written is passed over (`SkipFile`) or left behind cut, both with SQLITE_OK in the end; so are
files the indexer cannot read. An export that fails, or is killed (`KillExport`), goes on to
the indexer, as `|| true` makes it. Anything else that fails ends the loop of
`run_autonomy.sh` (`EndLoop`: `set -e`), and nobody need start it again.
`held` and `barred` are history: what was approved, or not approved, ever since the run
began; `left` and `lost` too: files that this run could not remove, and texts that a file
operation of this run lost. Bounds: three submissions against a limit of 2, four decisions,
one crash, one fault, which may hit any set of the files at once.

`MCKnowledge` EXTENDS queue and relay, which have no state in common. The first state chooses
the one that moves (`part`), with the fairness of its own specification (`PartFairness`).

### Interactive node (`KolibriNode`, `KolibriNodeProofs`, `MCKolibriNode`)

`KolibriNode` EXTENDS `FormulaPool` and adds the loop of `apps/kolibri_node.c`: commands, the
automatic cycles and the imports that come between them, `lastAnswer`, to which a mark refers,
and how many events of each kind the genome got. An append may fail, a script may do
anything to the pool, the node may stop and start again on the same genome. An
imported gene comes with association fields that nobody set; the model marks it as
junk, and JunkIsNotBred says that no generation lets it be copied. MarkHitsAnswerer says
of a mark what it does to the whole pool: one formula with the gene of the last answer
is adjusted and moved to another place, and the others keep theirs in order.

Bounds: three formulas, two ticks, one mark, three other events, one lost append, one
restart.

### Gene exchange (`GeneExchange`, `KolibriNodeProofs`, `MCKolibriNode`)

`net.c` under the loops of nodes and coordinator. Each process is one thread that polls its
listener and then does something else: `loop` says where it is. Both halves block. A poll
reads a connection to its rule or its end; sharing opens a connection of its own for
every rule, and `connect` waits until the listener's queue, of `Backlog` places, has one. The
coordinator keeps what claims a strictly better fitness than anything before (`Compare`) and
in each round sends it to all targets, one after the other.

What a node's best gene is, and what fitness it has, is the pool's affair
(`FormulaPool`: score and feedback, fitness 1.0 for the top three); here a node may send any of
`RulesOf`, at any time. So the coordinator's best may be one that no node ranks first any
more, which the code allows too.

A process dies at any time and a send fails at any time, `MaxFaults` times; whoever
then sends to the dead dies of SIGPIPE (`Killed`), and those deaths are not counted. A dead
process may be started again, and need not be. Bounds: two nodes, both of them targets of
the coordinator and both sharing with it, so that the loops can block on each other in a
circle; one place in a queue (4 in the code), so that it is full at once; three rules sent
by nodes of two genes; one fault, which can kill all three. `MCKolibriNode` chooses with the
first state whether the node of the former heading moves or this exchange.

### Parts without shared state (`MCServices`, `MCArchiver`)

`MCServices` EXTENDS the modules below. Its variable `part` is chosen by the first state, and
only that part moves; the others rest in one initial state. The state space is the sum
of theirs, and each property speaks of its own part.

* `Archiver`: the codecs of `compress.c` on bytes below `ByteBase = 4`, whose two largest mark
  matches and runs as FE and FF do, so that short data hold every escape; all files of up
  to six bytes of three values. Each loop of the code is a function of the number of rounds,
  whose round is an operator of its own (`RunStep`, `MatchStep`, `UnRunStep`, `UnMatchStep`). The
  archive is a sequence of cells; closing it writes the table from the end of the header
  on. What is unpacked is the original, or the checksum refuses it; a file that is
  not given back is one under the table or one with a near match (section 5 has a run for
  either). Proofs in `ArchiverProofs`.
* `SymbolTable`: six symbols for a table of four, genomes left by the former version, two
  tables one after the other, as each script makes one. No symbol is kept from one to the
  next but the defaults and the former version's, whatever the former tables saw, so that
  the digits of a new symbol are good for one table's life and the promise about them is
  about one table (`NewTable` forgets what was handed out).
  Proofs in `ServicesProofs`.
* `SimLog`: a ring of 5 with a view of 2 (512 and 64 in the code), 16 entries: three times
  round. The web build's reading is the invariant LogIsWindow. Proofs in
  `ServicesProofs`.
* `CloudStorage`: a request is the steps between its awaits; `data.json` is torn while it is
  written. Each file operation may fail: the write when it has emptied `data.json` already
  (`emptied`), the unlink of a deleted file after its record has been looked up; a failing
  registration ends the server. `lost` and `emptied` are history: what such failures may cost,
  and that they cost nothing else. Two requests at once, four in all. Proofs in
  `ServicesProofs`.
* `PythonSwarm`: names of formulas are sequences that imports make longer; two simulators,
  two swarms, a population at its limit of three, a journal whose limit changes. Proofs in
  `ServicesProofs`.
* `Ledger`: frames of three cells, so that a cut may leave a header without its body; four
  frames, two faults. Python's buffer keeps the rest of a small frame for later. Proofs in
  `ServicesProofs`.
* `ScriptParser`: programs are written out as their author means them, two slips put into
  them, and the result parsed; what is executed must say what is written.
* `KolibriScript`: a statement of a script is one action; a block's rest is `todo`. A text is a
  sequence of words, of which `Spaced` says that two spaces follow: learning squeezes
  them and cuts n-grams out of at most `TokenRoom` words, looking up compares the text as it
  stands. An event is recorded if its payload has room in a block (`HasRoom`), and CRYSTAL_VERIFY
  has none. A pool of four associations, loops of at most two rounds, two scripts of four
  statements together, a question with doubled spaces. Proofs in `ServicesProofs`.
* `KnowledgeSearch`: every assignment of the scores 0..3 to five documents, two of which
  scores are one float, against the ranking that sorts them all. Proofs in `KnowledgeProofs`.
* `KnowledgeServer`: processes with a genome context each (`next`, `last`), a file of blocks that
  name their predecessor. A text is its size. A search is answered and then recorded, a
  lesson recorded and then answered; an event without room is left out. Two servers,
  two starts, two requests out of ten kinds, one trouble: a failed or interrupted write,
  or a second server. The bound of one trouble is what the promise is about: after a
  fragment or a broken chain no start opens the genome again, and nothing is recorded. Proofs
  in `KnowledgeProofs`.
* `FeedbackService`: two requests at once, four in all, two mishaps; threads finish, fail or
  half finish what they were at when the service dies. Proofs in `ServicesProofs`.
* `FormulaPool`, `RoyQueue`: above. The questions of the pool are alike, and TLC takes states that
  differ by their names for one (`QuestionSymmetry`); no other part has to do with them.

`MCArchiver` has the round trip of the codecs alone, over all files of up to seven bytes, and
archives of files that nothing repeats in, without write errors; `MCKolibriScript` a single
script of a lesson, its question and a verification. These three runs expect violations.

## 4. What the runs show

| Run | Properties | |
|---|---|---|
| `genome_crash` | JournalVerifies, AckedDurable, ImplementsJournal | a crash anywhere loses nothing acknowledged; a file without a fragment at its end verifies; the file implements Journal |
| `genome_faults` | AcceptedHasNoGap, AppendOnly, OpenDecides | whatever short writes and losses of power leave, holes included: a journal that `kg_open` took holds with any acknowledged block the one it chains to, no call changes a written unit, and `kg_open` accepts what `kg_verify_file` accepts |
| `genome_shared_append` | AppendsAtEnd (violated) | see 5 |
| `relay_refusal` | ReachesAllNodes (violated) | see 5 |
| `roy_node` | IInv, NoTwins, QuietAfterStop, RecentKept, StopReturns, RoundsAreMade (= KeepsGreeting and SilentForgotten) | thread and program together: once stopping has returned, no step touches table, ring, flag or packets any more; and the thread's progress |
| `knowledge` | NothingUndecided, SnapshotAgrees, DecisionsGetPublished (= ApprovedGetPublished and RejectedGetRemoved) | nothing undecided published; a successful run agrees with the queue but for what the limit cuts off and what a failing file operation of that run kept in or out; a loop that is kept running catches up |
| | RelayInv, NoneIsPassedOver (= OffsetMeansDelivered and NoGaps), RestartsAccountedFor, EventuallyForwarded | a failure makes the relay repeat itself, never skip; every event arrives or was refused |
| `queue_busy` | ApprovedAreExported (violated) | see 5 |
| `node` | ChangesAreRecorded, JunkIsNotBred, MarkHitsAnswerer | journal and pool agree but for failed appends; unset associations are not bred; a mark hits the gene that answered |
| | ExchangeInv, BestSpreads | an open connection has its one sender at work on it, whoever dies; a gene the coordinator heard of reaches every target that is up, although loops block on each other |
| `services` | BestFirst, OneAnswerPerQuestion, NeverWorse, BestLearns | the pool: its first formula is a fittest one; updates and evictions leave no duplicates; breeding keeps the best; one of the fittest knows the associations |
| | RestoresWhatWasStored, SymbolsKeepTheirDigits, CloudKeepsBooks, SwarmKeepsAndSpreads, LogsAreFaithful, LedgerReadsBack, ExecutesWhatIsWritten, ScriptsKeepFaith, KnowledgeIsServed (= BestAreFound and ServerKeepsFaith), OpinionsAreKept, ImplementsWindow | one property for each other part of section 3's last heading; the ring implements EventWindow |
| `codec_roundtrip` | DecompressionReverses (violated) | see 5 |
| `archive_close` | ExtractionGivesBack (violated) | see 5 |
| `script_verify` | VerificationsAreRecorded (violated) | see 5 |

Fairness. *Genome*: a started `kg_open` goes on (a sequential call). *Relay*: a run that
started goes on and the next one is started, since they are run periodically
(`docs/russian_response_steps.md:10`). *Pipeline*: the loop of `scripts/run_autonomy.sh` goes on while
it runs; once something has ended it nothing restarts it, and DecisionsGetPublished speaks
of the behaviours in which it is running from some time on (`looping`); a process that holds
the database lets go of it. *Roy*: the thread keeps being scheduled and
`kolibri_roy_ostanovit`, which joins it, goes on. *Gene exchange*: each process goes on with what
it can do, the coordinator's timer runs out again, and a node polls again; all of it weak
fairness. A connect that waits is a step too, because the kernel gives it up in the end
(`ConnectFails`): no fairness makes it succeed. A death, a restart or another rule to share is
nobody's duty. BestSpreads holds because nodes send finitely many rules
(`MaxShares`): a node that shared without end could take the one free place of a queue
each time, and the coordinator's connects would fail for ever. Nothing is
assumed of other users, packets, the clock or failures, but that failures and dropped
packets are bounded in number. That bound is needed: a swarm node flooded with bad
packets never greets, since each goes back to the socket. The parts of `services` have
no fairness; what is said of them is safety.

CHECK_DEADLOCK is off where a system may really stop: a closed genome at its bound, a
stopped swarm node, a pool nobody calls, a part at the end of its requests.

## 5. Where the code and its documents disagree

With a run each:

* `genome_shared_append`: with two contexts open on one file, `kg_append` overwrites a block of the
  other (it writes at its own position); `docs/genome_chain.md:31` says it appends.
  The relay writes into journals that running nodes hold open.
* `relay_refusal`: an event a target refuses is never sent to it again;
  `docs/russian_response_steps.md:10` wants it in the genomes of all nodes.
* `queue_busy`: an export that meets a commit publishes a snapshot without any approved
  text; `docs/developer_guide.md:144` says approved submissions are exported automatically.
* `codec_roundtrip`: a match at a distance below 256 is written as FE 00, which the
  decompressor takes for an escaped byte; `tests/test_compress.c:118` calls this "Decompression
  verification failed". The archive refuses such data at the checksum.
* `archive_close`: closing an archive writes its table over the first files, which then cannot be
  extracted; `tests/test_compress.c:287` calls this "Failed to extract file 1", and
  `docs/archiver.md:223` extracts a first file.
* `script_verify`: the payload of CRYSTAL_VERIFY is 92 bytes and a block takes 85, so that no
  verification is recorded; `tests/test_script.c:115` asserts that one is. (That test fails
  earlier, at line 85: `toupper` leaves Cyrillic letters alone, and the answer begins with a
  small letter.)

Seen while modelling, without a run:

* `docs/genome_chain.md:29` says `kg_open` creates the file if it is absent. Of two processes that
  find the genome missing, the second empties what the first has created and appended to
  (`fopen` with "w+b" after "r+b" failed); and whatever made "r+b" fail, a journal that is there
  is emptied (`genome.c:175`).
* `docs/developer_guide.md:144` says approved submissions are exported automatically. Of more than
  10000 the latest are never exported (`knowledge_queue.c:377`); an export that cannot open a
  file passes over its submission, counts it as exported (`apps/kolibri_queue.c:189`) and
  succeeds.
* An association answered anew keeps its place and is the first to be evicted although it is
  the newest (the comment at `backend/src/formula.c:508` says the oldest goes). A question taught
  anew is answered as before until the next tick. N-grams of a lesson replace an earlier
  lesson whose whole question is that n-gram.
* Scripts: a literal loses its quotes, so one that equals a variable's name means the
  variable; the second spelling of `создать формула` always ends in a diagnostic
  (`script.c:1466`); a loop whose condition turns false exactly after round 1024 is reported
  as over the limit. `docs/kolibri_script.md` says `сохранить` adds GENE_STORE and `отбросить` removes
  from the pool without a record; the code logs SCRIPT_FORMULA_SAVE and SCRIPT_FORMULA_DROP and
  leaves the pool alone.
* The soak's file lags behind the log after 64 entries (`docs/kolibri_sim_c_port.md:72`).
* `docs/archiver.md` says only methods of compression that improve it are applied, while each
  chosen one is.
* A guess may replace a lesson when its question has doubled spaces: learning squeezes them,
  looking up does not, so that the question does not contain the n-grams learned from it
  (`script.c:1142-1164` against `1215-1246`).
* A cloud storage whose disk is full answers 500 and is left with an empty `data.json`: every user and
  record is gone (`cloud-storage/server.js:60-62`).
* The knowledge server acknowledges lessons over about 85 bytes and leaves them out; a
  server started while another serves writes to the genome before it finds the port
  taken, and may break the chain; after SIGTERM it waits for one more client.

## 6. What is proved

For every value of the constants. Assumptions: the named ASSUMEs of the modules, which
TLC evaluates in every run, and the hypotheses written in the theorems. Each proof
module has the same order: lemmas about operators, one lemma per action or group of
actions, the induction, the results.

`GenomeProofs`, for any contexts, keys, events and clock bound. Two hypotheses appear:
`Exclusive`, a constant of the model, lets one process at a time use the file;
`SingleWriter` adds that no fault but a process crash happens.

* `TypeCorrect`: Spec => []TypeOK, without hypothesis.
* `Inductive`: SingleWriter => (Spec => []IInv). AckedDurable is not inductive alone: that a
  new block does not land on an old one needs to know that an open context stands at
  the end of the file (CursorInv), which comes from the scan having found every block
  in its place (FileInv: the file is chained, under the key of its first block), which in
  turn needs that no other process moved the file meanwhile (OneActive, ExistsInv).
* `AckedDurability`, `JournalIntegrity`: consequences of IInv.
* `GenomeIsJournal`: SingleWriter => (Spec => ImplementsJournal). The whole blocks map to the
  entries, a fragment behind them to the seal; an append maps to an entry recorded, a
  crash inside it to an entry or a seal, and everything else to a stutter.
* `FaultInductive`: Exclusive => (Spec => []FaultInv), under every fault. After a loss of power
  the file need not be a chain any more, it may have holes and blocks out of place, and IInv
  fails. What is left: two units on disk with one stamp are of one block (StampInv); an open
  context stands at the end of the file, and the block its next one will chain to is in
  it (EndInv); what a running scan has read verifies (ScanInv), so that a file that is
  accepted has no hole in front of anything; and while a context is open, of two acknowledged
  blocks that chain, the earlier stands in front of the later if that is there at all
  (OrderInv) — restored by each accepting scan from ScanInv, and kept by short writes because
  EndInv puts them behind everything.
* `AcceptedUnbroken`, `OpeningDecides`: AcceptedHasNoGap and OpenDecides from FaultInv, under
  Exclusive. `Immutability`: AppendOnly, under Exclusive and without `open_error`, under which
  it is false (section 5).

`KnowledgeRelayProofs`, for any targets and kinds of events: `Inductive` ([]RelayInv),
`NothingPassedOver`, `RestartsBounded`. What a target was offered is what lies below the cursor
of the pass (OfferedInv), and the cursor never falls behind the offset; a journal that
will have to start over has a failure that it was not charged for yet (RestartInv), which is
why starting over is paid for.

`KolibriNodeProofs` begins with the pool alone, for any pool size, genes, score and limits:
`Inductive` ([]IInv), `FirstIsBest`,
`OneAnswer`, `GroundIsKept`, `BestIsTaught`. BestFirst speaks of an idle pool; IInv keeps the rank
through a tick as well, where the children come in with fitness 0. BestLearns needs that
after the last generation no fitness exceeds 1.0 (Settled), or the formulas that got the
associations might be passed by one that feedback had raised. The lemmas on `Sorted` say
what any unstable sort keeps: which formulas there are, and how many of each kind.

It goes on with the same pool under the node's commands, imports, scripts and restarts:
`NodeInductive` ([]NodeIInv), `JournalAccounts`, `JunkStaysPut`, `MarkIsAboutAnswer`, `FittestAnswers`.
An import puts a formula at the end, where it may be better than those before it, so the
rank holds only when somebody may ask (RankedWhenAsked), and the tick that follows restores
it; junk is counted through sorting, breeding and handing out (the lemmas on
`Holding`), with what the pool was taught being dated (Dated).
In the same module the exchange of genes, for any number of nodes and targets, any rules and
any backlog: `ExchangeInductive` ([]ExchangeInv). A process that reads an open connection waits
for its sender; that it does not wait for ever needs that the sender is at work on that very
connection (OpenOnesAreSent), which it is because each way out of sending, dying included,
closes the connection in whoever's queue or hands it is (`Closed`). A sender has one open
connection, so that closing it does not cut off another.

`RoyProofs`, for any capacity, contacts and limits: `QueueCorrect` and `Refinement` of the ring alone
(QueueSpec => []QueueOK, QueueSpec => ImplementsWindow: tail is head plus count, round the ring);
`Inductive` ([]IInv); `QuietOnceStopped` (Spec => QuietAfterStop: once stopping has returned, no
step of the program or the thread changes anything of the node, because the thread has
ended and the flag is down, ThreadEnded); `NodeUsesQueue` (Spec => QueueSpec) and with it
`NodeGivesWindow` (Spec => ImplementsWindow) for thread and program together. Under Steady:
`NeverTwice` (NoTwins) and `NeverLost` (RecentKept). Without it the code does keep twins: a
neighbour added by a wrong address is found by its id.

`KnowledgeProofs` begins with the queue, for any number of submissions and any limit: `Inductive`
([]IInv), `Undecided`,
`SnapshotAgreement` (Spec => SnapshotAgrees). What the export has in hand, files written and
rows still to write, is the selection it fetched and what it could not remove, and stays in
agreement with what nobody touched, with each exception named (ExportInv): a text that stayed
approved is missing only if a file operation of this run lost it, or if as many older
rows as the limit were approved at some time of the run; one that stayed unapproved is there only if
it could not be removed. A change that waits for its commit is a new row or a decision
(ChangeInv). It goes on with
the search and the server, and with both together: `KnowledgeServed`.

* The search, for any documents, scores and limits and any rounding that keeps their order
  and leaves a float what it is (SearchAssumption): `SearchFindsTheBest` ([]SearchInv). No document
  gone through is above one that is kept (`BestIsChosen`, `ConsideredIs`); that there is a weakest
  place to give up is shown by counting up. The sort is taken apart into its exchanges
  (`PassIs`): after each pass its place has a greatest of what is behind it (`InOrderIs`). The
  ranking of all that match has one document for each place (`RankedIs`). What is found and
  what is ranked need not be the same documents, since a float may not tell them apart;
  they are worth the same place by place, because a better one in some place would leave too
  few places before it for those that are better still (`TopsAgree`, a pigeonhole argument).
* The server, for any number of servers, starts, requests and troubles and sizes of any text:
  `ServersKeepFaith` ([] of ServerInv and ServerKeepsFaith). One server at most has the port, and
  while nobody starts a second one, the one there is knows where the genome ends (WritersInv);
  of several that are about to write that they started, all began at the same place
  (BootsInv). Of a request that is done or being done all that fits has been recorded but what is
  still due, and one event at most that a failed write cost (WorkInv, RecordedInv); a server
  that does not serve yet has counted nothing (CountsInv). The lemmas first say what a request
  leaves and what a server has to do for it (`LeavesAre`, `StepsAre`) and where a block is
  written (`WrittenIs`); `MoveKeeps` is for every step in which one server changes, and genome
  and requests do not.

`ArchiverProofs`, for any number of byte values from three on, any window two bytes
can name, any methods, and files and archives of any length:
`ArchivesRestore` ([] of ArchiverInv and RestoresWhatWasStored).

* The loops. A function that says what each round makes of the last one exists
  (`Iterates` in `Extremes`), goes on as its step does (`LoopGoes`) and keeps what each step keeps
  (`LoopStays`), by the least round at which it would not. The encoders get through the data in
  at most as many rounds as it has bytes (`RunsEnd`, `MatchesEnd`), the decoders likewise.
* The codecs. A decoder is followed token by token: whatever comes behind the tokens so far,
  it has gone through them and written exactly the bytes before the encoder's place
  (UnRunsTo, UnMatchesTo, Upto). A literal, a doubled mark and a run or match each take it
  on by one token (`RunStepReads`, `MatchStepReads`). A match that overlaps its own source
  copies bytes the copying has just made (`UptoCopied`, by the first byte that would be wrong).
  A distance of ByteBase or more has a high byte that is not zero, so it is not taken for an
  escape (`DistanceIs`); a nearer one may be, and is excluded by name (NearMatch): the flaw of
  section 5. Differences are taken modulo ByteBase (`DifferenceBack`). Together: what is
  decompressed is what was compressed or refused, and not refused without a near match
  (`UnRunsBack`, `UnMatchesBack`, `UndeltaBack`, `CompressIs`, `DecompressIs`).
* The file. Each stored file is where its entry says, unless the table has been written over it
  (StoredInv); with what is written or open at a time (PhasesInv) and what was packed
  (PackedInv) it follows that an extracted file is the added one or none (`ReadBack`). The proof
  also needs that the file is a sequence of cells, which the proof module states (FileInv)
  and TLC does not check, as it compares values of different kinds.

`ServicesProofs`, parts that share no state, each by itself.

* The feedback service, for any number of requests at once: `FeedbackInductive`
  ([]FeedbackInv), `OpinionsKept`. Each record is in the places its request has got to
  (RecordsInv), and who makes the client holds the lock while there is none (ClientInv).
* The simulation's log, for any capacity above one and any view: `LogInductive` ([]SimInv),
  `LogsStayFaithful`. The ring is walked by remainders (`Remainder` in `Extremes`, `Rounds`);
  RingHolds says slot by slot what LogIsWindow says of a reader (`WindowIsRing`). The soak
  sees only the oldest entries. That it misses none rests on SoakInv: it has written all
  its view showed last time, and one push lengthens the view or moves it on, by one.
* The ledger, for frames of any length, any number of them and of faults: `LedgerInductive`
  ([]LedgerInv), `LedgerIsReadBack`. What a reader gets is not inductive, since it says
  nothing of what still waits in Python's buffers. Ordered speaks of file and buffer
  together: the cells stand in order, each with those of its frame that come before it
  right in front. A failed write, whether its rest waits or is gone, puts a front of the new
  frame behind the former cells (`Cuts`); closing and crashing cut off an end (`FrontOrdered`,
  `Keeps`), but nothing that was synced (SafeInv). From Ordered follows that the first chunk
  that is no frame begins with the first cell of a torn one (`FirstUnread`), and with that
  the four promises of LedgerReadsBack.
* The cloud storage, for any number of requests at once, any users and any limit:
  `CloudInductive` ([]CloudInv), `BooksAreKept`. Every copy of `data.json`, on disk or in a
  request's hands, keeps its books by itself (BookOK), whatever the others lost; a request
  has, from its check to its save, the room or the file it began with (RequestOK). While nothing
  has overlapped (OneAtATime), what is on record is what was confirmed, but for the files a failed
  write or deletion took, each of which is counted when it goes (OnRecord, `lost`,
  `emptied`); the one request under way holds every user of the database it will write
  over, and its copy says what the answer will (WorksAlone). The sums are TLC's FoldSet, whose
  recursive function is unfolded here: that there is one on all subsets of a finite set, and
  that it does not matter which file is taken first, follow from the smallest subset
  of which it would be false (`AdderExists`, `AnyFirst`, `PartAmount`, `Amounts`).
* The symbol table, for any symbols, defaults and former genomes, and any number of tables:
  `SymbolInductive` ([]SymbolInv), `DigitsAreKept`. Entries are numbered as they stand and no symbol
  has two (TableOK), every table begins with the same entries (BeginsWith), and what a full
  table hands out is a number no entry has. Seeding goes default by default; that it
  keeps this is shown by the first default at which it would not (`SeedsExist`, `SeedingIsFine`).

* The Python swarm, for any number of simulators, any formulas and limits: `SwarmInductive`
  ([]PyInv), `SwarmKeeps`. A name without a suffix is that of F<n> with n no more than there are
  formulas (NamesDiffer), so the next F<n> is new; of one suffix more than there are formulas one is
  free (`SomeSuffix`, by the pigeonhole principle), so an import finds a name. What a simulator
  of a swarm lacks, an exchange still to come will bring from one that has it
  (StillToSpread): true at the start, when every pair is still to come (`AllPairs`), and each
  exchange keeps it (`SpreadGoesOn`). The import is TLC's FoldLeft and the plan its FlattenSeq,
  unfolded as the cloud's sums are (`GatheringExists`, `AllGathered`, `FlattenKeepsAll`).
* The interpreter of scripts, for any statements and blocks the parser builds, any sums and
  made-up text, and pools and loops of any size: `ScriptInductive` ([]ScriptInv),
  `ScriptsFaithful`. That guesses replace a lesson only over doubled spaces needs what the code
  never says: every n-gram occurs in its question once that is squeezed (`NGramsOccur`,
  `AllOccur`), so a question of single spaces is near any n-gram of it that was taught, and where
  anything is near a made-up text is not asked for (`NearIsFound`, `AnswerIs`). Of the other
  questions `misread` has the n-grams that a guess may have taken. What a lesson
  leaves of the pool is shown n-gram by n-gram (`LessonsExist`, `LessonIsLearned`). The chain
  needs CrystalOfScript: while a script runs, its crystal is that of the last lesson and
  what waits to be verified is the last event (`EventRecorded`).

`Extremes` has the lemmas on least and greatest elements of finite sets of numbers, on the
remainder, on counting up to the first number with a property, and on functions that iterate
a step, that these share.

IInv of the genome, of the pool and of the queue, NodeIInv of the node, FaultInv of the
genome and the inductive invariants of the parts in `services` are not listed with a run, being
proved; to see them checked, add their names to the configuration.

Only model-checked, and why:

* liveness (EventuallyForwarded, StopReturns, RoundsAreMade, DecisionsGetPublished, BestSpreads,
  the end of a started `kg_open`): TLAPS does not prove what fairness or ENABLED yields;
* `ScriptParser` (ExecutesWhatIsWritten): RECURSIVE operators, for which TLAPS has no solver, over
  trees of any depth: there is no number to count up to as for the loops of the archiver;
* the six runs that expect a violation, which have nothing to prove.

## 7. Not modelled

Whole parts, with the reasons in `PROJECT.json`: `swarm_exchange.py`, which runs the modelled
relay for one edge after the other, each with its own offset; the context window and
the other learning libraries, which no program calls and whose control depends on
floating-point numbers; digits, hashes and random numbers; the experimental encoders
under `tools/` and `kolibri-archiver/`, programs that turn one file into another, which are most of
the repository's C; the bridges, the user interfaces (they disable what would overlap)
and the inference proxy; the kernel, a copy of the pool over RAM; GPU code, demos and
generated trees.

In the modelled parts: contents of blocks, texts and packets; cryptography (ideal);
floating-point scores (a constant function); reads of a block that another process is
writing; memory exhaustion; hosts that vanish
without closing their connections, and greetings, which change nothing, over `net.c`; two pipelines or two relays at once; the return value of
`kf_pool_add_association`; races the compiler may exploit in `roy.c`; the lexer of scripts; the
saving of the Python simulator's state; the knowledge server's bootstrap script.
