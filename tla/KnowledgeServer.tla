--------------------------- MODULE KnowledgeServer ---------------------------
(***************************************************************************)
(* backend/src/knowledge_server.c: an HTTP server that answers one request  *)
(* at a time from an index read at its start, and records in the genome     *)
(* what was asked, taught and thought of its answers.  The genome is that   *)
(* of Genome.tla, here a sequence of blocks, each with the block that its   *)
(* writer believed to be the one before; a server writes at the place after *)
(* the last block it knows of.  A server opens the genome before it asks for *)
(* the port, and so also when another one is serving.                       *)
(* A text is its size; searching is that of KnowledgeSearch.                *)
(***************************************************************************)
EXTENDS KnowledgeSearch

CONSTANTS
    Servers,        \* processes
    Requests,       \* what clients send
    Previews,       \* Previews[d]: the preview of document d, 200 bytes and "..." at most
    Room,           \* texts that a payload has room for: 85 bytes, at 3 digits each
    Lessons,        \* documents that a search teaches at most, 3
    FoundMost,      \* results of a search at most, 16
    MaxServed,      \* bound: requests
    MaxStarts       \* bound: starts of servers

\* What a search says is a text, a limit, and how well each document fits it.
ASSUME ServerAssumption ==
    /\ {Room, Lessons, FoundMost, MaxServed, MaxStarts} \subseteq Nat
    /\ \A r \in Requests : r.kind = "search" => r.limit \in Nat /\ r.scores \in Seq(Nat)

VARIABLES
    servers,        \* servers[s]: where it stands, its genome context, its counters
    genome,         \* blocks of the file
    fragment,           \* what follows the blocks is not one
    taken,          \* history: requests accepted, by number
    answered,       \* history: numbers of those answered
    finished,       \* history: numbers of those whose handling came to its end
    starts,         \* history: servers started
    trouble         \* history: "none", or the one thing that went wrong

serverVars == <<servers, genome, fragment, taken, answered, finished, starts, trouble>>

NoBlock == [event |-> "none", by |-> 0, place |-> 0]

Off == [at |-> "down", ready |-> FALSE, running |-> TRUE, next |-> 0, last |-> NoBlock,
        todo |-> <<>>, nth |-> 0, since |-> 0, total |-> 0, hits |-> 0, misses |-> 0, late |-> 0]

ServerInit ==
    /\ servers = [s \in Servers |-> Off]
    /\ genome = <<>> /\ fragment = FALSE
    /\ taken = <<>> /\ answered = {} /\ finished = {}
    /\ starts = 0 /\ trouble = "none"

-----------------------------------------------------------------------------
(* The genome *)

IdBefore(i) == IF i = 1 THEN NoBlock ELSE genome[i - 1].id

Linked(i) == genome[i].prev = IdBefore(i)

\* What kg_open asks for.
Whole == ~fragment /\ \A i \in DOMAIN genome : Linked(i)

\* kg_append: over what stands at the server's place, if another has written there.
\* Behind a fragment nothing is found again.
Recorded(s, id) ==
    LET place == servers[s].next
        block == [id |-> id, prev |-> servers[s].last]
    IN  genome' = IF fragment THEN genome
                  ELSE IF place <= Len(genome) THEN [genome EXCEPT ![place] = block]
                  ELSE Append(genome, block)

\* knowledge_record_event, or the event BOOT: the server goes on as state; the append
\* is made, or fails and leaves perhaps a part of the block.
Keep(s, id, size, state) ==
    \/ /\ servers[s].ready /\ size <= Room
       /\ Recorded(s, id)
       /\ servers' = [servers EXCEPT ![s] = [state EXCEPT !.next = @ + 1, !.last = id]]
       /\ UNCHANGED <<fragment, trouble>>
    \/ /\ servers[s].ready /\ size <= Room
       /\ trouble = "none"
       /\ trouble' = "write"
       /\ fragment' \in BOOLEAN
       /\ servers' = [servers EXCEPT ![s] = state]
       /\ UNCHANGED genome
    \/ /\ ~(servers[s].ready /\ size <= Room)
       /\ servers' = [servers EXCEPT ![s] = state]
       /\ UNCHANGED <<genome, fragment, trouble>>

-----------------------------------------------------------------------------
(* A server's life *)

\* main, kolibri_genome_init_or_open: the genome is read.
StartServer(s) ==
    /\ servers[s].at = "down"
    /\ starts < MaxStarts
    /\ starts' = starts + 1
    /\ \/ (\A t \in Servers : servers[t].at = "down") /\ UNCHANGED trouble
       \/ (\E t \in Servers : servers[t].at # "down") /\ trouble = "none" /\ trouble' = "doubled"
    /\ servers' = [servers EXCEPT
        ![s] = [Off EXCEPT !.at = "boot", !.nth = starts', !.ready = Whole, !.next = Len(genome) + 1,
                           !.last = IdBefore(Len(genome) + 1)]]
    /\ UNCHANGED <<genome, fragment, taken, answered, finished>>

Boot(s) ==
    /\ servers[s].at = "boot"
    /\ Keep(s, [event |-> "BOOT", by |-> 0, place |-> servers[s].nth], 0,
            [servers[s] EXCEPT !.at = "bind"])
    /\ UNCHANGED <<taken, answered, finished, starts>>

\* bind: the port is free, or someone's.
Bind(s) ==
    /\ servers[s].at = "bind"
    /\ servers' = [servers EXCEPT ![s] =
                     IF \E t \in Servers : servers[t].at \in {"accept", "work"}
                     THEN Off ELSE [@ EXCEPT !.at = "accept", !.since = Len(taken)]]
    /\ UNCHANGED <<genome, fragment, taken, answered, finished, starts, trouble>>

\* handle_signal.  A pending accept is begun again, and takes one more client.
Signal(s) ==
    /\ servers[s].at \in {"accept", "work"}
    /\ servers[s].running
    /\ servers' = [servers EXCEPT ![s].running = FALSE]
    /\ UNCHANGED <<genome, fragment, taken, answered, finished, starts, trouble>>

\* The process dies, in a write perhaps.
ServerDies(s) ==
    /\ servers[s].at # "down"
    /\ servers' = [servers EXCEPT ![s] = Off]
    /\ \/ UNCHANGED <<fragment, trouble>>
       \/ /\ trouble = "none" /\ servers[s].ready
          /\ servers[s].at = "boot"
             \/ (servers[s].todo # <<>> /\ Head(servers[s].todo).event # "reply"
                 /\ Head(servers[s].todo).size <= Room)
          /\ trouble' = "write" /\ fragment' = TRUE
    /\ UNCHANGED <<genome, taken, answered, finished, starts>>

-----------------------------------------------------------------------------
(* Requests *)

FoundDocs(r) == Ranking(r.scores, IF r.limit > FoundMost THEN FoundMost ELSE r.limit)

\* What a request is to leave in the genome.
Leaves(r) ==
    CASE r.kind = "search" /\ r.size > 0 ->
            LET docs == FoundDocs(r)
                taught == IF Len(docs) < Lessons THEN Len(docs) ELSE Lessons
            IN  <<[event |-> "ASK", size |-> r.size]>>
                \o [i \in 1..taught |-> [event |-> "TEACH", size |-> r.size + Previews[docs[i]]]]
      [] r.kind = "teach" /\ r.size > 0 /\ r.answer > 0 ->
            <<[event |-> "TEACH", size |-> r.size + r.answer]>>
      [] r.kind = "feedback" -> <<[event |-> "USER_FEEDBACK", size |-> r.size + r.answer]>>
      [] OTHER -> <<>>

Numbered(s) == [i \in DOMAIN s |-> [event |-> s[i].event, size |-> s[i].size, place |-> i]]

\* handle_client: a search is answered and then recorded, a lesson and an opinion are
\* recorded and then answered; who sends nothing gets no answer.
Steps(r) ==
    LET reply == <<[event |-> "reply"]>>
    IN  CASE r.kind = "silent" -> <<>>
          [] r.kind = "search" -> reply \o Numbered(Leaves(r))
          [] OTHER -> Numbered(Leaves(r)) \o reply

\* accept, and what handle_client counts.
TakeRequest(s, r) ==
    LET hit == r.kind = "search" /\ r.size > 0 /\ FoundDocs(r) # <<>>
    IN  /\ servers[s].at = "accept"
        /\ Len(taken) < MaxServed
        /\ taken' = Append(taken, r)
        /\ servers' = [servers EXCEPT
            ![s] = [@ EXCEPT !.at = "work", !.todo = Steps(r), !.total = servers[s].total + 1,
                             !.hits = servers[s].hits + (IF hit THEN 1 ELSE 0),
                             !.misses = servers[s].misses + (IF r.kind = "search" /\ ~hit THEN 1 ELSE 0),
                             !.late = servers[s].late + (IF servers[s].running THEN 0 ELSE 1)]]
        /\ UNCHANGED <<genome, fragment, answered, finished, starts, trouble>>

\* send_response.
Reply(s) ==
    /\ servers[s].todo # <<>> /\ Head(servers[s].todo).event = "reply"
    /\ answered' = answered \cup {Len(taken)}
    /\ servers' = [servers EXCEPT ![s].todo = Tail(@)]
    /\ UNCHANGED <<genome, fragment, taken, finished, starts, trouble>>

\* Mutant of After: an event that has no room ends the recording.
MutAfter(s) ==
    IF Head(servers[s].todo).size > Room /\ Len(servers[s].todo) > 2 THEN <<>>
    ELSE Tail(servers[s].todo)

\* What remains to be done for the request.
After(s) == Tail(servers[s].todo)

RecordEvent(s) ==
    /\ servers[s].todo # <<>> /\ Head(servers[s].todo).event # "reply"
    /\ LET item == Head(servers[s].todo)
       IN  Keep(s, [event |-> item.event, by |-> Len(taken), place |-> item.place], item.size,
                [servers[s] EXCEPT !.todo = After(s)])
    /\ UNCHANGED <<taken, answered, finished, starts>>

\* The client is done with; after a signal the server closes the genome and ends.
NextClient(s) ==
    /\ servers[s].at = "work" /\ servers[s].todo = <<>>
    /\ servers' = [servers EXCEPT ![s] =
                     IF servers[s].running THEN [@ EXCEPT !.at = "accept"] ELSE Off]
    /\ finished' = finished \cup {Len(taken)}
    /\ UNCHANGED <<genome, fragment, taken, answered, starts, trouble>>

ServerNext ==
    \E s \in Servers :
        \/ StartServer(s) \/ Boot(s) \/ Bind(s) \/ Signal(s) \/ ServerDies(s)
        \/ \E r \in Requests : TakeRequest(s, r)
        \/ Reply(s) \/ RecordEvent(s) \/ NextClient(s)

ServerSpec == ServerInit /\ [][ServerNext]_serverVars

-----------------------------------------------------------------------------
EventNames == {"ASK", "TEACH", "USER_FEEDBACK"}
BlockIds == [event : EventNames \cup {"none", "BOOT"}, by : Nat, place : Nat]
Items ==
    {[event |-> "reply"]}
    \cup [event : EventNames, size : {x.size : x \in UNION {Range(Leaves(r)) : r \in Requests}},
          place : Nat]

ServerStates ==
    [at : {"down", "boot", "bind", "accept", "work"}, ready : BOOLEAN, running : BOOLEAN,
     next : Nat, last : BlockIds, todo : Seq(Items), nth : Nat, since : Nat, total : Nat,
     hits : Nat, misses : Nat, late : Nat]

ServerOK ==
    /\ servers \in [Servers -> ServerStates]
    /\ genome \in Seq([id : BlockIds, prev : BlockIds]) /\ fragment \in BOOLEAN
    /\ taken \in Seq(Requests) /\ answered \cup finished \subseteq DOMAIN taken
    /\ starts \in 0..MaxStarts /\ trouble \in {"none", "write", "doubled"}

\* Places, in what it was to leave, of what a request left.
LeftBy(n) == {genome[i].id.place : i \in {j \in DOMAIN genome : genome[j].id.by = n}}

\* Those of them that a payload has room for.
Fitting(r) == {i \in DOMAIN Leaves(r) : Leaves(r)[i].size <= Room}

\* Those that a server has yet to record.
Due(s) == {servers[s].todo[i].place :
             i \in {j \in DOMAIN servers[s].todo : servers[s].todo[j].event # "reply"}}

\* While no write fails and no second server is started, each start can read the
\* genome, which tells of the requests in their order.  Of a request that is done it
\* holds every event there is room for, also those behind one too long; of a
\* lesson or an opinion as soon as it is answered; of one that was cut off, the
\* first of them.
RequestsAreRecorded ==
    trouble = "none" =>
        /\ Whole
        /\ \A i, j \in DOMAIN genome :
            i < j /\ genome[j].id.by > 0 => genome[i].id.by <= genome[j].id.by
        /\ \A n \in DOMAIN taken :
            /\ LeftBy(n) \subseteq Fitting(taken[n])
            /\ \A p \in Fitting(taken[n]), q \in LeftBy(n) : p <= q => p \in LeftBy(n)
            /\ n \in finished \/ (n \in answered /\ taken[n].kind # "search") =>
                LeftBy(n) = Fitting(taken[n])

\* One failed write costs one event, or the genome from there on, and of what can
\* be read nothing is told twice or out of its order.  A second server, which finds
\* the port taken only after it has written that it started, can break the chain, but
\* only if a request came in between.
TroubleIsBounded ==
    /\ \A i, j \in DOMAIN genome :
        i < j /\ genome[i].id.by = genome[j].id.by /\ genome[j].id.by > 0 =>
            genome[i].id.place < genome[j].id.place
    /\ \A n \in finished : trouble = "write" /\ ~fragment =>
        Cardinality(Fitting(taken[n]) \ LeftBy(n)) <= 1
    /\ (\E i \in DOMAIN genome : ~Linked(i)) => trouble = "doubled" /\ taken # <<>>

\* A server that serves has counted the requests since it began, each search as one
\* that found something or one that did not, and takes one at most after a signal.
CountersAgree ==
    \A s \in Servers :
        servers[s].at \in {"accept", "work"} =>
            LET since == servers[s].since + 1..Len(taken)
            IN  /\ servers[s].total = Cardinality(since)
                /\ servers[s].hits + servers[s].misses
                    = Cardinality({n \in since : taken[n].kind = "search"})
                /\ servers[s].late <= 1

ServerKeepsFaith == RequestsAreRecorded /\ TroubleIsBounded /\ CountersAgree

-----------------------------------------------------------------------------
(* The inductive invariant *)

Up(s) == servers[s].at # "down"
Serves(s) == servers[s].at \in {"accept", "work"}

\* One server has the port, and by itself it knows where the genome ends.
WritersInv ==
    /\ \A s, t \in Servers : Serves(s) /\ Serves(t) => s = t
    /\ fragment => trouble = "write"
    /\ trouble # "doubled" => \A s, t \in Servers : Up(s) /\ Up(t) => s = t
    /\ ~fragment => \A s \in Servers : Up(s) =>
        /\ servers[s].next \in 1..Len(genome) + 1
        /\ trouble # "doubled" => /\ servers[s].ready
                                  /\ servers[s].next = Len(genome) + 1
                                  /\ servers[s].last = IdBefore(Len(genome) + 1)

\* Two that have not written yet that they started began at the same place.
BootsInv ==
    trouble = "doubled" /\ taken = <<>> =>
        \A s \in Servers : servers[s].at = "boot" =>
            /\ servers[s].next \in {Len(genome), Len(genome) + 1}
            /\ servers[s].last = IdBefore(servers[s].next)
            /\ \A t \in Servers : servers[t].at = "boot" => servers[t].next = servers[s].next

\* What a server is at is the last request, and what it has yet to record comes
\* after what it has recorded, the answer to anything but a search last of all.
WorkInv ==
    \A s \in Servers :
        LET todo == servers[s].todo
            n == Len(taken)
        IN  /\ servers[s].at # "work" => todo = <<>>
            /\ servers[s].at = "work" =>
                /\ n > 0 /\ n \notin finished
                /\ \A i \in DOMAIN todo : todo[i].event # "reply" =>
                    /\ todo[i].place \in DOMAIN Leaves(taken[n])
                    /\ todo[i].size = Leaves(taken[n])[todo[i].place].size
                    /\ \A j \in DOMAIN todo : i < j /\ todo[j].event # "reply" =>
                        todo[i].place < todo[j].place
                /\ taken[n].kind # "search" => /\ \A i \in DOMAIN todo : todo[i].event = "reply" => i = Len(todo)
                                               /\ n \in answered => Due(s) = {}
                /\ \A i \in DOMAIN genome : genome[i].id.by = n => i < servers[s].next
                /\ \A p \in LeftBy(n), q \in Due(s) : p < q

\* Of each request that is done or being done, all was recorded but what is due.
RecordedInv ==
    /\ \A i \in DOMAIN genome : genome[i].id.by <= Len(taken)
    /\ \A s \in Servers : servers[s].at = "work" => LET r == taken[Len(taken)] IN
        /\ trouble = "none" => Fitting(r) \subseteq LeftBy(Len(taken)) \cup Due(s)
        /\ trouble = "write" /\ ~fragment =>
            \A p, q \in Fitting(r) \ (LeftBy(Len(taken)) \cup Due(s)) : p = q
    /\ \A n \in finished : trouble = "write" /\ ~fragment =>
            \A p, q \in Fitting(taken[n]) \ LeftBy(n) : p = q

\* A server that does not serve yet has counted nothing, and one that was told to
\* stop has one client at most.
CountsInv ==
    \A s \in Servers :
        /\ servers[s].since <= Len(taken)
        /\ servers[s].at \in {"boot", "bind"} =>
            servers[s].running /\ servers[s].total = 0 /\ servers[s].hits = 0 /\ servers[s].misses = 0
        /\ servers[s].at # "work" \/ servers[s].running => servers[s].late = 0

ServerInv ==
    ServerOK /\ WritersInv /\ BootsInv /\ WorkInv /\ RecordedInv /\ CountsInv /\ ServerKeepsFaith

-----------------------------------------------------------------------------
\* The search of the index finds the best, the server's genome tells of its requests.
KnowledgeIsServed == BestAreFound /\ ServerKeepsFaith
=============================================================================
