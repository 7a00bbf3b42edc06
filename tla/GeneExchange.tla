---------------------------- MODULE GeneExchange ----------------------------
(***************************************************************************)
(* How genes travel: backend/src/net.c under the loops of                   *)
(* apps/kolibri_node.c and apps/kolibri_coordinator.c.  Each process is one *)
(* thread that polls its listener, then does something else, and both       *)
(* halves block: a poll reads a connection to its rule or its end, sharing  *)
(* waits until the other side's queue of connections has a place.           *)
(*                                                                         *)
(* Every rule goes over a connection of its own.  What a node's best gene   *)
(* is and what fitness it has are the pool's affair (FormulaPool): here a   *)
(* node may send any rule.  Greetings change nothing and are left out.      *)
(* Nothing starts a process again but somebody who wants it; that a host    *)
(* vanishes without closing its connections is left out.                    *)
(***************************************************************************)
EXTENDS Integers, Sequences, FiniteSets

CONSTANTS
    Nodes,
    Coordinator,
    GeneIds,        \* the genes there are
    NoGene,         \* no gene yet
    RulesOf,        \* RulesOf[n]: what node n may send, genes and the fitness it claims
    Targets,        \* the sequence of nodes the coordinator was given
    Neighbour,      \* Neighbour[n]: whom node n shares with, its --peer
    Backlog,        \* connections a listener keeps waiting, 4 in the code
    MaxShares,      \* bound: rules that nodes send
    MaxFaults       \* bound: processes that die, and sends that fail

Processes == Nodes \cup {Coordinator}
Rules == [gene: GeneIds, fitness: Nat]
Nobody == [gene |-> NoGene, fitness |-> -1]
Unused == [from |-> Coordinator, at |-> "unused", rule |-> Nobody]

ASSUME ExchangeAssumption ==
    /\ Coordinator \notin Nodes /\ NoGene \notin GeneIds
    /\ Targets \in Seq(Nodes) /\ Targets # <<>>
    /\ RulesOf \in [Nodes -> SUBSET Rules]
    /\ Neighbour \in [Nodes -> Processes] /\ \A n \in Nodes : Neighbour[n] # n
    /\ Backlog \in Nat \ {0} /\ MaxShares \in Nat /\ MaxFaults \in Nat

VARIABLES
    heard,          \* the coordinator's best and its fitness
    loop,           \* what p is at: "poll", "serve", "act", "connect" or "send"; or "down"
    peer,           \* peer[s]: whom s sends to
    targets,        \* targets the coordinator still has to send to
    queue,          \* queue[p]: the connections that wait for p
    served,         \* served[p]: the connection p is reading
    taken,          \* history: genes n has taken into its pool since it was started
    shares,
    faults

exchangeVars == <<heard, loop, peer, targets, queue, served, taken, shares, faults>>

ExchangeInit ==
    /\ heard = Nobody
    /\ loop = [p \in Processes |-> "poll"]
    /\ peer = [p \in Processes |-> p]
    /\ targets = <<>>
    /\ queue = [p \in Processes |-> <<>>]
    /\ served = [p \in Processes |-> Unused]
    /\ taken = [n \in Nodes |-> {}]
    /\ shares = 0
    /\ faults = 0

-----------------------------------------------------------------------------
(* Connections *)

\* The connection that s is at the other end of, and has not closed, comes to this.
Closed(c, s, at, rule) ==
    IF c.from = s /\ c.at = "open" THEN [from |-> s, at |-> at, rule |-> rule] ELSE c

\* s closes it, its rule on it or not; whoever has it in his queue or reads it may
\* have died.
Close(s, at, rule) ==
    /\ queue' = [p \in Processes |->
                    [i \in DOMAIN queue[p] |-> Closed(queue[p][i], s, at, rule)]]
    /\ served' = [p \in Processes |-> Closed(served[p], s, at, rule)]

Reaches(s) ==
    \/ \E i \in DOMAIN queue[peer[s]] :
        queue[peer[s]][i].from = s /\ queue[peer[s]][i].at = "open"
    \/ served[peer[s]].from = s /\ served[peer[s]].at = "open"

-----------------------------------------------------------------------------
(* Receiving: kn_listener_poll *)

\* p may turn to something else: its poll is over, or would find nothing.
Free(p) == loop[p] = "act" \/ (loop[p] = "poll" /\ queue[p] = <<>>)

Accept(p) ==
    /\ loop[p] = "poll" /\ queue[p] # <<>>
    /\ served' = [served EXCEPT ![p] = Head(queue[p])]
    /\ queue' = [queue EXCEPT ![p] = Tail(queue[p])]
    /\ loop' = [loop EXCEPT ![p] = "serve"]
    /\ UNCHANGED <<heard, peer, targets, taken, shares, faults>>

Served(p, at) ==
    /\ loop[p] = "serve"
    /\ served[p].at = at
    /\ served' = [served EXCEPT ![p] = Unused]
    /\ loop' = [loop EXCEPT ![p] = "act"]
    /\ UNCHANGED <<peer, targets, queue, shares, faults>>

\* The coordinator keeps what claims to be strictly better than all before.
Compare ==
    /\ Served(Coordinator, "rule")
    /\ heard' = IF served[Coordinator].rule.fitness > heard.fitness
                THEN served[Coordinator].rule
                ELSE heard
    /\ UNCHANGED taken

\* A node takes the gene into its pool.
ImportRule(n) ==
    /\ Served(n, "rule")
    /\ taken' = [taken EXCEPT ![n] = @ \cup {served[n].rule.gene}]
    /\ UNCHANGED heard

\* The connection ended before a rule.
NoRule(p) ==
    /\ Served(p, "broken")
    /\ UNCHANGED <<heard, taken>>

-----------------------------------------------------------------------------
(* Sending: kn_share_formula *)

StartSharing(s, to) ==
    /\ loop' = [loop EXCEPT ![s] = "connect"]
    /\ peer' = [peer EXCEPT ![s] = to]
    /\ UNCHANGED <<heard, queue, served, taken, faults>>

\* A node sends its best gene to its neighbour.
Share(n) ==
    /\ Free(n)
    /\ shares < MaxShares
    /\ shares' = shares + 1
    /\ StartSharing(n, Neighbour[n])
    /\ UNCHANGED targets

\* The coordinator sends what it heard to all targets, one after the other.
Broadcast ==
    /\ Free(Coordinator)
    /\ heard # Nobody
    /\ targets = <<>>
    /\ targets' = Targets
    /\ loop' = [loop EXCEPT ![Coordinator] = "act"]
    /\ UNCHANGED <<heard, peer, queue, served, taken, shares, faults>>

BroadcastNext ==
    /\ loop[Coordinator] = "act"
    /\ targets # <<>>
    /\ targets' = Tail(targets)
    /\ StartSharing(Coordinator, Head(targets))
    /\ UNCHANGED shares

\* The kernel of the other side lets s wait until there is a place.
Connect(s) ==
    /\ loop[s] = "connect"
    /\ loop[peer[s]] # "down"
    /\ Len(queue[peer[s]]) < Backlog
    /\ queue' = [queue EXCEPT ![peer[s]] =
                    Append(@, [from |-> s, at |-> "open", rule |-> Nobody])]
    /\ loop' = [loop EXCEPT ![s] = "send"]
    /\ UNCHANGED <<heard, peer, targets, served, taken, shares, faults>>

\* The coordinator goes on to the next target, or to its next poll as a node does.
AfterSharing(s) ==
    /\ loop' = [loop EXCEPT ![s] = IF s = Coordinator /\ targets # <<>> THEN "act" ELSE "poll"]
    /\ UNCHANGED <<heard, peer, taken, shares>>

\* Mutant of ConnectFails: the coordinator does not go on to the other targets.
MutConnectFails(s) ==
    /\ loop[s] = "connect"
    /\ loop[peer[s]] = "down" \/ Len(queue[peer[s]]) >= Backlog
    /\ loop' = [loop EXCEPT ![s] = "poll"]
    /\ targets' = IF s = Coordinator THEN <<>> ELSE targets
    /\ UNCHANGED <<heard, peer, taken, shares, queue, served, faults>>

\* Nobody listens, or the queue was full for minutes.
ConnectFails(s) ==
    /\ loop[s] = "connect"
    /\ loop[peer[s]] = "down" \/ Len(queue[peer[s]]) >= Backlog
    /\ AfterSharing(s)
    /\ UNCHANGED <<targets, queue, served, faults>>

\* What s has to send.
Claims(s) == IF s = Coordinator THEN {heard} ELSE RulesOf[s]

\* Mutant of SendFails: the connection is left open.
MutSendFails(s) ==
    /\ loop[s] = "send"
    /\ faults < MaxFaults
    /\ faults' = faults + 1
    /\ AfterSharing(s)
    /\ UNCHANGED <<targets, queue, served>>

\* The rule goes out and the connection is closed; if the other side has died, send
\* fails ...
Send(s) ==
    /\ loop[s] = "send"
    /\ \E rule \in Claims(s) : Close(s, "rule", rule)
    /\ AfterSharing(s)
    /\ UNCHANGED <<targets, faults>>

\* ... as it may otherwise; the connection is closed without a rule.
SendFails(s) ==
    /\ loop[s] = "send"
    /\ faults < MaxFaults
    /\ faults' = faults + 1
    /\ Close(s, "broken", Nobody)
    /\ AfterSharing(s)
    /\ UNCHANGED targets

-----------------------------------------------------------------------------
(* The rest of the loops *)

\* No command, and no timer has run out.
Turn(p) ==
    /\ loop[p] = "act"
    /\ p = Coordinator => targets = <<>>
    /\ loop' = [loop EXCEPT ![p] = "poll"]
    /\ UNCHANGED <<heard, peer, targets, queue, served, taken, shares, faults>>

\* A process ends, and its connections with it.
Dies(p) ==
    /\ queue' = [q \in Processes |-> IF q = p THEN <<>> ELSE
                    [i \in DOMAIN queue[q] |-> Closed(queue[q][i], p, "broken", Nobody)]]
    /\ served' = [q \in Processes |-> IF q = p THEN Unused ELSE
                    Closed(served[q], p, "broken", Nobody)]
    /\ loop' = [loop EXCEPT ![p] = "down"]
    /\ IF p = Coordinator
       THEN heard' = Nobody /\ targets' = <<>> /\ UNCHANGED taken
       ELSE taken' = [taken EXCEPT ![p] = {}] /\ UNCHANGED <<heard, targets>>
    /\ UNCHANGED <<peer, shares>>

Crash(p) ==
    /\ loop[p] # "down"
    /\ faults < MaxFaults
    /\ faults' = faults + 1
    /\ Dies(p)

\* SIGPIPE, which nobody handles: s sends to one who has died.
Killed(s) ==
    /\ loop[s] = "send"
    /\ ~Reaches(s)
    /\ Dies(s)
    /\ UNCHANGED faults

\* Somebody starts it again.
Start(p) ==
    /\ loop[p] = "down"
    /\ loop' = [loop EXCEPT ![p] = "poll"]
    /\ UNCHANGED <<heard, peer, targets, queue, served, taken, shares, faults>>

Step(p) == Accept(p) \/ NoRule(p) \/ Connect(p) \/ ConnectFails(p) \/ Send(p) \/ Turn(p)

CoordinatorStep == Compare \/ BroadcastNext

ExchangeNext ==
    \/ \E p \in Processes : Step(p) \/ SendFails(p) \/ Crash(p) \/ Killed(p) \/ Start(p)
    \/ CoordinatorStep \/ Broadcast
    \/ \E n \in Nodes : ImportRule(n) \/ Share(n)

\* Each loop goes on, its timer runs out again, and the kernel does not let a
\* connect wait for ever.
ExchangeFairness ==
    /\ \A p \in Processes : WF_exchangeVars(Step(p))
    /\ WF_exchangeVars(CoordinatorStep) /\ WF_exchangeVars(Broadcast)
    /\ \A n \in Nodes : WF_exchangeVars(ImportRule(n))

ExchangeSpec == ExchangeInit /\ [][ExchangeNext]_exchangeVars /\ ExchangeFairness

-----------------------------------------------------------------------------
Connections == [from: Processes, at: {"unused", "open", "rule", "broken"}, rule: Rules \cup {Nobody}]

ExchangeOK ==
    /\ heard \in Rules \cup {Nobody}
    /\ loop \in [Processes -> {"poll", "serve", "act", "connect", "send", "down"}]
    /\ peer \in [Processes -> Processes]
    /\ targets \in Seq(Nodes)
    /\ queue \in [Processes -> Seq(Connections)]
    /\ \A p \in Processes : Len(queue[p]) <= Backlog
    /\ served \in [Processes -> Connections]
    /\ taken \in [Nodes -> SUBSET GeneIds]
    /\ shares \in 0..MaxShares
    /\ faults \in 0..MaxFaults

\* s is at work on a connection to p.
SendsTo(s, p) == loop[s] = "send" /\ peer[s] = p

\* Why nobody waits for ever in recv (net.c:73): a connection that is open, in the queue
\* of its listener or being read, has its sender at work on it, whoever died or failed to
\* send in between, and it is the only one that sender has.
OpenOnesAreSent ==
    \A p \in Processes :
        /\ \A i \in DOMAIN queue[p] : queue[p][i].at = "open" => SendsTo(queue[p][i].from, p)
        /\ served[p].at = "open" => SendsTo(served[p].from, p)
        /\ \A i, j \in DOMAIN queue[p] :
            /\ queue[p][i].at = "open" /\ queue[p][j].at = "open"
               /\ queue[p][i].from = queue[p][j].from => i = j
        /\ \A i \in DOMAIN queue[p] :
            ~(queue[p][i].at = "open" /\ served[p].at = "open"
              /\ queue[p][i].from = served[p].from)

\* A process reads a connection while it serves and at no other time; who is down has none.
\* A rule that arrives is one, and the coordinator sends only when it has heard of one.
ServingInv ==
    /\ \A p \in Processes :
        /\ loop[p] = "serve" <=> served[p].at # "unused"
        /\ loop[p] = "down" => queue[p] = <<>>
        /\ \A i \in DOMAIN queue[p] :
            /\ queue[p][i].at # "unused"
            /\ queue[p][i].at = "rule" => queue[p][i].rule # Nobody
        /\ served[p].at = "rule" => served[p].rule # Nobody
    /\ loop[Coordinator] \in {"connect", "send"} \/ targets # <<>> => heard # Nobody

\* The loops keep their shape, whoever shares with whom, blocks, fails to connect or dies.
ExchangeInv == ExchangeOK /\ OpenOnesAreSent /\ ServingInv

\* What the coordinator heard of is taken in by every target in time, unless the
\* coordinator hears of something better or dies, or the target is down when its turn
\* comes: although the loops block on each other, connects fail, processes die, some of
\* them because others have, and nobody need start them again.
BestSpreads ==
    \A i \in DOMAIN Targets, g \in GeneIds :
        heard.gene = g ~> \/ heard.gene # g
                          \/ loop[Targets[i]] = "down"
                          \/ g \in taken[Targets[i]]
=============================================================================
