--------------------------- MODULE FeedbackService ---------------------------
(***************************************************************************)
(* backend/feedback_service: each opinion a client sends is inserted into a *)
(* database and then appended to the RLHF dataset, one JSON object on a     *)
(* line.  Requests are coroutines of one loop, the inserts and the appends  *)
(* run in threads, so that requests overlap wherever they await.  The client *)
(* of the database is made by the first request that needs one, under a lock *)
(* and after a second look.                                                *)
(* A record is its number; its texts are left out.                          *)
(***************************************************************************)
EXTENDS Integers, Sequences, FiniteSets

CONSTANTS
    Posts,          \* requests that may be at work at once
    MaxPosts,       \* bound: requests
    MaxMishaps      \* bound: failures of the database and the disk, and crashes

ASSUME FeedbackAssumption == MaxPosts \in Nat /\ MaxMishaps \in Nat

VARIABLES
    post,           \* post[p]: where the request stands, and its record
    lockHeld,       \* _lock
    client,         \* 0, or the number of the client in _client / _pool
    clients,        \* history: clients made since the service started
    stored,         \* rows of the feedback table
    dataset,        \* the file: [id, part], part "line" or "cut"
    posts,          \* history: records made, numbers the next
    thanked,        \* history: records answered with 201
    mishaps

feedbackVars == <<post, lockHeld, client, clients, stored, dataset, posts, thanked, mishaps>>

Away == [at |-> "away", id |-> 0]

FeedbackInit ==
    /\ post = [p \in Posts |-> Away]
    /\ lockHeld = FALSE /\ client = 0 /\ clients = 0
    /\ stored = {} /\ dataset = <<>>
    /\ posts = 0 /\ thanked = {} /\ mishaps = 0

Mishap == mishaps < MaxMishaps /\ mishaps' = mishaps + 1

\* The request stands at a place and goes on to the next.
Moves(p, from, to) ==
    /\ post[p].at = from
    /\ post' = [post EXCEPT ![p].at = to]

\* submit_feedback, _ensure_client: a client is there, or the lock is waited for.
Submit(p) ==
    /\ posts < MaxPosts
    /\ posts' = posts + 1
    /\ post[p] = Away
    /\ post' = [post EXCEPT ![p] = [id |-> posts',
                                    at |-> IF client = 0 THEN "lock" ELSE "insert"]]
    /\ UNCHANGED <<lockHeld, client, clients, stored, dataset, thanked, mishaps>>

\* Mutant of SecondLook: it is left out.
MutSecondLook == FALSE

\* Under the lock: another request has made the client meanwhile.
SecondLook == client # 0

TakeLock(p) ==
    /\ ~lockHeld
    /\ \/ SecondLook /\ Moves(p, "lock", "insert") /\ UNCHANGED lockHeld
       \/ ~SecondLook /\ Moves(p, "lock", "connect") /\ lockHeld' = TRUE
    /\ UNCHANGED <<client, clients, stored, dataset, posts, thanked, mishaps>>

Connect(p) ==
    /\ lockHeld' = FALSE
    /\ \/ /\ Moves(p, "connect", "insert")
          /\ clients' = clients + 1 /\ client' = clients'
          /\ UNCHANGED mishaps
       \/ Moves(p, "connect", "refuse") /\ Mishap /\ UNCHANGED <<client, clients>>
    /\ UNCHANGED <<stored, dataset, posts, thanked>>

\* save_feedback.  An insert that raises may have been carried out.
Insert(p) ==
    /\ \/ /\ Moves(p, "insert", "append")
          /\ stored' = stored \cup {post[p].id}
          /\ UNCHANGED mishaps
       \/ /\ Moves(p, "insert", "refuse") /\ Mishap
          /\ stored' \in {stored, stored \cup {post[p].id}}
    /\ UNCHANGED <<lockHeld, client, clients, dataset, posts, thanked>>

\* The file, with a record behind what it holds: mode "a".
Grown(part, p) == Append(dataset, [id |-> post[p].id, part |-> part])

\* _append_sync: the line goes to the end of the file, or a part of it does.
AppendLine(p) ==
    /\ \/ /\ Moves(p, "append", "thank")
          /\ dataset' = Grown("line", p)
          /\ UNCHANGED mishaps
       \/ /\ Moves(p, "append", "refuse") /\ Mishap
          /\ dataset' \in {dataset, Grown("cut", p)}
    /\ UNCHANGED <<lockHeld, client, clients, stored, posts, thanked>>

\* 201; or 500, and the client may send the same again, which makes a new record.
Respond(p) ==
    /\ post[p].at \in {"thank", "refuse"}
    /\ thanked' = IF post[p].at = "thank" THEN thanked \cup {post[p].id} ELSE thanked
    /\ post' = [post EXCEPT ![p] = Away]
    /\ UNCHANGED <<lockHeld, client, clients, stored, dataset, posts, mishaps>>

\* The service dies and is started again; what the threads were at may be done, and
\* the last line they were writing only begun.
ServiceDies ==
    LET at(place) == {p \in Posts : post[p].at = place}
        orders == {q \in UNION {[1..n -> at("append")] : n \in 0..Cardinality(at("append"))} :
                    \A i, j \in DOMAIN q : q[i] = q[j] => i = j}
    IN  /\ \E p \in Posts : post[p] # Away
        /\ Mishap
        /\ \E done \in SUBSET at("insert") : stored' = stored \cup {post[p].id : p \in done}
        /\ \E q \in orders, last \in {"line", "cut"} :
            dataset' = dataset \o [i \in DOMAIN q |->
                [id |-> post[q[i]].id, part |-> IF i = Len(q) THEN last ELSE "line"]]
        /\ post' = [p \in Posts |-> Away]
        /\ lockHeld' = FALSE /\ client' = 0 /\ clients' = 0
        /\ UNCHANGED <<posts, thanked>>

FeedbackNext ==
    \/ \E p \in Posts :
        Submit(p) \/ TakeLock(p) \/ Connect(p) \/ Insert(p) \/ AppendLine(p) \/ Respond(p)
    \/ ServiceDies

FeedbackSpec == FeedbackInit /\ [][FeedbackNext]_feedbackVars

-----------------------------------------------------------------------------
Stations == {"away", "lock", "connect", "insert", "append", "thank", "refuse"}
Line == [id: Nat, part: {"line", "cut"}]

FeedbackOK ==
    /\ post \in [Posts -> [at: Stations, id: 0..posts]]
    /\ lockHeld \in BOOLEAN
    /\ client \in Nat /\ clients \in Nat
    /\ posts \in 0..MaxPosts /\ mishaps \in 0..MaxMishaps
    /\ stored \subseteq 1..posts /\ thanked \subseteq stored
    /\ dataset \in Seq(Line)

InDataset(id) == \E i \in DOMAIN dataset : dataset[i].id = id
HasLine(id) == \E i \in DOMAIN dataset : dataset[i] = [id |-> id, part |-> "line"]

\* Each request has a record of its own, and the record is where the request is.
RecordsInv ==
    /\ \A p \in Posts : post[p].at = "away" <=> post[p].id = 0
    /\ \A p, r \in Posts : post[p].id = post[r].id /\ post[p].id # 0 => p = r
    /\ \A p \in Posts :
        /\ post[p].at \in {"lock", "connect", "insert"} => post[p].id \notin stored
        /\ post[p].at \in {"append", "thank"} => post[p].id \in stored
        /\ post[p].at = "append" => ~InDataset(post[p].id)
        /\ post[p].at = "thank" => HasLine(post[p].id)
    /\ \A i \in DOMAIN dataset : dataset[i].id \in stored
    /\ \A i, j \in DOMAIN dataset : dataset[i].id = dataset[j].id => i = j
    /\ \A id \in thanked : HasLine(id)

\* One request at a time makes the client, and only while there is none.
ClientInv ==
    /\ client = clients /\ clients \in 0..1
    /\ \A p, r \in Posts : post[p].at = "connect" /\ post[r].at = "connect" => p = r
    /\ \A p \in Posts : post[p].at = "connect" => lockHeld /\ client = 0

FeedbackInv == FeedbackOK /\ RecordsInv /\ ClientInv

\* What a reader of the dataset gets: a line glued to a cut one is lost with it.
Readable ==
    {dataset[i].id : i \in {j \in DOMAIN dataset :
        dataset[j].part = "line" /\ (j > 1 => dataset[j - 1].part = "line")}}

\* However requests overlap and fail: the dataset tells of no opinion that the
\* database has not; it has each once; whoever got a 201 is in both, unless his line
\* stands behind a cut one; and no client of the database is made while there
\* is one, which would leave its connections open.
OpinionsAreKept ==
    /\ \A i \in DOMAIN dataset : dataset[i].id \in stored
    /\ \A i, j \in DOMAIN dataset : dataset[i].id = dataset[j].id => i = j
    /\ thanked \subseteq stored
    /\ \A id \in thanked \ Readable :
        \E i \in DOMAIN dataset : dataset[i] = [id |-> id, part |-> "line"]
                                  /\ i > 1 /\ dataset[i - 1].part = "cut"
    /\ clients <= 1
=============================================================================
