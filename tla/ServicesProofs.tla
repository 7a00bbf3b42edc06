--------------------------- MODULE ServicesProofs ---------------------------
(***************************************************************************)
(* Parts that share no state, each by itself: why the feedback service       *)
(* keeps no opinion in the dataset alone, twice, or loses one it answered    *)
(* with 201; why the log ring of the simulation and the file of its soak     *)
(* tell what was logged, in order; why the Python ledger is read back as it  *)
(* was written, up to a torn frame, wherever a write failed; why the cloud   *)
(* storage charges each user for the files it lists under his name, and,    *)
(* request by request, loses none; why no digits of a symbol table ever     *)
(* mean another symbol; why a swarm of simulators spreads to all what any   *)
(* of them knew and replaces no formula; and why the events of a script     *)
(* confirm only the answer just given, and guesses replace no lesson.       *)
(***************************************************************************)
EXTENDS FeedbackService, SimLog, Ledger, CloudStorage, SymbolTable, PythonSwarm,
        KolibriScript, Extremes, SequenceTheorems, FiniteSetTheorems, TLAPS

-----------------------------------------------------------------------------
(* The feedback service *)

\* A service that starts has the invariant; then one lemma an action.
LEMMA FeedbackStart == FeedbackInit => FeedbackInv
  <1> SUFFICES ASSUME FeedbackInit PROVE FeedbackInv
    OBVIOUS
  <1>1. \A p \in Posts : post[p] = [at |-> "away", id |-> 0]
    BY DEF FeedbackInit, Away
  <1>2. posts = 0 /\ mishaps = 0 /\ 0 \in 0..MaxPosts /\ 0 \in 0..MaxMishaps
    BY FeedbackAssumption DEF FeedbackInit
  <1>3. dataset \in Seq(Line) /\ DOMAIN dataset = {}
    BY DEF FeedbackInit
  <1>4. FeedbackOK
    <2>1. post \in [Posts -> [at: Stations, id: 0..posts]]
      BY <1>2 DEF FeedbackInit, Away, Stations
    <2> QED BY <2>1, <1>2, <1>3 DEF FeedbackInit, FeedbackOK
  <1>5. RecordsInv
    BY <1>1, <1>3 DEF FeedbackInit, RecordsInv
  <1>6. ClientInv
    BY <1>1 DEF FeedbackInit, ClientInv
  <1> QED BY <1>4, <1>5, <1>6 DEF FeedbackInv

\* A request that moves keeps its record, and the others stay where they are.
LEMMA Moved ==
    ASSUME FeedbackOK, NEW p \in Posts, NEW from \in Stations, NEW to \in Stations, Moves(p, from, to)
    PROVE  /\ post' \in [Posts -> [at: Stations, id: 0..posts]]
           /\ post[p].at = from /\ post'[p] = [at |-> to, id |-> post[p].id]
           /\ \A r \in Posts : r # p => post'[r] = post[r]
           /\ \A r \in Posts : post'[r].id = post[r].id
  <1>1. post \in [Posts -> [at: Stations, id: 0..posts]]
    BY DEF FeedbackOK
  <1>2. post' = [post EXCEPT ![p].at = to] /\ post[p].at = from
    BY DEF Moves
  <1>3. post'[p] = [post[p] EXCEPT !.at = to] /\ post[p] \in [at: Stations, id: 0..posts]
    BY <1>1, <1>2
  <1>4. post'[p] = [at |-> to, id |-> post[p].id]
    BY <1>3
  <1>5. \A r \in Posts : r # p => post'[r] = post[r]
    BY <1>1, <1>2
  <1>6. \A r \in Posts : post'[r].id = post[r].id
    BY <1>4, <1>5
  <1>7. post' \in [Posts -> [at: Stations, id: 0..posts]]
    BY <1>1, <1>2, <1>3
  <1> QED BY <1>2, <1>4, <1>5, <1>6, <1>7

\* The dataset after lines of records that are in no line yet: what it told is told
\* still, and it has each record once.
LEMMA LinesAdded ==
    ASSUME FeedbackOK, RecordsInv, NEW more \in Seq(Line), dataset' = dataset \o more,
           stored \subseteq stored', 
           \A k \in DOMAIN more : more[k].id \in stored' /\ ~InDataset(more[k].id),
           \A k, m \in DOMAIN more : more[k].id = more[m].id => k = m
    PROVE  /\ dataset' \in Seq(Line)
           /\ \A i \in DOMAIN dataset' : dataset'[i].id \in stored'
           /\ \A i, j \in DOMAIN dataset' : dataset'[i].id = dataset'[j].id => i = j
           /\ \A id : HasLine(id) => HasLine(id)'
           /\ \A id : InDataset(id)' => InDataset(id) \/ \E k \in DOMAIN more : more[k].id = id
           /\ \A k \in DOMAIN more : dataset'[Len(dataset) + k] = more[k] /\ Len(dataset) + k \in DOMAIN dataset'
  <1>1. /\ dataset \in Seq(Line) /\ Len(dataset) \in Nat /\ DOMAIN dataset = 1..Len(dataset)
        /\ Len(more) \in Nat /\ DOMAIN more = 1..Len(more)
    BY DEF FeedbackOK
  <1>2. dataset' \in Seq(Line) /\ DOMAIN dataset' = 1..Len(dataset) + Len(more)
    BY <1>1
  <1>3. \A i \in DOMAIN dataset : i \in DOMAIN dataset' /\ dataset'[i] = dataset[i]
    BY <1>1, <1>2
  <1>4. \A k \in DOMAIN more : Len(dataset) + k \in DOMAIN dataset' /\ dataset'[Len(dataset) + k] = more[k]
    BY <1>1, <1>2
  <1>5. \A i \in DOMAIN dataset' : i \notin DOMAIN dataset =>
            i - Len(dataset) \in DOMAIN more /\ dataset'[i] = more[i - Len(dataset)]
    BY <1>1, <1>2
  <1>6. \A i \in DOMAIN dataset' : dataset'[i].id \in stored'
    BY <1>3, <1>5 DEF RecordsInv
  <1>7. ASSUME NEW i \in DOMAIN dataset', NEW j \in DOMAIN dataset', dataset'[i].id = dataset'[j].id
        PROVE  i = j
    <2>1. CASE i \in DOMAIN dataset /\ j \in DOMAIN dataset
      BY <1>3, <1>7, <2>1 DEF RecordsInv
    <2>2. CASE i \in DOMAIN dataset /\ j \notin DOMAIN dataset
      BY <1>3, <1>5, <1>7, <2>2 DEF InDataset
    <2>3. CASE i \notin DOMAIN dataset /\ j \in DOMAIN dataset
      BY <1>3, <1>5, <1>7, <2>3 DEF InDataset
    <2>4. CASE i \notin DOMAIN dataset /\ j \notin DOMAIN dataset
      <3>1. i - Len(dataset) = j - Len(dataset)
        BY <1>5, <1>7, <2>4
      <3> QED BY <1>1, <1>2, <3>1
    <2> QED BY <2>1, <2>2, <2>3, <2>4
  <1>8. \A id : HasLine(id) => HasLine(id)'
    BY <1>3 DEF HasLine
  <1>9. \A id : InDataset(id)' => InDataset(id) \/ \E k \in DOMAIN more : more[k].id = id
    BY <1>3, <1>5 DEF InDataset
  <1> QED BY <1>2, <1>4, <1>6, <1>7, <1>8, <1>9

\* The table and the dataset are left alone.
LEMMA RecordsLeft ==
    ASSUME RecordsInv, UNCHANGED <<dataset, stored, thanked>>
    PROVE  /\ \A i \in DOMAIN dataset' : dataset'[i].id \in stored'
           /\ \A i, j \in DOMAIN dataset' : dataset'[i].id = dataset'[j].id => i = j
           /\ \A id : HasLine(id)' <=> HasLine(id)
           /\ \A id : InDataset(id)' <=> InDataset(id)
           /\ \A id \in thanked' : HasLine(id)'
  BY DEF RecordsInv, HasLine, InDataset

\* A request comes.
LEMMA SubmitKeeps ==
    ASSUME FeedbackInv, NEW p \in Posts, Submit(p)
    PROVE  FeedbackInv'
  <1> USE DEF FeedbackInv
  <1>1. /\ post \in [Posts -> [at: Stations, id: 0..posts]] /\ posts \in Nat /\ posts' = posts + 1
        /\ posts < MaxPosts /\ post[p] = Away
        /\ UNCHANGED <<lockHeld, client, clients, stored, dataset, thanked, mishaps>>
    BY DEF FeedbackOK, Submit
  <1> DEFINE q == [id |-> posts', at |-> IF client = 0 THEN "lock" ELSE "insert"]
  <1>2. q \in [at: Stations, id: 0..posts'] /\ q.id = posts + 1 /\ q.at \in {"lock", "insert"}
    BY <1>1 DEF Stations
  <1>3. post' = [post EXCEPT ![p] = q]
    BY DEF Submit
  <1> HIDE DEF q
  <1>4. post'[p] = q /\ \A r \in Posts : r # p => post'[r] = post[r]
    BY <1>1, <1>3
  <1>5. \A r \in Posts : post[r] \in [at: Stations, id: 0..posts']
    BY <1>1
  <1>6. post' \in [Posts -> [at: Stations, id: 0..posts']]
    BY <1>1, <1>2, <1>3, <1>5
  <1>7. posts' \in 0..MaxPosts /\ stored' \subseteq 1..posts'
    BY <1>1, FeedbackAssumption DEF FeedbackOK
  <1>8. FeedbackOK'
    BY <1>1, <1>6, <1>7 DEF FeedbackOK
  <1>9. \A r \in Posts : post[r].id \in 0..posts /\ posts + 1 \notin 0..posts /\ posts + 1 # 0
    BY <1>1
  <1>10. posts + 1 \notin stored
    BY <1>1 DEF FeedbackOK
  <1>11. RecordsInv'
    <2>1. \A r \in Posts : post'[r].at = "away" <=> post'[r].id = 0
      BY <1>2, <1>4, <1>9 DEF RecordsInv
    <2>2. \A r, t \in Posts : post'[r].id = post'[t].id /\ post'[r].id # 0 => r = t
      BY <1>2, <1>4, <1>9 DEF RecordsInv
    <2>3. ASSUME NEW r \in Posts
          PROVE  /\ post'[r].at \in {"lock", "connect", "insert"} => post'[r].id \notin stored'
                 /\ post'[r].at \in {"append", "thank"} => post'[r].id \in stored'
                 /\ post'[r].at = "append" => ~InDataset(post[r].id)'
                 /\ post'[r].at = "thank" => HasLine(post[r].id)'
      <3>1. CASE r = p
        BY <1>1, <1>2, <1>4, <1>10, <3>1 DEF InDataset, HasLine
      <3>2. CASE r # p
        BY <1>1, <1>4, <3>2 DEF RecordsInv, InDataset, HasLine
      <3> QED BY <3>1, <3>2
    <2> QED BY <1>1, <2>1, <2>2, <2>3, RecordsLeft DEF RecordsInv
  <1>12. ClientInv'
    BY <1>1, <1>2, <1>4 DEF ClientInv
  <1> QED BY <1>8, <1>11, <1>12

\* A request goes on before its insert, and neither the table nor the dataset changes.
LEMMA EarlyMoveKeeps ==
    ASSUME FeedbackOK, RecordsInv, NEW p \in Posts, NEW from \in {"lock", "connect"},
           NEW to \in {"connect", "insert", "refuse"}, Moves(p, from, to),
           UNCHANGED <<stored, dataset, posts, thanked>>
    PROVE  RecordsInv'
  <1>1. /\ post[p].at = from /\ post'[p] = [at |-> to, id |-> post[p].id]
        /\ \A r \in Posts : r # p => post'[r] = post[r]
        /\ \A r \in Posts : post'[r].id = post[r].id
    BY Moved DEF Stations
  <1>2. post'[p].at = to /\ post'[p].id = post[p].id
    BY <1>1
  <1>3. ASSUME NEW r \in Posts
        PROVE  /\ post'[r].at = "away" <=> post'[r].id = 0
               /\ post'[r].at \in {"lock", "connect", "insert"} => post'[r].id \notin stored'
               /\ post'[r].at \in {"append", "thank"} => post'[r].id \in stored'
               /\ post'[r].at = "append" => ~InDataset(post[r].id)'
               /\ post'[r].at = "thank" => HasLine(post[r].id)'
    <2>1. CASE r = p
      BY <1>1, <1>2, <2>1 DEF RecordsInv
    <2>2. CASE r # p
      BY <1>1, <2>2 DEF RecordsInv, InDataset, HasLine
    <2> QED BY <2>1, <2>2
  <1>4. \A r, t \in Posts : post'[r].id = post'[t].id /\ post'[r].id # 0 => r = t
    BY <1>1 DEF RecordsInv
  <1> QED BY <1>3, <1>4, RecordsLeft DEF RecordsInv

\* A request takes the lock of the client, or waits for it.
LEMMA TakeLockKeeps ==
    ASSUME FeedbackInv, NEW p \in Posts, TakeLock(p)
    PROVE  FeedbackInv'
  <1> USE DEF FeedbackInv
  <1>1. /\ ~lockHeld
        /\ UNCHANGED <<client, clients, stored, dataset, posts, thanked, mishaps>>
    BY DEF TakeLock
  <1>2. ASSUME NEW to \in {"connect", "insert"}, Moves(p, "lock", to),
               lockHeld' \in BOOLEAN, to = "connect" => lockHeld' /\ client = 0,
               to = "insert" => lockHeld' = lockHeld
        PROVE  FeedbackInv'
    <2>1. /\ post' \in [Posts -> [at: Stations, id: 0..posts]]
          /\ post'[p] = [at |-> to, id |-> post[p].id]
          /\ \A r \in Posts : r # p => post'[r] = post[r]
      BY <1>2, Moved DEF Stations
    <2>2. FeedbackOK'
      BY <1>1, <1>2, <2>1 DEF FeedbackOK
    <2>3. RecordsInv'
      BY <1>1, <1>2, EarlyMoveKeeps
    <2>4. ClientInv'
      <3>1. \A r \in Posts : post[r].at # "connect"
        BY <1>1 DEF ClientInv
      <3>2. post'[p].at = to
        BY <2>1
      <3>3. \A r \in Posts : post'[r].at = "connect" => r = p /\ to = "connect"
        BY <2>1, <3>1, <3>2
      <3> QED BY <1>1, <1>2, <3>3 DEF ClientInv
    <2> QED BY <2>2, <2>3, <2>4
  <1>3. CASE SecondLook /\ Moves(p, "lock", "insert") /\ UNCHANGED lockHeld
    BY <1>2, <1>3 DEF FeedbackOK
  <1>4. CASE ~SecondLook /\ Moves(p, "lock", "connect") /\ lockHeld' = TRUE
    BY <1>2, <1>4 DEF SecondLook
  <1> QED BY <1>3, <1>4 DEF TakeLock

\* A request that holds the lock makes the client, or fails to.
LEMMA ConnectKeeps ==
    ASSUME FeedbackInv, NEW p \in Posts, Connect(p)
    PROVE  FeedbackInv'
  <1> USE DEF FeedbackInv
  <1>1. lockHeld' = FALSE /\ UNCHANGED <<stored, dataset, posts, thanked>>
    BY DEF Connect
  <1>2. ASSUME NEW to \in {"insert", "refuse"}, Moves(p, "connect", to),
               mishaps' \in 0..MaxMishaps, clients' = client', clients' \in 0..1
        PROVE  FeedbackInv'
    <2>1. /\ post' \in [Posts -> [at: Stations, id: 0..posts]]
          /\ post[p].at = "connect" /\ post'[p] = [at |-> to, id |-> post[p].id]
          /\ \A r \in Posts : r # p => post'[r] = post[r]
      BY <1>2, Moved DEF Stations
    <2>2. FeedbackOK'
      <3>1. client' \in Nat /\ clients' \in Nat
        BY <1>2
      <3> QED BY <1>1, <1>2, <2>1, <3>1 DEF FeedbackOK
    <2>3. RecordsInv'
      BY <1>1, <1>2, EarlyMoveKeeps
    <2>4. ClientInv'
      <3>1. post'[p].at = to
        BY <2>1
      <3>2. \A r \in Posts : post'[r].at # "connect"
        BY <1>2, <2>1, <3>1 DEF ClientInv
      <3> QED BY <1>2, <3>2 DEF ClientInv
    <2> QED BY <2>2, <2>3, <2>4
  <1>3. ASSUME Moves(p, "connect", "insert"), clients' = clients + 1, client' = clients', UNCHANGED mishaps
        PROVE  FeedbackInv'
    <2>1. client = 0 /\ clients = 0
      BY <1>3 DEF ClientInv, Moves
    <2> QED BY <1>2, <1>3, <2>1 DEF FeedbackOK
  <1>4. ASSUME Moves(p, "connect", "refuse"), Mishap, UNCHANGED <<client, clients>>
        PROVE  FeedbackInv'
    <2>1. mishaps' \in 0..MaxMishaps
      BY <1>4, FeedbackAssumption DEF Mishap, FeedbackOK
    <2> QED BY <1>2, <1>4, <2>1 DEF ClientInv
  <1> QED BY <1>3, <1>4 DEF Connect

\* What is at work neither on the client nor on its lock leaves them as they are.
LEMMA ClientLeft ==
    ASSUME ClientInv, UNCHANGED <<lockHeld, client, clients>>,
           \A p \in Posts : post'[p].at = "connect" => post[p].at = "connect"
    PROVE  ClientInv'
  BY DEF ClientInv

\* The record is inserted, or the database fails.
LEMMA InsertKeeps ==
    ASSUME FeedbackInv, NEW p \in Posts, Insert(p)
    PROVE  FeedbackInv'
  <1> USE DEF FeedbackInv
  <1>1. /\ UNCHANGED <<lockHeld, client, clients, dataset, posts, thanked>>
        /\ stored' \in {stored, stored \cup {post[p].id}}
    BY DEF Insert
  <1>2. \/ Moves(p, "insert", "append") /\ stored' = stored \cup {post[p].id} /\ mishaps' = mishaps
        \/ Moves(p, "insert", "refuse") /\ Mishap
    BY DEF Insert
  <1>3. PICK to \in {"append", "refuse"} :
            /\ Moves(p, "insert", to)
            /\ to = "append" => stored' = stored \cup {post[p].id}
    BY <1>2
  <1>4. mishaps' \in 0..MaxMishaps
    BY <1>2, FeedbackAssumption DEF Mishap, FeedbackOK
  <1>5. /\ post' \in [Posts -> [at: Stations, id: 0..posts]]
        /\ post[p].at = "insert" /\ post'[p] = [at |-> to, id |-> post[p].id]
        /\ \A r \in Posts : r # p => post'[r] = post[r]
        /\ \A r \in Posts : post'[r].id = post[r].id
    BY <1>3, Moved DEF Stations
  <1>6. /\ post'[p].at = to /\ post[p].id # 0 /\ post[p].id \notin stored /\ post[p].id \in 1..posts
    <2>1. post'[p].at = to /\ post[p].id # 0 /\ post[p].id \notin stored
      BY <1>5 DEF RecordsInv
    <2>2. post[p].id \in 0..posts /\ posts \in Nat
      BY DEF FeedbackOK
    <2> QED BY <2>1, <2>2
  <1>7. FeedbackOK'
    <2>1. stored' \subseteq 1..posts' /\ thanked' \subseteq stored'
      BY <1>1, <1>6 DEF FeedbackOK
    <2> QED BY <1>1, <1>4, <1>5, <2>1 DEF FeedbackOK
  <1>8. ~InDataset(post[p].id)
    BY <1>6 DEF RecordsInv, InDataset
  <1>9. RecordsInv'
    <2>1. ASSUME NEW r \in Posts
          PROVE  /\ post'[r].at = "away" <=> post'[r].id = 0
                 /\ post'[r].at \in {"lock", "connect", "insert"} => post'[r].id \notin stored'
                 /\ post'[r].at \in {"append", "thank"} => post'[r].id \in stored'
                 /\ post'[r].at = "append" => ~InDataset(post[r].id)'
                 /\ post'[r].at = "thank" => HasLine(post[r].id)'
      <3>1. CASE r = p
        <4>1. ~InDataset(post[r].id)'
          BY <1>1, <1>5, <1>8, <3>1 DEF InDataset
        <4> QED BY <1>3, <1>5, <1>6, <3>1, <4>1
      <3>2. CASE r # p
        <4>1. post[r].id # post[p].id
          BY <1>6, <3>2 DEF RecordsInv
        <4>2. post[r].id \in stored' <=> post[r].id \in stored
          BY <1>1, <4>1
        <4> QED BY <1>1, <1>5, <3>2, <4>2 DEF RecordsInv, InDataset, HasLine
      <3> QED BY <3>1, <3>2
    <2>2. \A r, t \in Posts : post'[r].id = post'[t].id /\ post'[r].id # 0 => r = t
      BY <1>5 DEF RecordsInv
    <2>3. /\ \A i \in DOMAIN dataset' : dataset'[i].id \in stored'
          /\ \A i, j \in DOMAIN dataset' : dataset'[i].id = dataset'[j].id => i = j
          /\ \A id \in thanked' : HasLine(id)'
      BY <1>1 DEF RecordsInv, HasLine
    <2> QED BY <2>1, <2>2, <2>3 DEF RecordsInv
  <1>10. ClientInv'
    BY <1>1, <1>5, <1>6, ClientLeft
  <1> QED BY <1>7, <1>9, <1>10

\* Its line is appended, whole, cut or not at all.
LEMMA AppendLineKeeps ==
    ASSUME FeedbackInv, NEW p \in Posts, AppendLine(p)
    PROVE  FeedbackInv'
  <1> USE DEF FeedbackInv
  <1>1. UNCHANGED <<lockHeld, client, clients, stored, posts, thanked>>
    BY DEF AppendLine
  <1>2. \/ Moves(p, "append", "thank") /\ dataset' = Grown("line", p) /\ mishaps' = mishaps
        \/ Moves(p, "append", "refuse") /\ Mishap /\ dataset' \in {dataset, Grown("cut", p)}
    BY DEF AppendLine
  <1>3. PICK to \in {"thank", "refuse"} :
            /\ Moves(p, "append", to)
            /\ to = "thank" => dataset' = Grown("line", p)
            /\ dataset' \in {dataset, Grown("line", p), Grown("cut", p)}
    BY <1>2
  <1>4. mishaps' \in 0..MaxMishaps
    BY <1>2, FeedbackAssumption DEF Mishap, FeedbackOK
  <1>5. /\ post' \in [Posts -> [at: Stations, id: 0..posts]]
        /\ post[p].at = "append" /\ post'[p] = [at |-> to, id |-> post[p].id]
        /\ \A r \in Posts : r # p => post'[r] = post[r]
        /\ \A r \in Posts : post'[r].id = post[r].id
    BY <1>3, Moved DEF Stations
  <1>6. post'[p].at = to /\ post[p].id # 0 /\ post[p].id \in stored /\ ~InDataset(post[p].id)
    BY <1>5 DEF RecordsInv
  <1>7. post[p].id \in Nat
    BY DEF FeedbackOK
  <1>8. PICK more \in Seq(Line) :
            /\ dataset' = dataset \o more
            /\ Len(more) \in 0..1
            /\ \A k \in DOMAIN more : k = 1 /\ more[k].id = post[p].id
            /\ to = "thank" => 1 \in DOMAIN more /\ more[1] = [id |-> post[p].id, part |-> "line"]
    <2>1. dataset \in Seq(Line)
      BY DEF FeedbackOK
    <2>2. CASE dataset' = dataset /\ to # "thank"
      <3> DEFINE no == <<>>
      <3>1. dataset' = dataset \o no /\ no \in Seq(Line) /\ Len(no) = 0 /\ DOMAIN no = {}
        BY <2>1, <2>2
      <3> HIDE DEF no
      <3>2. Len(no) \in 0..1 /\ \A k \in DOMAIN no : k = 1 /\ no[k].id = post[p].id
        BY <3>1
      <3> QED BY <2>2, <3>1, <3>2
    <2>3. ASSUME NEW part \in {"line", "cut"}, dataset' = Grown(part, p), to = "thank" => part = "line"
          PROVE  \E more \in Seq(Line) :
                    /\ dataset' = dataset \o more
                    /\ Len(more) \in 0..1
                    /\ \A k \in DOMAIN more : k = 1 /\ more[k].id = post[p].id
                    /\ to = "thank" => 1 \in DOMAIN more /\ more[1] = [id |-> post[p].id, part |-> "line"]
      <3> DEFINE x == [id |-> post[p].id, part |-> part]
      <3>1. x \in Line /\ x.id = post[p].id
        BY <1>7 DEF Line
      <3>2. dataset' = dataset \o <<x>>
        BY <2>1, <2>3, <3>1 DEF Grown
      <3>3. to = "thank" => x = [id |-> post[p].id, part |-> "line"]
        BY <2>3
      <3> HIDE DEF x
      <3> DEFINE one == <<x>>
      <3>4. one \in Seq(Line) /\ Len(one) = 1 /\ DOMAIN one = 1..1 /\ one[1] = x /\ dataset' = dataset \o one
        BY <3>1, <3>2
      <3> HIDE DEF one
      <3>5. \A k \in DOMAIN one : k = 1 /\ one[k] = x
        BY <3>4
      <3>6. Len(one) \in 0..1 /\ 1 \in DOMAIN one
        BY <3>4
      <3> QED BY <3>1, <3>3, <3>4, <3>5, <3>6
    <2>4. CASE to = "thank"
      BY <1>3, <2>3, <2>4
    <2>5. CASE to # "thank"
      BY <1>3, <2>2, <2>3, <2>5
    <2> QED BY <2>4, <2>5
  <1>9. /\ dataset' \in Seq(Line)
        /\ \A i \in DOMAIN dataset' : dataset'[i].id \in stored'
        /\ \A i, j \in DOMAIN dataset' : dataset'[i].id = dataset'[j].id => i = j
        /\ \A id : HasLine(id) => HasLine(id)'
        /\ \A id : InDataset(id)' => InDataset(id) \/ \E k \in DOMAIN more : more[k].id = id
        /\ \A k \in DOMAIN more : dataset'[Len(dataset) + k] = more[k] /\ Len(dataset) + k \in DOMAIN dataset'
    <2>1. \A k \in DOMAIN more : more[k].id \in stored' /\ ~InDataset(more[k].id)
      BY <1>1, <1>6, <1>8
    <2>2. \A k, m \in DOMAIN more : k = m
      BY <1>8
    <2>3. stored \subseteq stored'
      BY <1>1
    <2> QED BY <1>8, <2>1, <2>2, <2>3, LinesAdded
  <1>10. FeedbackOK'
    BY <1>1, <1>4, <1>5, <1>9 DEF FeedbackOK
  <1>11. RecordsInv'
    <2>1. ASSUME NEW r \in Posts
          PROVE  /\ post'[r].at = "away" <=> post'[r].id = 0
                 /\ post'[r].at \in {"lock", "connect", "insert"} => post'[r].id \notin stored'
                 /\ post'[r].at \in {"append", "thank"} => post'[r].id \in stored'
                 /\ post'[r].at = "append" => ~InDataset(post[r].id)'
                 /\ post'[r].at = "thank" => HasLine(post[r].id)'
      <3>1. CASE r = p
        <4>1. to = "thank" => \E i \in DOMAIN dataset' : dataset'[i] = [id |-> post[p].id, part |-> "line"]
          BY <1>8, <1>9
        <4>2. to = "thank" => HasLine(post[p].id)'
          BY <1>5, <4>1 DEF HasLine
        <4> QED BY <1>1, <1>5, <1>6, <3>1, <4>2
      <3>2. CASE r # p
        <4>1. post[r].id # post[p].id
          BY <1>6, <3>2 DEF RecordsInv
        <4>2. post'[r] = post[r]
          BY <1>5, <3>2
        <4>3. \A i \in DOMAIN dataset' : dataset'[i].id = post[r].id => InDataset(post[r].id)
          BY <1>8, <1>9, <4>1 DEF InDataset
        <4>4. post'[r].at = "append" => ~InDataset(post[r].id)'
          BY <4>2, <4>3 DEF RecordsInv, InDataset
        <4>5. post'[r].at = "thank" => HasLine(post[r].id)'
          <5>1. post[r].at = "thank" => \E i \in DOMAIN dataset' : dataset'[i] = [id |-> post[r].id, part |-> "line"]
            BY <1>9 DEF RecordsInv, HasLine
          <5> QED BY <4>2, <5>1 DEF HasLine
        <4> QED BY <1>1, <4>2, <4>4, <4>5 DEF RecordsInv
      <3> QED BY <3>1, <3>2
    <2>2. \A r, t \in Posts : post'[r].id = post'[t].id /\ post'[r].id # 0 => r = t
      BY <1>5 DEF RecordsInv
    <2>3. \A id \in thanked' : HasLine(id)'
      BY <1>1, <1>9 DEF RecordsInv
    <2> QED BY <1>9, <2>1, <2>2, <2>3 DEF RecordsInv
  <1>12. ClientInv'
    BY <1>1, <1>5, <1>6, ClientLeft
  <1> QED BY <1>10, <1>11, <1>12

\* The request is answered.
LEMMA RespondKeeps ==
    ASSUME FeedbackInv, NEW p \in Posts, Respond(p)
    PROVE  FeedbackInv'
  <1> USE DEF FeedbackInv
  <1>1. /\ UNCHANGED <<lockHeld, client, clients, stored, dataset, posts, mishaps>>
        /\ post[p].at \in {"thank", "refuse"} /\ post' = [post EXCEPT ![p] = Away]
        /\ thanked' = IF post[p].at = "thank" THEN thanked \cup {post[p].id} ELSE thanked
    BY DEF Respond
  <1>2. post \in [Posts -> [at: Stations, id: 0..posts]] /\ posts \in Nat
    BY DEF FeedbackOK
  <1>3. Away \in [at: Stations, id: 0..posts] /\ Away.at = "away" /\ Away.id = 0
    BY <1>2 DEF Away, Stations
  <1>4. /\ post' \in [Posts -> [at: Stations, id: 0..posts]] /\ post'[p] = Away
        /\ \A r \in Posts : r # p => post'[r] = post[r]
    BY <1>1, <1>2, <1>3
  <1>5. thanked' \subseteq stored' /\ \A id \in thanked' : HasLine(id)'
    <2>1. post[p].at = "thank" => post[p].id \in stored /\ HasLine(post[p].id)
      BY DEF RecordsInv
    <2>2. \A id \in thanked' : id \in thanked \/ (id = post[p].id /\ post[p].at = "thank")
      BY <1>1
    <2>3. \A id \in thanked' : id \in stored /\ HasLine(id)
      BY <2>1, <2>2 DEF RecordsInv, FeedbackOK
    <2> QED BY <1>1, <2>3 DEF HasLine
  <1>6. FeedbackOK'
    BY <1>1, <1>4, <1>5 DEF FeedbackOK
  <1>7. RecordsInv'
    <2>1. ASSUME NEW r \in Posts
          PROVE  /\ post'[r].at = "away" <=> post'[r].id = 0
                 /\ post'[r].at \in {"lock", "connect", "insert"} => post'[r].id \notin stored'
                 /\ post'[r].at \in {"append", "thank"} => post'[r].id \in stored'
                 /\ post'[r].at = "append" => ~InDataset(post[r].id)'
                 /\ post'[r].at = "thank" => HasLine(post[r].id)'
      <3>1. CASE r = p
        BY <1>3, <1>4, <3>1
      <3>2. CASE r # p
        BY <1>1, <1>4, <3>2 DEF RecordsInv, InDataset, HasLine
      <3> QED BY <3>1, <3>2
    <2>2. \A r, t \in Posts : post'[r].id = post'[t].id /\ post'[r].id # 0 => r = t
      BY <1>3, <1>4 DEF RecordsInv
    <2>3. /\ \A i \in DOMAIN dataset' : dataset'[i].id \in stored'
          /\ \A i, j \in DOMAIN dataset' : dataset'[i].id = dataset'[j].id => i = j
      BY <1>1 DEF RecordsInv
    <2> QED BY <1>5, <2>1, <2>2, <2>3 DEF RecordsInv
  <1>8. ClientInv'
    BY <1>1, <1>3, <1>4, ClientLeft
  <1> QED BY <1>6, <1>7, <1>8

\* The service dies with inserts carried out, and with lines written, the last one
\* perhaps in part: each of them is of a record of its own.
LEMMA DeathKeeps ==
    ASSUME FeedbackInv, ServiceDies
    PROVE  FeedbackInv'
  <1> USE DEF FeedbackInv
  <1> DEFINE at(place) == {p \in Posts : post[p].at = place}
  <1>1. /\ Mishap /\ post' = [p \in Posts |-> Away]
        /\ lockHeld' = FALSE /\ client' = 0 /\ clients' = 0 /\ UNCHANGED <<posts, thanked>>
    BY DEF ServiceDies
  <1>2. PICK done \in SUBSET at("insert") : stored' = stored \cup {post[p].id : p \in done}
    BY DEF ServiceDies
  <1>3. PICK n \in Nat : \E q \in [1..n -> at("append")], last \in {"line", "cut"} :
            /\ \A i, j \in DOMAIN q : q[i] = q[j] => i = j
            /\ dataset' = dataset \o [i \in DOMAIN q |->
                    [id |-> post[q[i]].id, part |-> IF i = Len(q) THEN last ELSE "line"]]
    <2>1. PICK q \in UNION {[1..m -> at("append")] : m \in 0..Cardinality(at("append"))}, last \in {"line", "cut"} :
            /\ \A i, j \in DOMAIN q : q[i] = q[j] => i = j
            /\ dataset' = dataset \o [i \in DOMAIN q |->
                    [id |-> post[q[i]].id, part |-> IF i = Len(q) THEN last ELSE "line"]]
      BY Zenon DEF ServiceDies
    <2>2. PICK m \in 0..Cardinality(at("append")) : q \in [1..m -> at("append")]
      BY <2>1
    <2>3. m \in Nat
      BY <2>2
    <2> QED BY <2>1, <2>2, <2>3
  <1>4. PICK q \in [1..n -> at("append")], last \in {"line", "cut"} :
            /\ \A i, j \in DOMAIN q : q[i] = q[j] => i = j
            /\ dataset' = dataset \o [i \in DOMAIN q |->
                    [id |-> post[q[i]].id, part |-> IF i = Len(q) THEN last ELSE "line"]]
    BY <1>3
  <1>5. DOMAIN q = 1..n /\ \A i \in 1..n : q[i] \in Posts /\ post[q[i]].at = "append"
    BY <1>4
  <1>6. \A p \in Posts : post[p].id \in 0..posts /\ posts \in Nat
    BY DEF FeedbackOK
  <1> DEFINE more == [i \in DOMAIN q |->
                        [id |-> post[q[i]].id, part |-> IF i = Len(q) THEN last ELSE "line"]]
  <1>7. more \in [1..n -> Line] /\ \A i \in 1..n : more[i].id = post[q[i]].id
    <2>1. \A i \in 1..n : [id |-> post[q[i]].id, part |-> IF i = Len(q) THEN last ELSE "line"] \in Line
      BY <1>5, <1>6 DEF Line
    <2> QED BY <1>5, <2>1
  <1>8. dataset' = dataset \o more
    BY <1>4
  <1> HIDE DEF more, at
  <1>9. more \in Seq(Line) /\ DOMAIN more = 1..n
    BY <1>7
  <1>10. \A i \in 1..n : post[q[i]].id \in stored /\ ~InDataset(post[q[i]].id) /\ post[q[i]].id # 0
    BY <1>5 DEF RecordsInv
  <1>11. \A i \in 1..n : more[i].id \in stored' /\ ~InDataset(more[i].id)
    <2> SUFFICES ASSUME NEW i \in 1..n PROVE more[i].id \in stored' /\ ~InDataset(more[i].id)
      OBVIOUS
    <2>1. more[i].id = post[q[i]].id
      BY <1>7
    <2> QED BY <1>2, <1>10, <2>1
  <1>12. \A i, j \in 1..n : more[i].id = more[j].id => i = j
    <2> SUFFICES ASSUME NEW i \in 1..n, NEW j \in 1..n, more[i].id = more[j].id PROVE i = j
      OBVIOUS
    <2>1. post[q[i]].id = post[q[j]].id /\ post[q[i]].id # 0 /\ q[i] \in Posts /\ q[j] \in Posts
      BY <1>5, <1>7, <1>10
    <2>2. q[i] = q[j]
      BY <2>1 DEF RecordsInv
    <2> QED BY <1>4, <1>5, <2>2
  <1>13. /\ dataset' \in Seq(Line)
         /\ \A i \in DOMAIN dataset' : dataset'[i].id \in stored'
         /\ \A i, j \in DOMAIN dataset' : dataset'[i].id = dataset'[j].id => i = j
         /\ \A id : HasLine(id) => HasLine(id)'
    <2>1. stored \subseteq stored'
      BY <1>2
    <2> QED BY <1>8, <1>9, <1>11, <1>12, <2>1, LinesAdded
  <1>14. Away \in [at: Stations, id: 0..posts'] /\ Away.at = "away" /\ Away.id = 0
    BY <1>1 DEF Away, Stations, FeedbackOK
  <1>15. post' \in [Posts -> [at: Stations, id: 0..posts']] /\ \A p \in Posts : post'[p] = Away
    BY <1>1, <1>14
  <1>16. FeedbackOK'
    <2>1. mishaps' \in 0..MaxMishaps
      BY <1>1, FeedbackAssumption DEF Mishap, FeedbackOK
    <2>2. \A p \in done : post[p].id \in 1..posts
      BY <1>2, <1>6 DEF at, RecordsInv
    <2>3. stored' \subseteq 1..posts' /\ thanked' \subseteq stored'
      BY <1>1, <1>2, <2>2 DEF FeedbackOK
    <2> QED BY <1>1, <1>13, <1>15, <2>1, <2>3 DEF FeedbackOK
  <1>17. RecordsInv'
    <2>1. \A id \in thanked' : HasLine(id)'
      BY <1>1, <1>13 DEF RecordsInv
    <2>2. \A p \in Posts : post'[p].at = "away" /\ post'[p].id = 0
      BY <1>14, <1>15
    <2> QED BY <1>13, <2>1, <2>2 DEF RecordsInv
  <1>18. ClientInv'
    BY <1>1, <1>14, <1>15 DEF ClientInv
  <1> QED BY <1>16, <1>17, <1>18

\* Every step keeps the invariant.
LEMMA FeedbackStep ==
    ASSUME FeedbackInv, [FeedbackNext]_feedbackVars
    PROVE  FeedbackInv'
  <1>1. CASE UNCHANGED feedbackVars
    BY <1>1 DEF feedbackVars, FeedbackInv, FeedbackOK, RecordsInv, ClientInv, InDataset, HasLine
  <1>2. CASE FeedbackNext
    BY <1>2, SubmitKeeps, TakeLockKeeps, ConnectKeeps, InsertKeeps, AppendLineKeeps, RespondKeeps, DeathKeeps
       DEF FeedbackNext
  <1> QED BY <1>1, <1>2

\* Each request has its record in exactly the places it has got to, and one client of
\* the database is made at a time, whatever is awaited and whatever fails.
THEOREM FeedbackInductive == FeedbackSpec => []FeedbackInv
  BY FeedbackStart, FeedbackStep, PTL DEF FeedbackSpec

\* What was answered with 201 is in the table and in the dataset, and nothing is in
\* the dataset that the table has not, or is in it twice.
THEOREM OpinionsKept == FeedbackSpec => []OpinionsAreKept
  <1>1. ASSUME FeedbackInv PROVE OpinionsAreKept
    <2>1. ASSUME NEW id \in thanked \ Readable
          PROVE  \E i \in DOMAIN dataset : dataset[i] = [id |-> id, part |-> "line"]
                                           /\ i > 1 /\ dataset[i - 1].part = "cut"
      <3>1. PICK i \in DOMAIN dataset : dataset[i] = [id |-> id, part |-> "line"]
        BY <1>1 DEF FeedbackInv, RecordsInv, HasLine
      <3>2. dataset[i].id = id /\ dataset[i].part = "line"
        BY <3>1
      <3>3. ~(i > 1 => dataset[i - 1].part = "line")
        BY <2>1, <3>2 DEF Readable
      <3>4. i > 1 /\ dataset[i - 1] \in Line
        BY <1>1, <3>3 DEF FeedbackInv, FeedbackOK
      <3> QED BY <3>1, <3>3, <3>4 DEF Line
    <2>2. clients <= 1
      BY <1>1 DEF FeedbackInv, ClientInv
    <2> QED BY <1>1, <2>1, <2>2 DEF FeedbackInv, FeedbackOK, RecordsInv, OpinionsAreKept
  <1>2. FeedbackInv => OpinionsAreKept
    BY <1>1
  <1> QED BY <1>2, FeedbackInductive, PTL

-----------------------------------------------------------------------------
(* The log of the simulation *)

Round(n) == IF n < LogCapacity THEN n ELSE n - LogCapacity

\* A slot, reached by at most one round from another.
LEMMA Rounds ==
    ASSUME NEW h \in Slots, NEW k \in 0..LogCapacity
    PROVE  (h + k) % LogCapacity = Round(h + k) /\ Round(h + k) \in Slots
  <1>1. h + k \in Nat /\ h + k < 2 * LogCapacity
    BY SimLogAssumption, SMT DEF Slots
  <1>2. (h + k) % LogCapacity = Round(h + k)
    BY <1>1, SimLogAssumption, Remainder DEF Round
  <1> QED BY <1>1, <1>2, SimLogAssumption, SMT DEF Round, Slots

\* LogIsWindow, slot by slot.
RingHolds == \A i \in 1..logCount : logs[Round(logHead + (i - 1))] = logOffset + i

\* What a reader gets who asks for some of the oldest entries.
LEMMA OldestAre ==
    ASSUME SimOK, NEW n \in Nat
    PROVE  Oldest(n) = [i \in 1..(IF logCount < n THEN logCount ELSE n) |->
                            logs[Round(logHead + (i - 1))]]
  <1> DEFINE m == IF logCount < n THEN logCount ELSE n
  <1>1. m <= logCount /\ logCount \in 1..LogCapacity /\ logHead \in Slots /\ m \in Nat
    BY SimLogAssumption DEF SimOK
  <1>2. logHead \in Int
    BY <1>1, SimLogAssumption DEF Slots
  <1> HIDE DEF m
  <1>3. ASSUME NEW i \in 1..m PROVE (logHead + i - 1) % LogCapacity = Round(logHead + (i - 1))
    <2>1. i - 1 \in 0..LogCapacity /\ i \in Int
      BY <1>1, SimLogAssumption
    <2>2. logHead + i - 1 = logHead + (i - 1)
      BY <1>2, <2>1
    <2> QED BY <1>1, <2>1, <2>2, Rounds
  <1>4. Oldest(n) = [i \in 1..m |-> logs[(logHead + i - 1) % LogCapacity]]
    BY DEF Oldest, m
  <1>5. Oldest(n) = [i \in 1..m |-> logs[Round(logHead + (i - 1))]]
    BY <1>3, <1>4
  <1> QED BY <1>5 DEF m

\* LogIsWindow speaks of what a reader gets, RingHolds of the slots: they agree.
LEMMA WindowIsRing ==
    ASSUME SimOK
    PROVE  LogIsWindow <=> (RingHolds /\ logOffset + logCount = pushed
                            /\ (logCount = LogCapacity \/ logOffset = 0))
  <1>1. (IF logCount < LogCapacity THEN logCount ELSE LogCapacity) = logCount
    BY SimLogAssumption DEF SimOK
  <1>2. Oldest(LogCapacity) = [i \in 1..logCount |-> logs[Round(logHead + (i - 1))]]
    BY <1>1, OldestAre, SimLogAssumption
  <1>3. (Oldest(LogCapacity) = [i \in 1..logCount |-> logOffset + i]) <=> RingHolds
    <2>1. ASSUME RingHolds PROVE Oldest(LogCapacity) = [i \in 1..logCount |-> logOffset + i]
      BY <1>2, <2>1 DEF RingHolds
    <2>2. ASSUME Oldest(LogCapacity) = [i \in 1..logCount |-> logOffset + i] PROVE RingHolds
      <3> SUFFICES ASSUME NEW i \in 1..logCount PROVE logs[Round(logHead + (i - 1))] = logOffset + i
        BY DEF RingHolds
      <3>1. Oldest(LogCapacity)[i] = logs[Round(logHead + (i - 1))]
        BY <1>2
      <3>2. Oldest(LogCapacity)[i] = logOffset + i
        BY <2>2
      <3> QED BY <3>1, <3>2
    <2> QED BY <2>1, <2>2
  <1> QED BY <1>3 DEF LogIsWindow

\* An entry pushed onto the ring.
LEMMA PushKeeps ==
    ASSUME SimOK, LogIsWindow, Push
    PROVE  /\ logs' \in [Slots -> 0..MaxPushed] /\ logHead' \in Slots
           /\ logCount' \in 1..LogCapacity /\ logOffset' \in Nat /\ pushed' \in 1..MaxPushed
           /\ RingHolds'
           /\ logOffset' + logCount' = pushed'
           /\ logCount' = LogCapacity \/ logOffset' = 0
           /\ logOffset' \in {logOffset, logOffset + 1}
           /\ logCount' \in {logCount, logCount + 1}
           /\ logCount' = logCount => logCount = LogCapacity /\ logOffset' = logOffset + 1
           /\ logCount' # logCount => logOffset' = 0 /\ logOffset = 0
           /\ pushed' = pushed + 1
  <1>1. /\ logs \in [Slots -> 0..MaxPushed] /\ logHead \in Slots
        /\ logCount \in 1..LogCapacity /\ logOffset \in Nat /\ pushed \in 1..MaxPushed
        /\ RingHolds /\ logOffset + logCount = pushed
        /\ logCount = LogCapacity \/ logOffset = 0
    BY WindowIsRing DEF SimOK
  <1>2. LogCapacity \in Nat /\ LogCapacity > 1 /\ MaxPushed \in Nat /\ logHead \in 0..LogCapacity - 1
        /\ logHead \in Int /\ logCount \in Int /\ pushed \in Int
    BY <1>1, SimLogAssumption DEF Slots
  <1>3. pushed' = pushed + 1 /\ pushed' \in 1..MaxPushed /\ pushed' \in 0..MaxPushed
    BY <1>1, <1>2 DEF Push
  <1> DEFINE place == Round(logHead + logCount)
  <1>4. (logHead + logCount) % LogCapacity = place /\ place \in Slots
    <2>1. logCount \in 0..LogCapacity
      BY <1>1, <1>2
    <2> QED BY <1>1, <2>1, Rounds
  <1>5. logs' = [logs EXCEPT ![place] = pushed']
    BY <1>4 DEF Push
  <1>6. logs' \in [Slots -> 0..MaxPushed] /\ logs'[place] = pushed'
        /\ \A s \in Slots : s # place => logs'[s] = logs[s]
    BY <1>1, <1>3, <1>4, <1>5
  <1>7. CASE logCount = LogCapacity
    <2>1. GivesUp = 1
      BY <1>7 DEF GivesUp
    <2>2. logHead' = (logHead + 1) % LogCapacity /\ logCount' = logCount + 1 - 1 /\ logOffset' = logOffset + 1
      BY <2>1 DEF Push
    <2>3. logHead' = Round(logHead + 1) /\ logHead' \in Slots
      BY <2>2, <1>1, <1>2, Rounds
    <2>4. logCount' = logCount /\ logOffset' \in Nat /\ logOffset' + logCount' = pushed'
      BY <2>2, <1>1, <1>2, <1>3
    <2>5. place = logHead
      BY <1>7, <1>2 DEF Round
    <2>6. RingHolds'
      <3> SUFFICES ASSUME NEW i \in 1..logCount'
                   PROVE  logs'[Round(logHead' + (i - 1))] = logOffset' + i
        BY DEF RingHolds
      <3>1. i \in 1..LogCapacity /\ i \in Int
        BY <2>4, <1>7, <1>2
      <3>2. CASE i = LogCapacity
        <4>1. Round(logHead' + (i - 1)) = logHead
          BY <3>2, <2>3, <1>2 DEF Round
        <4>2. logOffset' + i = pushed'
          BY <3>2, <2>4, <1>7
        <4> QED BY <4>1, <4>2, <2>5, <1>6
      <3>3. CASE i < LogCapacity
        <4>1. Round(logHead' + (i - 1)) = Round(logHead + i)
          BY <3>1, <3>3, <2>3, <1>2 DEF Round
        <4>2. Round(logHead + i) # logHead
          BY <3>1, <3>3, <1>2 DEF Round
        <4>3. i \in 0..LogCapacity /\ i + 1 \in 1..logCount
          BY <3>1, <3>3, <1>2, <1>7
        <4>4. Round(logHead + i) \in Slots
          BY <4>3, <1>1, Rounds
        <4>5. logs'[Round(logHead + i)] = logs[Round(logHead + i)]
          BY <4>2, <4>4, <2>5, <1>6
        <4>6. (i + 1) - 1 = i
          BY <3>1
        <4>7. logs[Round(logHead + ((i + 1) - 1))] = logOffset + (i + 1)
          BY <4>3, <1>1 DEF RingHolds
        <4>8. logOffset + (i + 1) = logOffset' + i
          BY <2>2, <3>1, <1>1
        <4> QED BY <4>1, <4>5, <4>6, <4>7, <4>8
      <3> QED BY <3>1, <3>2, <3>3, <1>2
    <2> QED BY <1>1, <1>2, <1>3, <1>6, <1>7, <2>2, <2>3, <2>4, <2>6
  <1>8. CASE logCount # LogCapacity
    <2>1. GivesUp = 0
      BY <1>8 DEF GivesUp
    <2>2. logHead' = (logHead + 0) % LogCapacity /\ logCount' = logCount + 1 - 0 /\ logOffset' = logOffset + 0
      BY <2>1 DEF Push
    <2>3. logHead' = logHead
      <3>1. (logHead + 0) % LogCapacity = Round(logHead + 0)
        BY <1>1, <1>2, Rounds
      <3> QED BY <3>1, <2>2, <1>2 DEF Round
    <2>4. logCount' = logCount + 1 /\ logOffset' = logOffset /\ logOffset = 0 /\ logOffset' + logCount' = pushed'
          /\ logCount' \in 1..LogCapacity
      BY <2>2, <1>1, <1>2, <1>3, <1>8
    <2>5. RingHolds'
      <3> SUFFICES ASSUME NEW i \in 1..logCount'
                   PROVE  logs'[Round(logHead' + (i - 1))] = logOffset' + i
        BY DEF RingHolds
      <3>1. i \in Int /\ i \in 1..logCount + 1
        BY <2>4, <1>2
      <3>2. CASE i = logCount + 1
        <4>1. i - 1 = logCount
          BY <3>2, <1>2
        <4>2. Round(logHead' + (i - 1)) = place
          BY <4>1, <2>3
        <4>3. logOffset' + i = pushed'
          BY <3>2, <2>4
        <4> QED BY <4>2, <4>3, <1>6
      <3>3. CASE i \in 1..logCount
        <4>1. Round(logHead + (i - 1)) # place
          <5>1. i - 1 \in Int /\ i - 1 >= 0 /\ i - 1 < logCount /\ logCount < LogCapacity
            BY <3>3, <1>1, <1>2, <1>8
          <5> QED BY <5>1, <1>2 DEF Round
        <4>2. i - 1 \in 0..LogCapacity
          BY <3>3, <1>1, <1>2
        <4>3. Round(logHead + (i - 1)) \in Slots
          BY <4>2, <1>1, Rounds
        <4>4. logs[Round(logHead + (i - 1))] = logOffset + i
          BY <3>3, <1>1 DEF RingHolds
        <4> QED BY <4>1, <4>3, <4>4, <2>3, <2>4, <1>6
      <3> QED BY <3>1, <3>2, <3>3, <1>2
    <2>6. logHead' \in Slots /\ logOffset' \in Nat
      BY <2>3, <2>4, <1>1
    <2> QED BY <1>1, <1>2, <1>3, <1>6, <1>8, <2>4, <2>5, <2>6
  <1> QED BY <1>7, <1>8

\* Entries in order behind entries in order.
LEMMA InOrder ==
    ASSUME NEW f \in Seq(1..MaxPushed), \A i \in DOMAIN f : f[i] = i,
           NEW offset \in Nat, NEW m \in Nat, NEW start \in 0..m, offset + start = Len(f),
           offset + m \in 0..MaxPushed
    PROVE  LET g == f \o SubSeq([i \in 1..m |-> offset + i], start + 1, m)
           IN  /\ g \in Seq(1..MaxPushed) /\ Len(g) = offset + m
               /\ \A i \in DOMAIN g : g[i] = i
  <1> DEFINE shown == [i \in 1..m |-> offset + i]
             rest == SubSeq(shown, start + 1, m)
             g == f \o rest
  <1>1. MaxPushed \in Nat /\ start \in Nat /\ start <= m /\ Len(f) \in Nat /\ DOMAIN f = 1..Len(f)
    BY SimLogAssumption
  <1>2. \A i \in 1..m : offset + i \in 1..MaxPushed
    BY <1>1
  <1>3. shown \in Seq(1..MaxPushed) /\ Len(shown) = m /\ \A i \in 1..m : shown[i] = offset + i
    BY <1>2
  <1> HIDE DEF shown
  <1>4. start + 1 \in 1..m + 1 /\ m \in 0..m
    BY <1>1
  <1>5. /\ rest \in Seq(1..MaxPushed)
        /\ Len(rest) = IF start + 1 <= m THEN m - (start + 1) + 1 ELSE 0
        /\ \A i \in 1..(m - (start + 1) + 1) : rest[i] = shown[(start + 1) + i - 1]
    <2>1. start + 1 \in Int /\ m \in Int
      BY <1>4
    <2>2. \A i \in (start + 1)..m : i \in 1..m
      BY <1>1
    <2>3. \A i \in (start + 1)..m : shown[i] \in 1..MaxPushed
      BY <1>2, <1>3, <2>2
    <2> HIDE DEF rest
    <2>4. rest = SubSeq(shown, start + 1, m)
      BY DEF rest
    <2>5. PICK from \in Int : from = start + 1
      BY <2>1
    <2>6. m \in Int /\ \A i \in from..m : shown[i] \in 1..MaxPushed
      BY <2>1, <2>3, <2>5
    <2>7. /\ SubSeq(shown, from, m) \in Seq(1..MaxPushed)
          /\ Len(SubSeq(shown, from, m)) = IF from <= m THEN m - from + 1 ELSE 0
          /\ \A i \in 1..m - from + 1 : SubSeq(shown, from, m)[i] = shown[from + i - 1]
      BY <2>6, SubSeqProperties
    <2> QED BY <2>4, <2>5, <2>7
  <1>6. Len(rest) = m - start
    BY <1>1, <1>5
  <1> HIDE DEF rest
  <1>7. g \in Seq(1..MaxPushed) /\ Len(g) = Len(f) + Len(rest)
        /\ \A i \in 1..Len(g) : g[i] = IF i <= Len(f) THEN f[i] ELSE rest[i - Len(f)]
    <2>1. PICK r \in Seq(1..MaxPushed) : r = rest
      BY <1>5
    <2>2. g = f \o r
      BY <2>1
    <2> HIDE DEF g
    <2>3. /\ f \o r \in Seq(1..MaxPushed) /\ Len(f \o r) = Len(f) + Len(r)
          /\ \A i \in 1..Len(f) + Len(r) : (f \o r)[i] = IF i <= Len(f) THEN f[i] ELSE r[i - Len(f)]
      BY ConcatProperties
    <2> QED BY <2>1, <2>2, <2>3
  <1>8. Len(g) = offset + m
    <2> HIDE DEF g
    <2> QED BY <1>1, <1>6, <1>7
  <1> HIDE DEF g
  <1>9. ASSUME NEW i \in 1..offset + m PROVE g[i] = i
    <2>1. i \in Nat /\ i >= 1 /\ i <= offset + m
      BY <1>1
    <2>2. CASE i <= Len(f)
      <3>1. i \in 1..Len(g) /\ i \in DOMAIN f
        BY <2>1, <2>2, <1>1, <1>8
      <3> QED BY <2>2, <3>1, <1>7
    <2>3. CASE i > Len(f)
      <3> DEFINE k == i - Len(f)
      <3>1. k \in 1..(m - (start + 1) + 1) /\ (start + 1) + k - 1 \in 1..m /\ offset + ((start + 1) + k - 1) = i
        BY <2>1, <2>3, <1>1
      <3>2. g[i] = rest[k]
        BY <2>1, <2>3, <1>1, <1>7, <1>8
      <3> HIDE DEF k
      <3>3. rest[k] = offset + ((start + 1) + k - 1)
        BY <3>1, <1>3, <1>5
      <3> QED BY <3>1, <3>2, <3>3
    <2> QED BY <2>1, <2>2, <2>3, <1>1
  <1>10. DOMAIN g = 1..offset + m
    BY <1>7, <1>8
  <1> QED BY <1>7, <1>8, <1>9, <1>10 DEF g, rest, shown

\* The soak's view, where its slots hold what they should.
LEMMA ViewIs ==
    ASSUME Push, logHead' \in Slots, logCount' \in 1..LogCapacity, RingHolds'
    PROVE  Oldest(View)' = [i \in 1..Shown' |-> logOffset' + i]
  <1>1. Shown' <= logCount' /\ Shown' \in Nat
    BY SimLogAssumption DEF Shown
  <1>2. ASSUME NEW i \in 1..Shown' PROVE logs'[(logHead' + i - 1) % LogCapacity] = logOffset' + i
    <2>1. i \in 1..logCount' /\ i - 1 \in 0..LogCapacity /\ i \in Int /\ logHead' \in Int
      BY <1>1, SimLogAssumption DEF Slots
    <2>2. logHead' + i - 1 = logHead' + (i - 1)
      BY <2>1
    <2>3. (logHead' + i - 1) % LogCapacity = Round(logHead' + (i - 1))
      BY <2>1, <2>2, Rounds
    <2> QED BY <2>1, <2>3 DEF RingHolds
  <1>3. Oldest(View)' = [i \in 1..Shown' |-> logs'[(logHead' + i - 1) % LogCapacity]]
    BY DEF Oldest, Shown
  <1> QED BY <1>2, <1>3

\* The invariant, with the ring slot by slot.
SimShape ==
    /\ SimOK /\ RingHolds
    /\ logOffset + logCount = pushed
    /\ logCount = LogCapacity \/ logOffset = 0
    /\ SoakInv

\* The inductive invariant, slot by slot.
LEMMA ShapeIsInv == SimShape <=> SimInv
  BY WindowIsRing DEF SimShape, SimInv

\* The log of a simulation that was just made, or reset.
LEMMA FreshLog ==
    ASSUME NEW h, NEW c, NEW l, l = [i \in Slots |-> IF i = 0 THEN 1 ELSE 0], h = 0, c = 1
    PROVE  /\ l \in [Slots -> 0..MaxPushed] /\ h \in Slots /\ c \in 1..LogCapacity
           /\ \A i \in 1..c : l[Round(h + (i - 1))] = 0 + i
           /\ 1 \in 1..MaxPushed
  <1>1. LogCapacity \in Nat /\ LogCapacity > 1 /\ MaxPushed \in Nat /\ MaxPushed >= 1
    BY SimLogAssumption
  <1>2. 0 \in Slots /\ 1 \in 0..MaxPushed /\ 0 \in 0..MaxPushed /\ 1 \in 1..MaxPushed /\ 1 \in 1..LogCapacity
    BY <1>1 DEF Slots
  <1>3. ASSUME NEW i \in 1..c PROVE i = 1 /\ Round(h + (i - 1)) = 0
    BY <1>1 DEF Round
  <1> QED BY <1>2, <1>3

\* A new simulation has the invariant, ...
LEMMA SimStart == SimInit => SimShape
  <1> SUFFICES ASSUME SimInit PROVE SimShape
    OBVIOUS
  <1>1. /\ logs \in [Slots -> 0..MaxPushed] /\ logHead \in Slots /\ logCount \in 1..LogCapacity
        /\ \A i \in 1..logCount : logs[Round(logHead + (i - 1))] = 0 + i
        /\ 1 \in 1..MaxPushed
    BY FreshLog DEF SimInit
  <1>2. soakFile \in Seq(1..MaxPushed) /\ DOMAIN soakFile = {}
    BY DEF SimInit
  <1>3. SimOK /\ RingHolds
    BY <1>1, <1>2 DEF SimInit, SimOK, RingHolds
  <1>4. SoakInv
    BY <1>2 DEF SimInit, SoakInv
  <1> QED BY <1>3, <1>4 DEF SimInit, SimShape

\* ... and every tick, soak and reset keeps it.
LEMMA SimStep == SimShape /\ [SimNext]_simVars => SimShape'
  <1> SUFFICES ASSUME SimShape, [SimNext]_simVars PROVE SimShape'
    OBVIOUS
  <1>1. SimOK /\ LogIsWindow /\ SoakInv
    BY ShapeIsInv DEF SimInv
  <1>2. CASE SimTick
    <2>1. Push /\ soakFile = <<>> /\ lastOffset' = lastOffset /\ soakFile' = soakFile
      BY <1>2 DEF SimTick
    <2>2. SimOK' /\ RingHolds' /\ logOffset' + logCount' = pushed'
          /\ (logCount' = LogCapacity \/ logOffset' = 0)
      BY <1>1, <2>1, PushKeeps DEF SimOK
    <2>3. SoakInv'
      BY <1>1, <2>1 DEF SoakInv
    <2> QED BY <2>2, <2>3 DEF SimShape
  <1>3. CASE SoakTick
    <2>1. Push /\ (soakFile # <<>> \/ pushed = 1)
      BY <1>3 DEF SoakTick
    <2>2. /\ logs' \in [Slots -> 0..MaxPushed] /\ logHead' \in Slots
          /\ logCount' \in 1..LogCapacity /\ logOffset' \in Nat /\ pushed' \in 1..MaxPushed
          /\ RingHolds'
          /\ logOffset' + logCount' = pushed'
          /\ logCount' = LogCapacity \/ logOffset' = 0
          /\ logOffset' \in {logOffset, logOffset + 1}
          /\ logCount' \in {logCount, logCount + 1}
          /\ logCount' = logCount => logCount = LogCapacity /\ logOffset' = logOffset + 1
          /\ logCount' # logCount => logOffset' = 0 /\ logOffset = 0
      BY <1>1, <2>1, PushKeeps
    <2>3. Oldest(View)' = [i \in 1..Shown' |-> logOffset' + i]
      BY <2>1, <2>2, ViewIs
    <2>4. logCount \in 1..LogCapacity /\ logOffset \in Nat /\ lastOffset \in Nat /\ pushed \in Nat
          /\ LogCapacity \in Nat /\ View \in 1..LogCapacity /\ MaxPushed \in Nat
          /\ soakFile \in Seq(1..MaxPushed) /\ logOffset + logCount = pushed
          /\ \A i \in DOMAIN soakFile : soakFile[i] = i
      BY <1>1, SimLogAssumption DEF SimOK, SimShape, SoakInv
    <2>5. lastOffset = Len(soakFile)
      BY <1>1 DEF SoakInv
    <2>6. Shown' \in Nat /\ lastOffset - logOffset' \in 0..Shown' /\ Shown' >= 1 /\ Shown' <= logCount'
      <3>1. CASE soakFile = <<>>
        <4>1. lastOffset = 0 /\ pushed = 1
          BY <3>1, <2>1, <1>1 DEF SoakInv
        <4>2. logCount = 1 /\ logOffset = 0 /\ LogCapacity > 1
          BY <4>1, <2>4, SimLogAssumption
        <4>3. logOffset' = 0
          BY <4>2, <2>2
        <4> QED BY <4>1, <4>3, <2>2, <2>4 DEF Shown
      <3>2. CASE soakFile # <<>>
        <4>1. lastOffset = logOffset + Shown
          BY <3>2, <1>1 DEF SoakInv
        <4>2. CASE logCount' = logCount
          <5>1. logOffset' = logOffset + 1 /\ Shown = View /\ Shown' = View
            BY <4>2, <2>2, <2>4 DEF Shown
          <5> QED BY <4>1, <4>2, <5>1, <2>2, <2>4
        <4>3. CASE logCount' # logCount
          <5>1. logOffset' = 0 /\ logOffset = 0 /\ logCount' = logCount + 1
            BY <4>3, <2>2
          <5> QED BY <4>1, <5>1, <2>2, <2>4 DEF Shown
        <4> QED BY <4>2, <4>3
      <3> QED BY <3>1, <3>2
    <2>7. PICK m, o, start : m = Shown' /\ o = logOffset' /\ start = lastOffset - o
      OBVIOUS
    <2>8. m \in Nat /\ m >= 1 /\ o \in Nat /\ o + m \in 0..MaxPushed /\ start \in 0..m /\ o + start = Len(soakFile)
      <3>1. PICK c, u : c = logCount' /\ u = pushed'
        OBVIOUS
      <3>2. /\ o \in Nat /\ c \in 1..LogCapacity /\ m \in Nat /\ m <= c /\ m >= 1
            /\ o + c = u /\ u \in 1..MaxPushed /\ start \in 0..m
        BY <2>2, <2>6, <2>7, <3>1
      <3>3. start = lastOffset - o /\ lastOffset \in Nat /\ MaxPushed \in Nat
        BY <2>4, <2>7
      <3>4. o + start = lastOffset
        BY <3>2, <3>3
      <3>5. o + m \in 0..MaxPushed
        BY <3>2, <3>3
      <3> QED BY <3>2, <3>4, <3>5, <2>5
    <2>9. soakFile' = soakFile \o SubSeq([i \in 1..m |-> o + i], start + 1, m) /\ lastOffset' = o + m
      <3>1. PICK shown : shown = Oldest(View)'
        OBVIOUS
      <3>2. Len(shown) = m /\ shown = [i \in 1..m |-> o + i]
        BY <2>3, <2>7, <2>8, <3>1
      <3>3. LET had == IF lastOffset > o THEN lastOffset - o ELSE 0
                from == IF had > Len(shown) THEN Len(shown) ELSE had
            IN  /\ soakFile' = soakFile \o SubSeq(shown, from + 1, Len(shown))
                /\ lastOffset' = o + Len(shown)
        BY <1>3, <2>7, <3>1 DEF SoakTick
      <3>4. start = (LET had == IF lastOffset > o THEN lastOffset - o ELSE 0
                     IN  IF had > m THEN m ELSE had)
        <4>1. start = lastOffset - o /\ lastOffset \in Nat
          BY <2>4, <2>7
        <4> QED BY <4>1, <2>8
      <3>5. soakFile' = soakFile \o SubSeq(shown, start + 1, m) /\ lastOffset' = o + m
        BY <3>2, <3>3, <3>4
      <3> QED BY <3>2, <3>5
    <2>11. /\ soakFile' \in Seq(1..MaxPushed) /\ Len(soakFile') = o + m
           /\ \A i \in DOMAIN soakFile' : soakFile'[i] = i
      <3>1. PICK f : f = soakFile
        OBVIOUS
      <3>2. f \in Seq(1..MaxPushed) /\ (\A i \in DOMAIN f : f[i] = i) /\ o + start = Len(f)
        BY <2>4, <2>8, <3>1
      <3>3. PICK rest : rest = SubSeq([i \in 1..m |-> o + i], start + 1, m)
        OBVIOUS
      <3>4. f \o rest \in Seq(1..MaxPushed) /\ Len(f \o rest) = o + m /\ \A i \in DOMAIN (f \o rest) : (f \o rest)[i] = i
        BY <2>8, <3>2, <3>3, InOrder
      <3>5. soakFile' = f \o rest
        BY <2>9, <3>1, <3>3
      <3> QED BY <3>4, <3>5
    <2>12. o + m \in Nat /\ o + m # 0
      BY <2>8
    <2>13. SimOK'
      BY <2>2, <2>9, <2>11, <2>12 DEF SimOK
    <2>14. SoakInv'
      <3>1. soakFile' # <<>>
        BY <2>11, <2>12
      <3> QED BY <3>1, <2>7, <2>9, <2>11 DEF SoakInv
    <2> QED BY <2>2, <2>13, <2>14 DEF SimShape
  <1>4. CASE Reset
    <2>1. /\ logs' \in [Slots -> 0..MaxPushed] /\ logHead' \in Slots /\ logCount' \in 1..LogCapacity
          /\ \A i \in 1..logCount' : logs'[Round(logHead' + (i - 1))] = 0 + i
          /\ 1 \in 1..MaxPushed
      BY <1>4, FreshLog DEF Reset
    <2>2. SimOK' /\ RingHolds'
      BY <1>1, <1>4, <2>1 DEF Reset, SimOK, RingHolds
    <2>3. SoakInv'
      BY <1>1, <1>4 DEF Reset, SoakInv
    <2> QED BY <1>4, <2>2, <2>3 DEF Reset, SimShape
  <1>5. CASE UNCHANGED simVars
    BY <1>5 DEF simVars, SimShape, SimOK, RingHolds, SoakInv, Shown
  <1> QED BY <1>2, <1>3, <1>4, <1>5 DEF SimNext

\* The ring and the soak's file are what they should be, for any size of ring and view.
THEOREM LogInductive == SimSpec => []SimInv
  <1>1. SimInit => SimShape
    BY SimStart
  <1>2. SimShape /\ [SimNext]_simVars => SimShape'
    BY SimStep
  <1>3. SimShape => SimInv
    BY ShapeIsInv
  <1> QED BY <1>1, <1>2, <1>3, PTL DEF SimSpec

\* LogsAreFaithful: a reader of the ring gets the last entries in order, and the file
\* of the soak has each entry once, in order and without a gap.
THEOREM LogsStayFaithful == SimSpec => []LogsAreFaithful
  <1>1. SimInv => LogsAreFaithful
    <2> SUFFICES ASSUME SimInv, soakFile # <<>>
                 PROVE  /\ soakFile = [i \in DOMAIN soakFile |-> i]
                        /\ Len(soakFile) + LogCapacity - View >= pushed
      BY DEF SimInv, LogsAreFaithful, SoakWritesInOrder
    <2>1. soakFile = [i \in DOMAIN soakFile |-> i]
      BY DEF SimInv, SimOK, SoakInv
    <2>2. Len(soakFile) = logOffset + Shown /\ logOffset + logCount = pushed
      BY DEF SimInv, SoakInv, LogIsWindow
    <2>3. logOffset \in Nat /\ logCount \in 1..LogCapacity /\ View \in 1..LogCapacity /\ LogCapacity \in Nat
      BY SimLogAssumption DEF SimInv, SimOK
    <2>4. Shown + LogCapacity - View >= logCount
      BY <2>3 DEF Shown
    <2>5. Shown \in Int
      BY <2>3 DEF Shown
    <2> QED BY <2>1, <2>2, <2>3, <2>4, <2>5
  <1> QED BY <1>1, LogInductive, PTL

-----------------------------------------------------------------------------
(* The ledger of the Python simulator *)

\* The front of a sequence, and the rest behind it.
LEMMA UptoIs ==
    ASSUME NEW S, NEW s \in Seq(S), NEW n \in 0..Len(s)
    PROVE  Upto(s, n) \in Seq(S) /\ Len(Upto(s, n)) = n /\ \A i \in 1..n : Upto(s, n)[i] = s[i]
  <1>1. Len(s) \in Nat /\ n \in Int /\ n >= 0 /\ 1 \in Int /\ \A i \in 1..n : s[i] \in S
    OBVIOUS
  <1>2. /\ SubSeq(s, 1, n) \in Seq(S)
        /\ Len(SubSeq(s, 1, n)) = IF 1 <= n THEN n - 1 + 1 ELSE 0
        /\ \A i \in 1..(n - 1 + 1) : SubSeq(s, 1, n)[i] = s[1 + i - 1]
    BY <1>1, SubSeqProperties
  <1>3. PICK t : t = SubSeq(s, 1, n)
    OBVIOUS
  <1>4. Len(t) = n
    BY <1>1, <1>2, <1>3
  <1>5. \A i \in 1..n : t[i] = s[i]
    <2> TAKE i \in 1..n
    <2>1. i \in 1..(n - 1 + 1) /\ 1 + i - 1 = i
      BY <1>1
    <2> QED BY <1>2, <1>3, <2>1
  <1> QED BY <1>2, <1>3, <1>4, <1>5 DEF Upto

\* What is left behind a front.
LEMMA PastIs ==
    ASSUME NEW S, NEW s \in Seq(S), NEW n \in Nat
    PROVE  /\ Past(s, n) \in Seq(S)
           /\ Len(Past(s, n)) = IF n <= Len(s) THEN Len(s) - n ELSE 0
           /\ \A i \in 1..Len(s) - n : Past(s, n)[i] = s[n + i]
  <1>1. Len(s) \in Nat /\ n + 1 \in Int /\ \A i \in n + 1..Len(s) : s[i] \in S
    OBVIOUS
  <1>2. PICK l \in Nat : l = Len(s)
    BY <1>1
  <1>3. /\ SubSeq(s, n + 1, l) \in Seq(S)
        /\ Len(SubSeq(s, n + 1, l)) = IF n + 1 <= l THEN l - (n + 1) + 1 ELSE 0
        /\ \A i \in 1..(l - (n + 1) + 1) : SubSeq(s, n + 1, l)[i] = s[(n + 1) + i - 1]
    BY <1>1, <1>2, SubSeqProperties
  <1>4. PICK t : t = SubSeq(s, n + 1, l)
    OBVIOUS
  <1>5. Len(t) = IF n <= l THEN l - n ELSE 0
    BY <1>3, <1>4
  <1>6. \A i \in 1..l - n : t[i] = s[n + i]
    <2> TAKE i \in 1..l - n
    <2>1. i \in 1..(l - (n + 1) + 1) /\ (n + 1) + i - 1 = n + i
      OBVIOUS
    <2> QED BY <1>3, <1>4, <2>1
  <1> QED BY <1>2, <1>3, <1>4, <1>5, <1>6 DEF Past

\* Three sequences joined from either side.
LEMMA Regroup ==
    \A s, t, u \in Seq(CellSet) : (s \o t) \o u = s \o (t \o u)
  BY ConcatAssociative

\* However a write was cut, and whether its rest waits or is gone, what comes of the
\* cells that were waiting and of a new frame is the former and a front of the latter.
LEMMA Cuts ==
    \A f, w, g \in Seq(CellSet) : \A n \in 0..Len(w \o g) : \A v \in {Past(w \o g, n), Past(w, n)} :
        \E j \in 0..Len(g) : (f \o Upto(w \o g, n)) \o v = (f \o w) \o Upto(g, j)
  <1> TAKE f, w, g \in Seq(CellSet)
  <1> TAKE n \in 0..Len(w \o g)
  <1> TAKE v \in {Past(w \o g, n), Past(w, n)}
  <1>0. \A s, t, u \in Seq(CellSet) : (s \o t) \o u = s \o (t \o u)
    BY Regroup
  <1>1. w \o g \in Seq(CellSet) /\ n \in Nat /\ Len(w) \in Nat /\ Len(g) \in Nat /\ Len(f) \in Nat
    BY ConcatProperties
  <1>2. Len(w \o g) = Len(w) + Len(g)
        /\ \A i \in 1..Len(w) + Len(g) : (w \o g)[i] = IF i <= Len(w) THEN w[i] ELSE g[i - Len(w)]
    BY ConcatProperties
  <1>3. n <= Len(w) + Len(g)
    BY <1>1, <1>2
  <1>4. PICK a : a = w \o g
    OBVIOUS
  <1>5. PICK x : x = Upto(a, n)
    OBVIOUS
  <1>6. x \in Seq(CellSet) /\ Len(x) = n /\ \A i \in 1..n : x[i] = a[i]
    BY <1>1, <1>4, <1>5, UptoIs
  <1>7. /\ Past(a, n) \in Seq(CellSet)
        /\ Len(Past(a, n)) = IF n <= Len(a) THEN Len(a) - n ELSE 0
        /\ \A i \in 1..Len(a) - n : Past(a, n)[i] = a[n + i]
    BY <1>1, <1>4, PastIs
  <1>8. /\ Past(w, n) \in Seq(CellSet)
        /\ Len(Past(w, n)) = IF n <= Len(w) THEN Len(w) - n ELSE 0
        /\ \A i \in 1..Len(w) - n : Past(w, n)[i] = w[n + i]
    BY <1>1, PastIs
  <1>9. v \in Seq(CellSet)
    BY <1>4, <1>7, <1>8
  <1>16. SUFFICES \E j \in 0..Len(g) : x \o v = w \o Upto(g, j)
    <2>1. PICK j \in 0..Len(g) : x \o v = w \o Upto(g, j)
      BY <1>16
    <2>2. Upto(g, j) \in Seq(CellSet)
      BY UptoIs
    <2>3. x \in Seq(CellSet) /\ v \in Seq(CellSet)
      BY <1>6, <1>9
    <2>4. (f \o x) \o v = f \o (x \o v)
      BY <1>0, <2>3, Zenon
    <2>5. (f \o w) \o Upto(g, j) = f \o (w \o Upto(g, j))
      BY <1>0, <2>2, Zenon
    <2> QED BY <1>4, <1>5, <2>1, <2>4, <2>5, Zenon
  <1>11. x \o v \in Seq(CellSet) /\ Len(x \o v) = n + Len(v)
         /\ \A i \in 1..n + Len(v) : (x \o v)[i] = IF i <= n THEN x[i] ELSE v[i - n]
    BY <1>6, <1>9, ConcatProperties
  <1>12. ASSUME NEW j \in 0..Len(g), n + Len(v) = Len(w) + j, Len(v) \in Nat,
                \A i \in 1..n + Len(v) : (x \o v)[i] = a[i]
         PROVE  x \o v = w \o Upto(g, j)
    <2>1. PICK y : y = Upto(g, j)
      OBVIOUS
    <2>2. y \in Seq(CellSet) /\ Len(y) = j /\ \A i \in 1..j : y[i] = g[i]
      BY <2>1, UptoIs
    <2>3. w \o y \in Seq(CellSet) /\ Len(w \o y) = Len(w) + j
          /\ \A i \in 1..Len(w) + j : (w \o y)[i] = IF i <= Len(w) THEN w[i] ELSE y[i - Len(w)]
      BY <2>2, ConcatProperties
    <2>4. ASSUME NEW i \in 1..Len(w) + j PROVE (x \o v)[i] = (w \o y)[i]
      <3>1. i \in 1..Len(w) + Len(g) /\ i \in 1..n + Len(v) /\ i \in Nat
        BY <1>1, <1>12
      <3>2. CASE i <= Len(w)
        BY <1>2, <1>4, <1>12, <2>3, <3>1, <3>2
      <3>3. CASE i > Len(w)
        <4>1. i - Len(w) \in 1..j
          BY <1>1, <3>3
        <4>2. (w \o y)[i] = g[i - Len(w)]
          BY <1>1, <2>2, <2>3, <3>3, <4>1
        <4>3. a[i] = g[i - Len(w)]
          BY <1>1, <1>2, <1>4, <3>1, <3>3
        <4> QED BY <1>12, <3>1, <4>2, <4>3
      <3>4. i <= Len(w) \/ i > Len(w)
        BY <1>1
      <3> QED BY <3>2, <3>3, <3>4
    <2>5. Len(x \o v) = Len(w \o y) /\ Len(x \o v) = Len(w) + j
      BY <1>11, <1>12, <2>3
    <2> QED BY <1>11, <2>1, <2>3, <2>4, <2>5, SeqEqual
  <1>13. CASE v = Past(w \o g, n)
    <2>1. Len(v) = (Len(w) + Len(g)) - n /\ \A i \in 1..(Len(w) + Len(g)) - n : v[i] = a[n + i]
      BY <1>1, <1>2, <1>3, <1>4, <1>7, <1>13
    <2>2. Len(v) \in Nat /\ n + Len(v) = Len(w) + Len(g) /\ Len(g) \in 0..Len(g)
      BY <1>1, <1>3, <2>1
    <2>3. ASSUME NEW i \in 1..n + Len(v) PROVE (x \o v)[i] = a[i]
      <3>1. CASE i <= n
        <4>1. i \in 1..n
          BY <1>1, <3>1
        <4> QED BY <1>6, <1>11, <3>1, <4>1
      <3>2. CASE i > n
        <4>1. i - n \in 1..(Len(w) + Len(g)) - n /\ n + (i - n) = i /\ ~(i <= n)
          BY <1>1, <2>2, <3>2
        <4> QED BY <1>11, <2>1, <4>1
      <3>3. i <= n \/ i > n
        BY <1>1, <2>2
      <3> QED BY <3>1, <3>2, <3>3
    <2> QED BY <1>12, <2>2, <2>3
  <1>14. CASE v = Past(w, n) /\ n <= Len(w)
    <2>1. Len(v) = Len(w) - n /\ \A i \in 1..Len(w) - n : v[i] = w[n + i]
      BY <1>1, <1>8, <1>14
    <2>2. Len(v) \in Nat /\ n + Len(v) = Len(w) + 0 /\ 0 \in 0..Len(g)
      BY <1>1, <1>14, <2>1
    <2>3. ASSUME NEW i \in 1..n + Len(v) PROVE (x \o v)[i] = a[i]
      <3>1. CASE i <= n
        <4>1. i \in 1..n
          BY <1>1, <3>1
        <4> QED BY <1>6, <1>11, <3>1, <4>1
      <3>2. CASE i > n
        <4>1. i - n \in 1..Len(w) - n /\ n + (i - n) = i /\ ~(i <= n) /\ i <= Len(w) /\ i \in 1..Len(w) + Len(g)
          BY <1>1, <2>2, <3>2
        <4>2. (x \o v)[i] = w[i]
          BY <1>11, <2>1, <4>1
        <4> QED BY <1>2, <1>4, <4>1, <4>2
      <3>3. i <= n \/ i > n
        BY <1>1, <2>2
      <3> QED BY <3>1, <3>2, <3>3
    <2> QED BY <1>12, <2>2, <2>3
  <1>15. CASE v = Past(w, n) /\ ~(n <= Len(w))
    <2>1. Len(v) = 0
      BY <1>8, <1>15
    <2>2. n - Len(w) \in 0..Len(g) /\ n + Len(v) = Len(w) + (n - Len(w)) /\ Len(v) \in Nat
      BY <1>1, <1>3, <1>15, <2>1
    <2>3. ASSUME NEW i \in 1..n + Len(v) PROVE (x \o v)[i] = a[i]
      <3>1. i \in 1..n /\ i <= n
        BY <1>1, <2>1
      <3> QED BY <1>6, <1>11, <3>1
    <2> QED BY <1>12, <2>2, <2>3
  <1> QED BY <1>13, <1>14, <1>15

\* Cells, one by one.
LEMMA CellIs ==
    ASSUME NEW c \in Seq(CellSet), NEW p \in DOMAIN c
    PROVE  /\ p \in 1..Len(c) /\ Len(c) \in Nat
           /\ c[p] \in CellSet /\ c[p] = <<c[p][1], c[p][2]>>
           /\ c[p][1] \in 1..MaxFrames /\ c[p][2] \in 1..FrameCells
  BY LedgerAssumption DEF CellSet

\* The front of ordered cells is ordered.
LEMMA FrontOrdered ==
    ASSUME NEW kinds, NEW c \in Seq(CellSet), Ordered(c, kinds),
           NEW d \in Seq(CellSet), Len(d) <= Len(c), \A p \in 1..Len(d) : d[p] = c[p]
    PROVE  Ordered(d, kinds)
  <1>1. PICK n \in Nat : n = Len(d)
    OBVIOUS
  <1>2. \A p \in 1..n : d[p] = c[p]
    BY <1>1
  <1>3. Len(c) \in Nat /\ n <= Len(c) /\ DOMAIN d = 1..n /\ DOMAIN c = 1..Len(c)
    BY <1>1
  <1>4. \A p \in DOMAIN d : p \in DOMAIN c /\ d[p] = c[p] /\ p \in Int /\ p >= 1 /\ p <= n
    BY <1>2, <1>3
  <1>5. \A p \in DOMAIN d : d[p][1] \in DOMAIN kinds
    BY <1>4 DEF Ordered
  <1>6. \A p, q \in DOMAIN d : p < q => Precedes(d[p], d[q])
    BY <1>4 DEF Ordered
  <1>7. ASSUME NEW p \in DOMAIN d, NEW t \in 0..d[p][2] - 1
        PROVE  p - t \in DOMAIN d /\ d[p - t] = <<d[p][1], d[p][2] - t>>
    <2>1. t \in 0..c[p][2] - 1 /\ p \in DOMAIN c /\ d[p] = c[p]
      BY <1>4
    <2>2. p - t \in DOMAIN c /\ c[p - t] = <<c[p][1], c[p][2] - t>>
      BY <2>1 DEF Ordered
    <2>3. c[p][2] \in 1..FrameCells
      BY <2>1, CellIs
    <2>4. t \in Nat
      BY <2>1, <2>3, LedgerAssumption
    <2>5. p - t \in 1..n
      BY <1>3, <1>4, <2>2, <2>4
    <2> QED BY <1>2, <1>3, <2>1, <2>2, <2>5
  <1>8. ASSUME NEW p \in DOMAIN d PROVE kinds[d[p][1]] = "GENESIS" <=> d[p][1] = d[1][1]
    <2>1. 1 \in DOMAIN d
      BY <1>3, <1>4
    <2>2. kinds[c[p][1]] = "GENESIS" <=> c[p][1] = c[1][1]
      BY <1>4 DEF Ordered
    <2> QED BY <1>4, <2>1, <2>2
  <1> QED BY <1>5, <1>6, <1>7, <1>8 DEF Ordered

\* A front of a new frame behind ordered cells: an EVENT, or a GENESIS where there
\* are none.
LEMMA GrownOrdered ==
    ASSUME NEW kinds \in Seq(Kinds), Len(kinds) < MaxFrames, NEW kind \in Kinds,
           NEW c \in Seq(CellSet), Ordered(c, kinds), kind = "GENESIS" <=> c = <<>>,
           NEW j \in 0..FrameCells
    PROVE  /\ c \o Upto(FrameOf(Len(kinds) + 1), j) \in Seq(CellSet)
           /\ Ordered(c \o Upto(FrameOf(Len(kinds) + 1), j), Append(kinds, kind))
  <1> DEFINE new == Len(kinds) + 1
  <1>0. Len(kinds) \in Nat /\ new \in 1..MaxFrames /\ FrameCells \in Nat \ {0} /\ MaxFrames \in Nat /\ new \in Nat
    BY LedgerAssumption
  <1>1. PICK more : more = Append(kinds, kind)
    OBVIOUS
  <1>2. /\ more \in Seq(Kinds) /\ Len(more) = new /\ more[new] = kind
        /\ \A k \in 1..Len(kinds) : more[k] = kinds[k]
    BY <1>1, AppendProperties
  <1>3. FrameOf(new) \in Seq(CellSet) /\ Len(FrameOf(new)) = FrameCells
        /\ \A i \in 1..FrameCells : FrameOf(new)[i] = <<new, i>>
    <2>1. \A i \in 1..FrameCells : <<new, i>> \in CellSet
      BY <1>0 DEF CellSet
    <2> HIDE DEF new
    <2> QED BY <2>1, <1>0 DEF FrameOf
  <1> HIDE DEF new
  <1>4. PICK e : e = Upto(FrameOf(new), j)
    OBVIOUS
  <1>5. e \in Seq(CellSet) /\ Len(e) = j /\ \A i \in 1..j : e[i] = <<new, i>>
    <2>1. e \in Seq(CellSet) /\ Len(e) = j /\ \A i \in 1..j : e[i] = FrameOf(new)[i]
      BY <1>3, <1>4, UptoIs
    <2>2. \A i \in 1..j : i \in 1..FrameCells
      BY <1>0
    <2> QED BY <1>3, <2>1, <2>2
  <1>6. PICK d : d = c \o e
    OBVIOUS
  <1>7. PICK l \in Nat : l = Len(c)
    OBVIOUS
  <1>8. /\ d \in Seq(CellSet) /\ Len(d) = l + j /\ DOMAIN d = 1..l + j /\ DOMAIN c = 1..l
        /\ \A p \in 1..l + j : d[p] = IF p <= l THEN c[p] ELSE e[p - l]
    <2>1. /\ c \o e \in Seq(CellSet) /\ Len(c \o e) = Len(c) + Len(e)
          /\ \A p \in 1..Len(c) + Len(e) : (c \o e)[p] = IF p <= Len(c) THEN c[p] ELSE e[p - Len(c)]
      <3>1. e \in Seq(CellSet)
        BY <1>5
      <3> QED BY <3>1, ConcatProperties
    <2> QED BY <1>5, <1>6, <1>7, <2>1
  <1>9. \A p \in 1..l : d[p] = c[p] /\ c[p][1] \in 1..Len(kinds) /\ p \in 1..l + j
    <2>1. \A p \in 1..l : p \in 1..l + j /\ p <= l
      BY <1>0
    <2>2. DOMAIN kinds = 1..Len(kinds)
      OBVIOUS
    <2>3. \A p \in 1..l : c[p][1] \in 1..Len(kinds)
      BY <1>8, <2>2 DEF Ordered
    <2>4. \A p \in 1..l : d[p] = c[p]
      BY <1>8, <2>1
    <2> QED BY <2>1, <2>3, <2>4
  <1>10. \A i \in 1..j : l + i \in 1..l + j /\ d[l + i] = <<new, i>>
    <2> TAKE i \in 1..j
    <2>1. l + i \in 1..l + j /\ ~(l + i <= l) /\ (l + i) - l = i
      BY <1>0
    <2> QED BY <1>5, <1>8, <2>1
  <1>101. \A p : (\E i \in 1..j : p = l + i) => d[p][1] = new
    <2> TAKE p
    <2>1. ASSUME NEW i \in 1..j, p = l + i PROVE d[p][1] = new
      <3>1. d[p] = <<new, i>>
        BY <1>10, <2>1
      <3> QED BY <3>1
    <2> QED BY <2>1
  <1>11. \A p \in 1..l + j : p \in 1..l \/ \E i \in 1..j : p = l + i
    <2> TAKE p \in 1..l + j
    <2>1. p \in 1..l \/ p - l \in 1..j
      BY <1>0
    <2>2. p = l + (p - l)
      BY <1>0
    <2> QED BY <2>1, <2>2
  <1>12. ASSUME NEW p \in DOMAIN d PROVE d[p][1] \in DOMAIN more
    <2>1. CASE p \in 1..l
      <3>1. c[p][1] \in 1..new
        BY <1>0, <1>9, <2>1 DEF new
      <3> QED BY <1>2, <1>9, <2>1, <3>1
    <2>2. CASE \E i \in 1..j : p = l + i
      <3>1. d[p][1] = new /\ new \in 1..new
        BY <1>0, <1>101, <2>2
      <3> QED BY <1>2, <3>1
    <2> QED BY <1>8, <1>11, <2>1, <2>2
  <1>13. ASSUME NEW p \in DOMAIN d, NEW q \in DOMAIN d, p < q PROVE Precedes(d[p], d[q])
    <2>1. CASE q \in 1..l
      <3>1. p \in 1..l
        BY <1>8, <1>13, <2>1
      <3> QED BY <1>8, <1>9, <1>13, <2>1, <3>1 DEF Ordered
    <2>2. CASE p \in 1..l /\ \E i \in 1..j : q = l + i
      <3>1. d[q][1] = new /\ d[p][1] \in 1..Len(kinds)
        BY <1>9, <1>101, <2>2
      <3>2. d[p][1] < d[q][1]
        BY <3>1, <1>0 DEF new
      <3> QED BY <3>2 DEF Precedes
    <2>3. CASE (\E i \in 1..j : p = l + i) /\ (\E i \in 1..j : q = l + i)
      <3>1. PICK i \in 1..j : p = l + i
        BY <2>3
      <3>2. PICK m \in 1..j : q = l + m
        BY <2>3
      <3>3. d[p] = <<new, i>> /\ d[q] = <<new, m>>
        BY <1>10, <3>1, <3>2
      <3>4. i < m
        BY <1>0, <1>13, <3>1, <3>2
      <3> QED BY <3>3, <3>4 DEF Precedes
    <2>4. q \in 1..l \/ \E i \in 1..j : q = l + i
      BY <1>8, <1>11
    <2>5. p \in 1..l \/ \E i \in 1..j : p = l + i
      BY <1>8, <1>11
    <2> QED BY <2>1, <2>2, <2>3, <2>4, <2>5
  <1>14. ASSUME NEW p \in DOMAIN d, NEW t \in 0..d[p][2] - 1
         PROVE  p - t \in DOMAIN d /\ d[p - t] = <<d[p][1], d[p][2] - t>>
    <2>1. CASE p \in 1..l
      <3>1. p \in DOMAIN c /\ t \in 0..c[p][2] - 1 /\ d[p] = c[p]
        BY <1>8, <1>9, <2>1
      <3>2. p - t \in 1..l /\ c[p - t] = <<c[p][1], c[p][2] - t>>
        BY <1>8, <3>1 DEF Ordered
      <3>3. d[p - t] = c[p - t] /\ p - t \in 1..l + j
        BY <1>9, <3>2
      <3> QED BY <1>8, <3>1, <3>2, <3>3
    <2>2. CASE \E i \in 1..j : p = l + i
      <3>1. PICK i \in 1..j : p = l + i
        BY <2>2
      <3>2. d[p] = <<new, i>> /\ t \in 0..i - 1
        <4>1. d[p] = <<new, i>>
          BY <1>10, <3>1
        <4> QED BY <4>1
      <3>3. i - t \in 1..j /\ p - t = l + (i - t)
        BY <1>0, <3>1, <3>2
      <3>4. l + (i - t) \in 1..l + j /\ d[l + (i - t)] = <<new, i - t>>
        BY <1>10, <3>3
      <3> QED BY <1>8, <3>2, <3>3, <3>4
    <2> QED BY <1>8, <1>11, <2>1, <2>2
  <1>15. ASSUME NEW p \in DOMAIN d PROVE more[d[p][1]] = "GENESIS" <=> d[p][1] = d[1][1]
    <2>1. CASE l = 0
      <3>1. c = <<>>
        BY <1>7, <2>1, EmptySeq
      <3>2. kind = "GENESIS"
        BY <3>1
      <3>3. \A q \in 1..l + j : d[q][1] = new
        BY <1>8, <1>11, <1>101, <2>1
      <3>4. 1 \in 1..l + j /\ p \in 1..l + j
        BY <1>0, <1>8, <2>1
      <3> QED BY <1>2, <3>2, <3>3, <3>4
    <2>2. CASE l # 0
      <3>1. c # <<>> /\ kind # "GENESIS" /\ 1 \in 1..l
        BY <1>7, <2>2
      <3>2. d[1] = c[1] /\ c[1][1] \in 1..Len(kinds)
        BY <1>9, <3>1
      <3>3. CASE p \in 1..l
        <4>1. d[p] = c[p] /\ p \in DOMAIN c /\ more[c[p][1]] = kinds[c[p][1]]
          BY <1>2, <1>8, <1>9, <3>3
        <4> QED BY <3>2, <4>1 DEF Ordered
      <3>4. CASE \E i \in 1..j : p = l + i
        <4>1. d[p][1] = new
          BY <1>101, <3>4
        <4>2. d[1][1] # new
          BY <3>2, <1>0 DEF new
        <4> QED BY <1>2, <3>1, <4>1, <4>2
      <3> QED BY <1>8, <1>11, <3>3, <3>4
    <2> QED BY <2>1, <2>2
  <1>16. Ordered(d, more)
    BY <1>12, <1>13, <1>14, <1>15 DEF Ordered
  <1> QED BY <1>1, <1>4, <1>6, <1>8, <1>16 DEF new

\* Whole frames of a new kind.
LEMMA FrameIs ==
    ASSUME NEW k \in 1..MaxFrames
    PROVE  FrameOf(k) \in Seq(CellSet) /\ Len(FrameOf(k)) = FrameCells
           /\ \A i \in 1..FrameCells : FrameOf(k)[i] = <<k, i>>
  <1>1. \A i \in 1..FrameCells : <<k, i>> \in CellSet
    BY DEF CellSet
  <1> QED BY <1>1, LedgerAssumption DEF FrameOf

\* What an append does, whole or failing, to the file and to what was promised of it.
LEMMA Writes ==
    ASSUME LedgerInv, NEW kind \in Kinds, kind = "GENESIS" <=> Cells = <<>>,
           Written(kind) \/ NotWritten(kind)
    PROVE  /\ file' \in Seq(CellSet) /\ waiting' \in Seq(CellSet)
           /\ appended' \in Seq(Kinds) /\ Len(appended') <= MaxFrames
           /\ synced' \in 0..Len(file') /\ acknowledged' \subseteq DOMAIN appended'
           /\ faults' \in 0..MaxFaults
           /\ Ordered(Cells, appended)'
           /\ \A k \in acknowledged' : \E p \in 1..synced' : file'[p] = <<k, FrameCells>>
           /\ file # <<>> => file' # <<>>
           /\ Written(kind) => file' # <<>>
  <1>1. /\ file \in Seq(CellSet) /\ waiting \in Seq(CellSet) /\ appended \in Seq(Kinds)
        /\ synced \in 0..Len(file) /\ acknowledged \subseteq DOMAIN appended /\ faults \in 0..MaxFaults
        /\ Ordered(Cells, appended)
        /\ \A k \in acknowledged : \E p \in 1..synced : file[p] = <<k, FrameCells>>
    BY DEF LedgerInv, LedgerOK, SafeInv
  <1>2. Len(appended) < MaxFrames /\ appended' = Append(appended, kind)
    BY DEF Written, NotWritten
  <1>3. PICK new : new = Len(appended) + 1
    OBVIOUS
  <1>4. new \in 1..MaxFrames /\ MaxFrames \in Nat /\ FrameCells \in Nat \ {0} /\ MaxFaults \in Nat
        /\ Len(appended) \in Nat /\ Len(file) \in Nat /\ Len(waiting) \in Nat
    BY <1>1, <1>2, <1>3, LedgerAssumption
  <1>5. PICK a : a = Append(appended, kind)
    OBVIOUS
  <1>6. a \in Seq(Kinds) /\ Len(a) = new /\ DOMAIN a = 1..new /\ DOMAIN appended = 1..Len(appended)
    BY <1>1, <1>3, <1>5, AppendProperties
  <1>7. appended' \in Seq(Kinds) /\ Len(appended') <= MaxFrames /\ DOMAIN appended' = 1..new
        /\ Len(appended') = new
    BY <1>2, <1>4, <1>5, <1>6
  <1>8. acknowledged \cup {new} \subseteq 1..new
    BY <1>1, <1>3, <1>4, <1>6
  <1>9. PICK frame : frame = FrameOf(new)
    OBVIOUS
  <1>10. frame \in Seq(CellSet) /\ Len(frame) = FrameCells
         /\ \A i \in 1..FrameCells : frame[i] = <<new, i>>
    BY <1>4, <1>9, FrameIs
  <1>11. PICK all : all = waiting \o frame
    OBVIOUS
  <1>12. /\ all \in Seq(CellSet) /\ Len(all) = Len(waiting) + FrameCells
         /\ all[Len(waiting) + FrameCells] = frame[FrameCells]
    <2>1. /\ waiting \o frame \in Seq(CellSet) /\ Len(waiting \o frame) = Len(waiting) + Len(frame)
          /\ \A i \in 1..Len(waiting) + Len(frame) :
                (waiting \o frame)[i] = IF i <= Len(waiting) THEN waiting[i] ELSE frame[i - Len(waiting)]
      BY <1>1, <1>10, ConcatProperties
    <2>2. Len(waiting) + FrameCells \in 1..Len(waiting) + FrameCells
          /\ ~(Len(waiting) + FrameCells <= Len(waiting))
          /\ (Len(waiting) + FrameCells) - Len(waiting) = FrameCells
      BY <1>4
    <2> QED BY <1>10, <1>11, <2>1, <2>2
  <1>13. Cells \in Seq(CellSet)
    BY <1>1 DEF Cells
  <1>14. \A j \in 0..FrameCells : Ordered(Cells \o Upto(frame, j), a)
    BY <1>1, <1>2, <1>3, <1>5, <1>9, <1>13, GrownOrdered
  <1>15. ASSUME NEW x \in Seq(CellSet), file' = file \o x
         PROVE  /\ file' \in Seq(CellSet) /\ Len(file') = Len(file) + Len(x)
                /\ \A p \in 1..Len(file) : file'[p] = file[p]
                /\ \A p \in 1..Len(x) : file'[Len(file) + p] = x[p]
    <2>1. /\ file \o x \in Seq(CellSet) /\ Len(file \o x) = Len(file) + Len(x)
          /\ \A p \in 1..Len(file) + Len(x) :
                (file \o x)[p] = IF p <= Len(file) THEN file[p] ELSE x[p - Len(file)]
      BY <1>1, ConcatProperties
    <2>2. Len(x) \in Nat
      OBVIOUS
    <2>3. \A p \in 1..Len(file) : p \in 1..Len(file) + Len(x) /\ p <= Len(file)
      BY <1>4, <2>2
    <2>4. \A p \in 1..Len(x) : /\ Len(file) + p \in 1..Len(file) + Len(x)
                               /\ ~(Len(file) + p <= Len(file)) /\ (Len(file) + p) - Len(file) = p
      BY <1>4, <2>2
    <2> QED BY <1>15, <2>1, <2>3, <2>4
  <1>16. ASSUME NEW x \in Seq(CellSet), file' = file \o x
         PROVE  /\ file # <<>> => file' # <<>>
                /\ synced \in 0..Len(file')
                /\ \A k \in acknowledged : \E p \in 1..synced : file'[p] = <<k, FrameCells>>
    <2>1. PICK l, m \in Nat : l = Len(file') /\ m = Len(x)
      <3>1. Len(x) \in Nat /\ Len(file') \in Nat
        BY <1>15, <1>16
      <3> QED BY <3>1
    <2>2. l = Len(file) + m /\ \A p \in 1..Len(file) : file'[p] = file[p]
      BY <1>15, <1>16, <2>1
    <2>3. synced \in 0..l
      BY <1>1, <1>4, <2>1, <2>2
    <2>4. \A p \in 1..synced : p \in 1..Len(file)
      BY <1>1, <1>4
    <2>5. file # <<>> => l # 0
      BY <1>1, <1>4, <2>1, <2>2
    <2> QED BY <1>1, <2>1, <2>2, <2>3, <2>4, <2>5
  <1>17. CASE Written(kind)
    <2>1. file' = file \o all /\ waiting' = <<>> /\ synced' = Len(file') /\ UNCHANGED faults
          /\ acknowledged' = acknowledged \cup {new}
      BY <1>3, <1>7, <1>9, <1>11, <1>17 DEF Written
    <2>2. PICK f, l : f = file' /\ l = Len(f)
      OBVIOUS
    <2>3. /\ f \in Seq(CellSet) /\ l = Len(file) + (Len(waiting) + FrameCells)
          /\ f[l] = <<new, FrameCells>>
      <3>1. Len(waiting) + FrameCells \in 1..Len(waiting) + FrameCells /\ FrameCells \in 1..FrameCells
        BY <1>4
      <3>2. /\ file' \in Seq(CellSet) /\ Len(file') = Len(file) + Len(all)
            /\ \A p \in 1..Len(all) : file'[Len(file) + p] = all[p]
        BY <1>12, <1>15, <2>1
      <3>3. file'[Len(file) + (Len(waiting) + FrameCells)] = all[Len(waiting) + FrameCells]
        BY <1>12, <3>1, <3>2
      <3>4. all[Len(waiting) + FrameCells] = <<new, FrameCells>>
        BY <1>10, <1>12, <3>1
      <3> QED BY <1>12, <2>2, <3>2, <3>3, <3>4
    <2>4. l \in Nat /\ l # 0 /\ l \in 0..l /\ l \in 1..l /\ 1..synced \subseteq 1..l
      <3>1. l \in Nat /\ l # 0 /\ synced <= l /\ synced \in Nat
        BY <1>1, <1>4, <2>3
      <3> QED BY <3>1
    <2>5. f # <<>>
      BY <2>2, <2>4
    <2>6. \A k \in acknowledged' : \E p \in 1..synced' : file'[p] = <<k, FrameCells>>
      <3> TAKE k \in acknowledged'
      <3>1. CASE k \in acknowledged
        BY <1>12, <1>16, <2>1, <2>2, <2>4, <3>1
      <3>2. CASE k = new
        BY <2>1, <2>2, <2>3, <2>4, <3>2
      <3> QED BY <2>1, <3>1, <3>2
    <2>7. Ordered(Cells, appended)'
      <3>1. Upto(frame, FrameCells) = frame
        BY <1>10, SubSeqFull DEF Upto
      <3>2. \A s, t, u \in Seq(CellSet) : (s \o t) \o u = s \o (t \o u)
        BY Regroup
      <3>3. file \o (waiting \o frame) = (file \o waiting) \o frame
        BY <1>1, <1>10, <3>2, Zenon
      <3>4. f \o <<>> = f
        BY <2>3, ConcatEmptySeq
      <3>5. (file \o waiting)' = (file \o waiting) \o frame
        BY <1>11, <2>1, <2>2, <3>3, <3>4
      <3>6. FrameCells \in 0..FrameCells
        BY <1>4
      <3>7. Ordered(Cells \o frame, a)
        BY <1>14, <3>1, <3>6
      <3> QED BY <1>2, <1>5, <3>5, <3>7 DEF Cells
    <2>8. waiting' \in Seq(CellSet) /\ faults' \in 0..MaxFaults /\ acknowledged' \subseteq DOMAIN appended'
          /\ synced' \in 0..Len(file')
      BY <1>1, <1>7, <1>8, <2>1, <2>2, <2>4
    <2> QED BY <1>7, <2>2, <2>3, <2>5, <2>6, <2>7, <2>8
  <1>18. CASE NotWritten(kind)
    <2>1. /\ faults < MaxFaults /\ faults' = faults + 1 /\ synced' = synced /\ acknowledged' = acknowledged
          /\ \E n \in 0..Len(all) : file' = file \o Upto(all, n) /\ waiting' \in {Past(all, n), Past(waiting, n)}
      BY <1>3, <1>9, <1>11, <1>18 DEF NotWritten
    <2>2. PICK n \in 0..Len(all) : file' = file \o Upto(all, n) /\ waiting' \in {Past(all, n), Past(waiting, n)}
      BY <2>1
    <2>3. PICK x, v : x = Upto(all, n) /\ v = waiting'
      OBVIOUS
    <2>4. x \in Seq(CellSet)
      BY <1>12, <2>3, UptoIs
    <2>5. v \in Seq(CellSet)
      <3>1. n \in Nat
        BY <1>12
      <3>2. Past(all, n) \in Seq(CellSet) /\ Past(waiting, n) \in Seq(CellSet)
        BY <1>1, <1>12, <3>1, PastIs
      <3> QED BY <2>2, <2>3, <3>2
    <2>6. faults' \in 0..MaxFaults
      BY <1>1, <1>4, <2>1
    <2>7. Ordered(Cells, appended)'
      <3>1. PICK j \in 0..Len(frame) : (file \o Upto(all, n)) \o v = (file \o waiting) \o Upto(frame, j)
        <4>1. v \in {Past(waiting \o frame, n), Past(waiting, n)} /\ n \in 0..Len(waiting \o frame)
          BY <1>11, <2>2, <2>3
        <4>2. \E j \in 0..Len(frame) :
                (file \o Upto(waiting \o frame, n)) \o v = (file \o waiting) \o Upto(frame, j)
          <5>1. file \in Seq(CellSet) /\ waiting \in Seq(CellSet) /\ frame \in Seq(CellSet)
            BY <1>1, <1>10
          <5> QED BY <4>1, <5>1, Cuts, Zenon
        <4> QED BY <1>11, <4>2
      <3>2. (file \o waiting)' = (file \o waiting) \o Upto(frame, j)
        BY <2>2, <2>3, <3>1
      <3>3. Ordered(Cells \o Upto(frame, j), a)
        BY <1>10, <1>14
      <3> QED BY <1>2, <1>5, <3>2, <3>3 DEF Cells
    <2>8. file' = file \o x
      BY <2>2, <2>3
    <2>9. file' \in Seq(CellSet)
      BY <1>15, <2>4, <2>8
    <2>10. /\ file # <<>> => file' # <<>>
           /\ synced \in 0..Len(file')
           /\ \A k \in acknowledged : \E p \in 1..synced : file'[p] = <<k, FrameCells>>
      BY <1>16, <2>4, <2>8
    <2>11. acknowledged' \subseteq DOMAIN appended'
      BY <1>7, <1>8, <2>1
    <2>12. Written(kind) => file' # <<>>
      BY <2>1, <1>1, <1>4 DEF Written
    <2> QED BY <1>7, <2>1, <2>3, <2>5, <2>6, <2>7, <2>9, <2>10, <2>11, <2>12
  <1> QED BY <1>17, <1>18

\* An empty ledger has the invariant.
LEMMA LedgerStart == LedgerInit => LedgerInv
  <1> SUFFICES ASSUME LedgerInit PROVE LedgerInv
    OBVIOUS
  <1>1. file \in Seq(CellSet) /\ waiting \in Seq(CellSet) /\ appended \in Seq(Kinds) /\ Len(file) = 0
        /\ Len(appended) = 0 /\ file = <<>>
    BY DEF LedgerInit
  <1>2. LedgerOK /\ SafeInv
    <2>1. 0 \in 0..Len(file) /\ 0 \in 0..MaxFaults /\ Len(appended) <= MaxFrames
      BY <1>1, LedgerAssumption
    <2>2. synced = 0 /\ faults = 0 /\ acknowledged = {} /\ running = FALSE
      BY DEF LedgerInit
    <2>3. LedgerOK
      BY <1>1, <2>1, <2>2 DEF LedgerOK
    <2> QED BY <2>2, <2>3 DEF SafeInv
  <1>3. Cells = <<>>
    BY DEF LedgerInit, Cells
  <1>4. PICK c : c = Cells
    OBVIOUS
  <1>5. DOMAIN c = {}
    BY <1>3, <1>4
  <1>6. Ordered(c, appended)
    BY <1>5 DEF Ordered
  <1> QED BY <1>2, <1>4, <1>6 DEF LedgerInv

\* What is cut off the end behind what is on the disk.
LEMMA Keeps ==
    ASSUME LedgerInv, NEW f \in Seq(CellSet), Len(f) <= Len(Cells), \A p \in 1..Len(f) : f[p] = Cells[p],
           synced <= Len(f)
    PROVE  /\ Ordered(f, appended) /\ synced \in 0..Len(f)
           /\ \A k \in acknowledged : \E p \in 1..synced : f[p] = <<k, FrameCells>>
  <1>1. /\ file \in Seq(CellSet) /\ waiting \in Seq(CellSet)
        /\ synced \in 0..Len(file) /\ Ordered(Cells, appended)
        /\ \A k \in acknowledged : \E p \in 1..synced : file[p] = <<k, FrameCells>>
    BY DEF LedgerInv, LedgerOK, SafeInv
  <1>2. /\ Cells \in Seq(CellSet) /\ Len(Cells) = Len(file) + Len(waiting)
        /\ \A p \in 1..Len(file) + Len(waiting) : Cells[p] = IF p <= Len(file) THEN file[p] ELSE waiting[p - Len(file)]
    BY <1>1, ConcatProperties DEF Cells
  <1>3. Ordered(f, appended)
    BY <1>1, <1>2, FrontOrdered
  <1>4. Len(file) \in Nat /\ Len(waiting) \in Nat /\ Len(f) \in Nat /\ synced \in Nat
    BY <1>1
  <1>5. \A p \in 1..synced : p \in 1..Len(f) /\ p \in 1..Len(file) + Len(waiting) /\ p <= Len(file)
    BY <1>1, <1>4
  <1>6. \A p \in 1..synced : f[p] = file[p]
    BY <1>2, <1>5
  <1>7. \A k \in acknowledged : \E p \in 1..synced : f[p] = <<k, FrameCells>>
    <2> TAKE k \in acknowledged
    <2>1. PICK p \in 1..synced : file[p] = <<k, FrameCells>>
      BY <1>1
    <2> QED BY <1>6, <2>1
  <1>8. synced \in 0..Len(f)
    BY <1>4
  <1> QED BY <1>3, <1>7, <1>8

\* Every step keeps the invariant: frames written or cut, ends closed, crashes.
LEMMA LedgerStep == LedgerInv /\ [LedgerNext]_ledgerVars => LedgerInv'
  <1> SUFFICES ASSUME LedgerInv, [LedgerNext]_ledgerVars PROVE LedgerInv'
    OBVIOUS
  <1>1. /\ file \in Seq(CellSet) /\ waiting \in Seq(CellSet) /\ appended \in Seq(Kinds)
        /\ Len(appended) <= MaxFrames /\ running \in BOOLEAN
        /\ synced \in 0..Len(file) /\ acknowledged \subseteq DOMAIN appended /\ faults \in 0..MaxFaults
        /\ Ordered(Cells, appended) /\ (running => file # <<>>)
        /\ \A k \in acknowledged : \E p \in 1..synced : file[p] = <<k, FrameCells>>
    BY DEF LedgerInv, LedgerOK, SafeInv
  <1>2. /\ Cells \in Seq(CellSet) /\ Len(Cells) = Len(file) + Len(waiting)
        /\ \A p \in 1..Len(file) + Len(waiting) : Cells[p] = IF p <= Len(file) THEN file[p] ELSE waiting[p - Len(file)]
    BY <1>1, ConcatProperties DEF Cells
  <1>3. Len(file) \in Nat /\ Len(waiting) \in Nat /\ synced \in Nat /\ synced <= Len(file) /\ MaxFaults \in Nat
    BY <1>1, LedgerAssumption
  <1>4. \A p \in 1..Len(file) : Cells[p] = file[p]
    <2>1. \A p \in 1..Len(file) : p \in 1..Len(file) + Len(waiting) /\ p <= Len(file)
      BY <1>3
    <2> QED BY <1>2, <2>1
  <1>5. ASSUME NEW kind \in Kinds, kind = "GENESIS" <=> Cells = <<>>, Written(kind) \/ NotWritten(kind),
               running' \in BOOLEAN, running' => file # <<>> \/ Written(kind)
        PROVE  LedgerInv'
    <2>1. /\ file' \in Seq(CellSet) /\ waiting' \in Seq(CellSet)
          /\ appended' \in Seq(Kinds) /\ Len(appended') <= MaxFrames
          /\ synced' \in 0..Len(file') /\ acknowledged' \subseteq DOMAIN appended'
          /\ faults' \in 0..MaxFaults
          /\ Ordered(Cells, appended)'
          /\ \A k \in acknowledged' : \E p \in 1..synced' : file'[p] = <<k, FrameCells>>
          /\ file # <<>> => file' # <<>>
          /\ Written(kind) => file' # <<>>
      BY <1>5, Writes
    <2>2. LedgerOK'
      BY <1>5, <2>1 DEF LedgerOK
    <2>3. SafeInv'
      BY <1>5, <2>1 DEF SafeInv
    <2> QED BY <2>1, <2>2, <2>3 DEF LedgerInv
  <1>6. ASSUME NEW f \in Seq(CellSet), file' = f, waiting' = <<>>, running' = FALSE,
               Len(f) <= Len(Cells), \A p \in 1..Len(f) : f[p] = Cells[p], synced <= Len(f),
               UNCHANGED <<synced, appended, acknowledged>>, faults' \in 0..MaxFaults
        PROVE  LedgerInv'
    <2>1. /\ Ordered(f, appended) /\ synced \in 0..Len(f)
          /\ \A k \in acknowledged : \E p \in 1..synced : f[p] = <<k, FrameCells>>
      BY <1>6, Keeps
    <2>2. f \o <<>> = f /\ <<>> \in Seq(CellSet)
      BY ConcatEmptySeq
    <2>3. (file \o waiting)' = f
      BY <1>6, <2>2
    <2>4. Ordered(Cells, appended)'
      BY <1>6, <2>1, <2>3 DEF Cells
    <2>5. LedgerOK'
      BY <1>1, <1>6, <2>1, <2>2 DEF LedgerOK
    <2>6. SafeInv'
      BY <1>6, <2>1 DEF SafeInv
    <2> QED BY <2>4, <2>5, <2>6 DEF LedgerInv
  <1>7. CASE Open
    <2>1. waiting = <<>> /\ ~(Len(file) > 0)
      BY <1>7 DEF Open, HasRecords
    <2>2. file = <<>>
      BY <1>1, <1>3, <2>1
    <2>3. Cells = <<>>
      BY <2>1, <2>2 DEF Cells
    <2>4. (Written("GENESIS") /\ running' = TRUE) \/ (NotWritten("GENESIS") /\ running' = FALSE)
      BY <1>7 DEF Open
    <2>5. "GENESIS" \in Kinds
      BY DEF Kinds
    <2> QED BY <1>5, <2>3, <2>4, <2>5
  <1>8. CASE AppendFrame \/ AppendFails
    <2>1. running /\ running' = running /\ (Written("EVENT") \/ NotWritten("EVENT"))
      BY <1>8 DEF AppendFrame, AppendFails
    <2>2. Cells # <<>>
      <3>1. Len(file) # 0
        BY <1>1, <2>1
      <3>2. Len(Cells) # 0
        BY <1>2, <1>3, <3>1
      <3> QED BY <3>2
    <2>3. "EVENT" \in Kinds /\ "EVENT" # "GENESIS"
      BY DEF Kinds
    <2> QED BY <1>1, <1>5, <2>1, <2>2, <2>3
  <1>9. CASE Reopen
    <2>1. UNCHANGED <<file, waiting, synced, appended, acknowledged, faults>> /\ running' = TRUE /\ Len(file) > 0
      BY <1>9 DEF Reopen, HasRecords
    <2>2. file # <<>>
      BY <2>1
    <2>3. Ordered(Cells, appended)'
      BY <1>1, <2>1 DEF Cells
    <2> QED BY <1>1, <2>1, <2>2, <2>3 DEF LedgerInv, LedgerOK, SafeInv
  <1>10. CASE Close
    <2>1. /\ running' = FALSE /\ waiting' = <<>> /\ UNCHANGED <<synced, appended, acknowledged>>
          /\ \/ file' = file \o waiting /\ UNCHANGED faults
             \/ /\ faults < MaxFaults /\ faults' = faults + 1
                /\ \E n \in 0..Len(waiting) - 1 : file' = file \o Upto(waiting, n)
      BY <1>10 DEF Close
    <2>2. faults' \in 0..MaxFaults
      BY <1>1, <1>3, <2>1
    <2>3. CASE file' = file \o waiting
      <3>1. file' = Cells
        BY <2>3 DEF Cells
      <3>2. synced <= Len(Cells) /\ Len(Cells) <= Len(Cells)
        BY <1>2, <1>3
      <3> QED BY <1>2, <1>6, <2>1, <2>2, <3>1, <3>2
    <2>4. CASE \E n \in 0..Len(waiting) - 1 : file' = file \o Upto(waiting, n)
      <3>1. PICK n \in 0..Len(waiting) - 1 : file' = file \o Upto(waiting, n)
        BY <2>4
      <3>2. PICK x, f : x = Upto(waiting, n) /\ f = file \o x
        OBVIOUS
      <3>3. n \in 0..Len(waiting) /\ n \in Nat /\ n <= Len(waiting)
        BY <1>3
      <3>4. x \in Seq(CellSet) /\ Len(x) = n /\ \A i \in 1..n : x[i] = waiting[i]
        BY <1>1, <3>2, <3>3, UptoIs
      <3>5. /\ f \in Seq(CellSet) /\ Len(f) = Len(file) + n
            /\ \A p \in 1..Len(file) + n : f[p] = IF p <= Len(file) THEN file[p] ELSE x[p - Len(file)]
        <4>1. x \in Seq(CellSet)
          BY <3>4
        <4>2. /\ file \o x \in Seq(CellSet) /\ Len(file \o x) = Len(file) + Len(x)
              /\ \A p \in 1..Len(file) + Len(x) :
                    (file \o x)[p] = IF p <= Len(file) THEN file[p] ELSE x[p - Len(file)]
          BY <1>1, <4>1, ConcatProperties
        <4> QED BY <3>2, <3>4, <4>2
      <3>6. \A p \in 1..Len(file) + n : p \in 1..Len(file) + Len(waiting)
                                       /\ (~(p <= Len(file)) => p - Len(file) \in 1..n)
        BY <1>3, <3>3
      <3>7. \A p \in 1..Len(f) : f[p] = Cells[p]
        BY <1>2, <3>4, <3>5, <3>6
      <3>8. Len(f) <= Len(Cells) /\ synced <= Len(f)
        BY <1>2, <1>3, <3>3, <3>5
      <3> QED BY <1>6, <2>1, <2>2, <3>1, <3>2, <3>5, <3>7, <3>8
    <2> QED BY <2>1, <2>3, <2>4
  <1>11. CASE CrashLedger
    <2>1. /\ running' = FALSE /\ waiting' = <<>> /\ UNCHANGED <<synced, appended, acknowledged>>
          /\ faults < MaxFaults /\ faults' = faults + 1
          /\ \E n \in synced..Len(file) : file' = Upto(file, n)
      BY <1>11 DEF CrashLedger
    <2>2. faults' \in 0..MaxFaults
      BY <1>1, <1>3, <2>1
    <2>3. PICK n \in synced..Len(file) : file' = Upto(file, n)
      BY <2>1
    <2>4. n \in 0..Len(file) /\ n \in Nat /\ n <= Len(file) /\ synced <= n
      BY <1>3
    <2>5. PICK f : f = Upto(file, n)
      OBVIOUS
    <2>6. f \in Seq(CellSet) /\ Len(f) = n /\ \A p \in 1..n : f[p] = file[p]
      BY <1>1, <2>4, <2>5, UptoIs
    <2>7. \A p \in 1..n : p \in 1..Len(file)
      BY <1>3, <2>4
    <2>8. \A p \in 1..Len(f) : f[p] = Cells[p]
      BY <1>4, <2>6, <2>7
    <2>9. Len(f) <= Len(Cells) /\ synced <= Len(f)
      BY <1>2, <1>3, <2>4, <2>6
    <2> QED BY <1>6, <2>1, <2>2, <2>3, <2>5, <2>6, <2>8, <2>9
  <1>12. CASE UNCHANGED ledgerVars
    <2>1. UNCHANGED <<file, waiting, synced, running, appended, acknowledged, faults>>
      BY <1>12 DEF ledgerVars
    <2>2. Ordered(Cells, appended)'
      BY <1>1, <2>1 DEF Cells
    <2> QED BY <1>1, <2>1, <2>2 DEF LedgerInv, LedgerOK, SafeInv
  <1> QED BY <1>7, <1>8, <1>9, <1>10, <1>11, <1>12 DEF LedgerNext

\* Whatever failed, the file is the front of what was appended, up to torn frames, and
\* what was acknowledged is on the disk.
THEOREM LedgerInductive == LedgerSpec => []LedgerInv
  BY LedgerStart, LedgerStep, PTL DEF LedgerSpec

-----------------------------------------------------------------------------
(* What a reader gets *)

\* The places of chunks of m cells.
LEMMA Products ==
    ASSUME NEW m \in Nat \ {0}, NEW i \in Nat, NEW j \in Nat, i < j
    PROVE  /\ i * m \in Nat /\ j * m \in Nat /\ (i + 1) * m \in Nat /\ (j - 1) * m \in Nat
           /\ i * m + m = (i + 1) * m /\ (i + 1) * m <= j * m
           /\ (j - 1) * m + m = j * m
  <1>1. i * m \in Nat /\ j * m \in Nat /\ (i + 1) * m \in Nat /\ (j - 1) * m \in Nat
    <2>1. i + 1 \in Nat /\ j - 1 \in Nat
      OBVIOUS
    <2>2. \A a, b \in Nat : a * b \in Nat
      BY SMT
    <2> QED BY <2>1, <2>2
  <1>2. i * m + m = (i + 1) * m /\ (j - 1) * m + m = j * m
    BY SMT
  <1>3. (i + 1) * m <= j * m
    <2>1. PICK d \in Nat : d = j - (i + 1)
      OBVIOUS
    <2>2. d * m \in Nat
      BY SMT
    <2>3. j * m = (i + 1) * m + d * m
      BY <2>1, SMT
    <2> QED BY <1>1, <2>2, <2>3, SMT
  <1> QED BY <1>1, <1>2, <1>3

\* How many chunks fit, and in which of them a place is.
LEMMA Quotient ==
    ASSUME NEW m \in Nat \ {0}, NEW l \in Nat
    PROVE  /\ l \div m \in Nat
           /\ \A n \in Nat : n <= l \div m <=> n * m <= l
           /\ \A c \in Nat : l < c * m => \E j \in 1..c, i \in 1..m : l + 1 = (j - 1) * m + i
  <1>1. PICK q, r : q = l \div m /\ r = l % m
    OBVIOUS
  <1>2. q \in Int /\ r \in 0..m - 1 /\ l = m * q + r
    BY <1>1, SMT
  <1>3. q \in Nat
    <2>1. ASSUME q <= -1 PROVE FALSE
      <3>1. m * q <= -m BY <1>2, <2>1, SMT
      <3> QED BY <1>2, <3>1, SMT
    <2> QED BY <1>2, <2>1, SMT
  <1>4. m * q = q * m /\ q * m \in Nat /\ (q + 1) * m = q * m + m
    BY <1>3, SMT
  <1>5. ASSUME NEW n \in Nat PROVE n <= q <=> n * m <= l
    <2>0. n * m \in Nat
      BY SMT
    <2>1. CASE n <= q
      <3>1. n * m <= q * m
        <4>1. CASE n = q
          BY <1>4, <4>1
        <4>2. CASE n < q
          BY <1>3, <1>4, <2>0, <4>2, Products, SMT
        <4> QED BY <1>3, <2>1, <4>1, <4>2
      <3> QED BY <1>2, <1>4, <2>0, <2>1, <3>1
    <2>2. CASE n > q
      <3>1. (q + 1) * m <= n * m
        BY <1>3, <2>2, Products
      <3>2. n * m > l
        BY <1>2, <1>4, <2>0, <3>1
      <3> QED BY <1>3, <2>0, <2>2, <3>2
    <2> QED BY <1>3, <2>1, <2>2
  <1>6. ASSUME NEW c \in Nat, l < c * m PROVE \E j \in 1..c, i \in 1..m : l + 1 = (j - 1) * m + i
    <2>1. ~(c <= q)
      BY <1>5, <1>6, <1>2, <1>4
    <2>2. q + 1 \in 1..c /\ r + 1 \in 1..m /\ (q + 1) - 1 = q
      BY <1>2, <1>3, <2>1
    <2>3. l + 1 = q * m + (r + 1)
      BY <1>2, <1>4
    <2> QED BY <2>2, <2>3
  <1> QED BY <1>1, <1>3, <1>5, <1>6

\* A run of cells is a frame.
LEMMA RunIsFrame ==
    ASSUME NEW f \in Seq(CellSet), NEW b \in Nat, b + FrameCells <= Len(f), NEW k
    PROVE  SubSeq(f, b + 1, b + FrameCells) = FrameOf(k) <=> \A i \in 1..FrameCells : f[b + i] = <<k, i>>
  <1>0. FrameCells \in Nat \ {0} /\ Len(f) \in Nat /\ FrameCells \in Nat
    BY LedgerAssumption
  <1>1. PICK t : t = SubSeq(f, b + 1, b + FrameCells)
    OBVIOUS
  <1>2. b + 1 \in Int /\ b + FrameCells \in Int /\ \A i \in b + 1..b + FrameCells : f[i] \in CellSet
    <2>1. \A i \in b + 1..b + FrameCells : i \in 1..Len(f)
      BY <1>0
    <2> QED BY <1>0, <2>1
  <1>3. PICK e \in Int : e = b + FrameCells
    BY <1>0
  <1>4. PICK a \in Int : a = b + 1
    OBVIOUS
  <1>5. \A i \in a..e : f[i] \in CellSet
    BY <1>2, <1>3, <1>4
  <1>6. /\ SubSeq(f, a, e) \in Seq(CellSet)
        /\ Len(SubSeq(f, a, e)) = IF a <= e THEN e - a + 1 ELSE 0
        /\ \A i \in 1..(e - a + 1) : SubSeq(f, a, e)[i] = f[a + i - 1]
    BY <1>5, SubSeqProperties
  <1>7. e - a + 1 = FrameCells /\ a <= e /\ \A i \in 1..FrameCells : a + i - 1 = b + i
    BY <1>0, <1>3, <1>4
  <1>8. t = SubSeq(f, a, e)
    BY <1>1, <1>3, <1>4
  <1>9. t \in Seq(CellSet) /\ Len(t) = FrameCells
    BY <1>6, <1>7, <1>8
  <1>10. ASSUME NEW i \in 1..FrameCells PROVE t[i] = f[b + i]
    BY <1>6, <1>7, <1>8
  <1>11. t = [i \in 1..FrameCells |-> f[b + i]]
    <2>1. t = [i \in 1..Len(t) |-> t[i]]
      BY <1>9
    <2> QED BY <1>9, <1>10, <2>1
  <1> QED BY <1>1, <1>11 DEF FrameOf

\* The reader gets the whole frames at the start of the file, as many as there are.
LEMMA ReadCount ==
    ASSUME LedgerInv
    PROVE  \E c \in Nat :
              /\ FramesRead = [j \in 1..c |-> file[j * FrameCells][1]]
              /\ c * FrameCells \in Nat /\ c * FrameCells <= Len(file)
              /\ \A j \in 1..c : \E k \in DOMAIN appended :
                    \A i \in 1..FrameCells : file[(j - 1) * FrameCells + i] = <<k, i>>
              /\ c * FrameCells + FrameCells <= Len(file) =>
                    \A k \in DOMAIN appended :
                        ~(\A i \in 1..FrameCells : file[c * FrameCells + i] = <<k, i>>)
  <1>0. FrameCells \in Nat \ {0} /\ file \in Seq(CellSet) /\ Len(file) \in Nat
    BY LedgerAssumption DEF LedgerInv, LedgerOK
  <1> DEFINE whole == {n \in 0..(Len(file) \div FrameCells) : \A j \in 1..n : ChunkIsWhole(j)}
             count == CHOOSE n \in whole : \A m \in whole : m <= n
  <1>1. FramesRead = [j \in 1..count |-> file[j * FrameCells][1]]
    BY DEF FramesRead
  <1>2. PICK d \in Nat : d = Len(file) \div FrameCells
    BY <1>0, Quotient
  <1>3. whole \in SUBSET (0..d) /\ 0 \in whole
    BY <1>2
  <1>4. \E n \in whole : \A m \in whole : n >= m
    BY <1>3, GreatestExists
  <1>5. \E n \in whole : \A m \in whole : m <= n
    <2>1. PICK n \in whole : \A m \in whole : n >= m
      BY <1>4
    <2>2. \A m \in whole : m <= n
      BY <1>3, <2>1
    <2> QED BY <2>2
  <1>6. count \in whole /\ \A m \in whole : m <= count
    BY <1>5
  <1> HIDE DEF count
  <1>7. count \in Nat /\ count <= d /\ \A j \in 1..count : ChunkIsWhole(j)
    BY <1>2, <1>3, <1>6
  <1>8. \A n \in Nat : n <= d <=> n * FrameCells <= Len(file)
    BY <1>0, <1>2, Quotient
  <1>9. PICK e : e = count * FrameCells
    OBVIOUS
  <1>10. e \in Nat /\ e <= Len(file) /\ (count + 1) * FrameCells = e + FrameCells
    BY <1>0, <1>7, <1>8, <1>9, Products
  <1>11. ASSUME NEW j \in 1..count
         PROVE  \E k \in DOMAIN appended : \A i \in 1..FrameCells : file[(j - 1) * FrameCells + i] = <<k, i>>
    <2>1. PICK k \in DOMAIN appended : SubSeq(file, (j - 1) * FrameCells + 1, j * FrameCells) = FrameOf(k)
      BY <1>7 DEF ChunkIsWhole
    <2>2. j \in Nat /\ j - 1 \in Nat /\ j - 1 < j /\ j <= count /\ j <= d
      BY <1>7
    <2>3. PICK b : b = (j - 1) * FrameCells
      OBVIOUS
    <2>4. b \in Nat /\ j * FrameCells = b + FrameCells
      BY <1>0, <2>2, <2>3, Products
    <2>5. b + FrameCells <= Len(file)
      BY <1>8, <2>2, <2>4
    <2>6. SubSeq(file, b + 1, b + FrameCells) = FrameOf(k)
      BY <2>1, <2>3, <2>4
    <2> QED BY <1>0, <2>3, <2>4, <2>5, <2>6, RunIsFrame
  <1>12. ASSUME e + FrameCells <= Len(file), NEW k \in DOMAIN appended,
                \A i \in 1..FrameCells : file[e + i] = <<k, i>>
         PROVE  FALSE
    <2>1. SubSeq(file, e + 1, e + FrameCells) = FrameOf(k)
      BY <1>0, <1>10, <1>12, RunIsFrame
    <2>2. count + 1 \in Nat /\ (count + 1) - 1 = count
      BY <1>7
    <2>3. ChunkIsWhole(count + 1)
      BY <1>9, <1>10, <2>1, <2>2 DEF ChunkIsWhole
    <2>4. count + 1 <= d
      BY <1>8, <1>10, <1>12, <2>2
    <2>5. \A j \in 1..count + 1 : j \in 1..count \/ j = count + 1
      BY <1>7
    <2>6. count + 1 \in whole
      BY <1>2, <1>7, <2>2, <2>3, <2>4, <2>5
    <2> QED BY <1>6, <1>7, <2>6
  <1> QED BY <1>1, <1>7, <1>9, <1>10, <1>11, <1>12

\* Behind the frames that are read stands the first cell of a torn one.
LEMMA FirstUnread ==
    ASSUME NEW kinds, NEW f \in Seq(CellSet), Ordered(f, kinds), NEW e \in Nat, e < Len(f),
           e # 0 => f[e][2] = FrameCells,
           e + FrameCells <= Len(f) =>
              \A k \in DOMAIN kinds : ~(\A i \in 1..FrameCells : f[e + i] = <<k, i>>)
    PROVE  /\ f[e + 1][2] = 1 /\ f[e + 1][1] \in DOMAIN kinds
           /\ ~\E p \in DOMAIN f : f[p] = <<f[e + 1][1], FrameCells>>
  <1>0. FrameCells \in Nat \ {0} /\ Len(f) \in Nat /\ DOMAIN f = 1..Len(f)
    BY LedgerAssumption
  <1>1. e + 1 \in DOMAIN f
    BY <1>0
  <1>2. PICK k, u : f[e + 1] = <<k, u>> /\ u \in 1..FrameCells
    BY <1>1, CellIs
  <1>3. k \in DOMAIN kinds
    BY <1>1, <1>2 DEF Ordered
  <1>4. u = 1
    <2>1. ASSUME u # 1 PROVE FALSE
      <3>1. 1 \in 0..f[e + 1][2] - 1
        BY <1>0, <1>2, <2>1
      <3>2. e + 1 - 1 \in DOMAIN f /\ f[e + 1 - 1] = <<f[e + 1][1], f[e + 1][2] - 1>>
        BY <1>1, <3>1 DEF Ordered
      <3>3. e + 1 - 1 = e
        OBVIOUS
      <3>4. e # 0 /\ f[e][2] = u - 1
        BY <1>0, <1>2, <3>2, <3>3
      <3> QED BY <1>0, <1>2, <3>4
    <2> QED BY <2>1
  <1>5. ASSUME NEW p \in DOMAIN f, f[p] = <<k, FrameCells>> PROVE FALSE
    <2>1. \A t \in 0..FrameCells - 1 : p - t \in DOMAIN f /\ f[p - t] = <<k, FrameCells - t>>
      <3>1. f[p][1] = k /\ f[p][2] = FrameCells
        BY <1>5
      <3> QED BY <3>1 DEF Ordered
    <2>2. p \in Int /\ p <= Len(f)
      BY <1>0
    <2>3. PICK s \in Int : s = p - (FrameCells - 1)
      BY <1>0, <2>2
    <2>4. s \in DOMAIN f /\ f[s] = <<k, 1>>
      <3>1. FrameCells - 1 \in 0..FrameCells - 1 /\ FrameCells - (FrameCells - 1) = 1
        BY <1>0
      <3> QED BY <2>1, <2>3, <3>1
    <2>5. s = e + 1
      <3>1. ~Precedes(<<k, 1>>, <<k, 1>>)
        <4>1. k \in 1..MaxFrames
          BY <1>1, <1>2, CellIs
        <4> QED BY <4>1, LedgerAssumption DEF Precedes
      <3>2. f[s] = <<k, 1>> /\ f[e + 1] = <<k, 1>>
        BY <1>2, <1>4, <2>4
      <3>3. ~(s < e + 1) /\ ~(e + 1 < s)
        BY <1>1, <2>4, <3>1, <3>2 DEF Ordered
      <3> QED BY <3>3
    <2>6. p = e + FrameCells
      BY <1>0, <2>2, <2>3, <2>5
    <2>7. ASSUME NEW i \in 1..FrameCells PROVE f[e + i] = <<k, i>>
      <3>1. FrameCells - i \in 0..FrameCells - 1 /\ FrameCells - (FrameCells - i) = i
            /\ p - (FrameCells - i) = e + i
        <4>1. FrameCells \in Int /\ e \in Int
          BY <1>0
        <4>2. FrameCells - i \in 0..FrameCells - 1 /\ FrameCells - (FrameCells - i) = i
          BY <4>1
        <4>3. p - (FrameCells - i) = e + i
          BY <2>6, <4>1
        <4> QED BY <4>2, <4>3
      <3> QED BY <2>1, <3>1
    <2> QED BY <1>3, <2>2, <2>6, <2>7
  <1> QED BY <1>2, <1>3, <1>4, <1>5

\* What the invariant says of the file is what a reader finds in it.
LEMMA ReadsBack == LedgerInv => LedgerReadsBack
  <1> SUFFICES ASSUME LedgerInv PROVE LedgerReadsBack
    OBVIOUS
  <1>1. /\ file \in Seq(CellSet) /\ waiting \in Seq(CellSet) /\ appended \in Seq(Kinds)
        /\ synced \in 0..Len(file) /\ acknowledged \subseteq DOMAIN appended /\ Ordered(Cells, appended)
        /\ \A k \in acknowledged : \E p \in 1..synced : file[p] = <<k, FrameCells>>
    BY DEF LedgerInv, LedgerOK, SafeInv
  <1>2. FrameCells \in Nat \ {0} /\ Len(file) \in Nat /\ DOMAIN file = 1..Len(file) /\ FrameCells \in 1..FrameCells
    BY <1>1, LedgerAssumption
  <1>3. Ordered(file, appended)
    <2>1. /\ Cells \in Seq(CellSet) /\ Len(Cells) = Len(file) + Len(waiting)
          /\ \A p \in 1..Len(file) + Len(waiting) : Cells[p] = IF p <= Len(file) THEN file[p] ELSE waiting[p - Len(file)]
      BY <1>1, ConcatProperties DEF Cells
    <2>2. Len(file) <= Len(Cells) /\ \A p \in 1..Len(file) : p \in 1..Len(file) + Len(waiting) /\ p <= Len(file)
      BY <1>1, <2>1
    <2>3. \A p \in 1..Len(file) : file[p] = Cells[p]
      BY <2>1, <2>2
    <2> QED BY <1>1, <2>1, <2>2, <2>3, FrontOrdered
  <1>4. PICK c \in Nat :
              /\ FramesRead = [j \in 1..c |-> file[j * FrameCells][1]]
              /\ c * FrameCells \in Nat /\ c * FrameCells <= Len(file)
              /\ \A j \in 1..c : \E k \in DOMAIN appended :
                    \A i \in 1..FrameCells : file[(j - 1) * FrameCells + i] = <<k, i>>
              /\ c * FrameCells + FrameCells <= Len(file) =>
                    \A k \in DOMAIN appended :
                        ~(\A i \in 1..FrameCells : file[c * FrameCells + i] = <<k, i>>)
    BY ReadCount
  <1>5. PICK read : read = FramesRead
    OBVIOUS
  <1>6. PICK e : e = c * FrameCells
    OBVIOUS
  <1>7. ASSUME NEW j \in 1..c
        PROVE  /\ j * FrameCells \in 1..Len(file)
               /\ file[j * FrameCells] = <<read[j], FrameCells>>
               /\ \A i \in 1..FrameCells : file[(j - 1) * FrameCells + i] = <<read[j], i>>
               /\ read[j] \in DOMAIN appended
    <2>1. PICK k \in DOMAIN appended : \A i \in 1..FrameCells : file[(j - 1) * FrameCells + i] = <<k, i>>
      BY <1>4
    <2>2. j \in Nat /\ j - 1 \in Nat /\ j - 1 < j /\ j - 1 < c /\ (j - 1) + 1 = j
      OBVIOUS
    <2>3. /\ (j - 1) * FrameCells \in Nat /\ j * FrameCells \in Nat
          /\ (j - 1) * FrameCells + FrameCells = j * FrameCells
          /\ ((j - 1) + 1) * FrameCells <= c * FrameCells
      BY <1>2, <2>2, Products
    <2>4. PICK b \in Nat : b = (j - 1) * FrameCells
      BY <2>3
    <2>5. PICK x \in Nat : x = j * FrameCells
      BY <2>3
    <2>6. x \in 1..Len(file) /\ x = b + FrameCells
      <3>1. x <= e /\ e <= Len(file) /\ e \in Nat /\ x = b + FrameCells
        BY <1>4, <1>6, <2>2, <2>3, <2>4, <2>5
      <3> QED BY <1>2, <3>1
    <2>7. file[x] = <<k, FrameCells>>
      BY <1>2, <2>1, <2>4, <2>6
    <2>8. read[j] = k
      BY <1>4, <1>5, <2>5, <2>7
    <2> QED BY <2>1, <2>5, <2>6, <2>7, <2>8
  <1>8. read = [j \in 1..c |-> read[j]] /\ DOMAIN read = 1..c /\ Len(read) = c
    <2>1. read = [j \in 1..c |-> file[j * FrameCells][1]]
      BY <1>4, <1>5
    <2>2. read \in Seq(DOMAIN appended)
      BY <1>7, <2>1
    <2> QED BY <2>1, <2>2
  <1>9. ASSUME e < Len(file)
        PROVE  /\ file[e + 1][2] = 1 /\ file[e + 1][1] \in DOMAIN appended
               /\ TornFrame(file[e + 1][1])
    <2>1. e \in Nat
      BY <1>4, <1>6
    <2>2. e # 0 => file[e][2] = FrameCells
      <3>1. c = 0 => e = 0
        BY <1>2, <1>6
      <3>2. c # 0 => c \in 1..c
        OBVIOUS
      <3> QED BY <1>6, <1>7, <3>1, <3>2
    <2>6. e + FrameCells <= Len(file) =>
              \A k \in DOMAIN appended : ~(\A i \in 1..FrameCells : file[e + i] = <<k, i>>)
      BY <1>4, <1>6
    <2>3. /\ file[e + 1][2] = 1 /\ file[e + 1][1] \in DOMAIN appended
          /\ ~\E p \in DOMAIN file : file[p] = <<file[e + 1][1], FrameCells>>
      BY <1>1, <1>3, <1>9, <2>1, <2>2, <2>6, FirstUnread
    <2>4. e + 1 \in DOMAIN file
      BY <1>2, <1>9, <2>1
    <2>5. file[e + 1] = <<file[e + 1][1], 1>> /\ 1 \in 1..FrameCells
      BY <1>1, <1>2, <2>3, <2>4, CellIs
    <2> QED BY <1>2, <2>3, <2>4, <2>5 DEF TornFrame
  <1>10. ASSUME NEW i \in 1..c, NEW j \in 1..c, i < j PROVE read[i] < read[j]
    <2>1. i \in Nat /\ j \in Nat
      OBVIOUS
    <2>2. PICK x, y : x = i * FrameCells /\ y = j * FrameCells
      OBVIOUS
    <2>3. x < y
      <3>1. x \in Nat /\ y \in Nat /\ x + FrameCells <= y
        BY <1>2, <1>10, <2>1, <2>2, Products
      <3> QED BY <1>2, <3>1
    <2>4. x \in DOMAIN file /\ y \in DOMAIN file /\ file[x] = <<read[i], FrameCells>> /\ file[y] = <<read[j], FrameCells>>
      BY <1>2, <1>7, <2>2
    <2>5. Precedes(file[x], file[y])
      BY <1>3, <2>3, <2>4 DEF Ordered
    <2> QED BY <1>2, <2>4, <2>5 DEF Precedes
  <1>11. ASSUME NEW i \in 1..c PROVE appended[read[i]] = "GENESIS" <=> i = 1
    <2>1. 1 \in 1..c /\ 1 \in 1..FrameCells
      BY <1>2
    <2>2. (1 - 1) * FrameCells + 1 = 1
      BY <1>2, SMT
    <2>3. file[1][1] = read[1]
      BY <1>7, <2>1, <2>2
    <2>4. file[i * FrameCells][1] = read[i] /\ i * FrameCells \in DOMAIN file
      <3>1. PICK x : x = i * FrameCells
        OBVIOUS
      <3>2. x \in 1..Len(file) /\ file[x] = <<read[i], FrameCells>>
        BY <1>7, <3>1
      <3> QED BY <1>2, <3>1, <3>2
    <2>5. appended[read[i]] = "GENESIS" <=> read[i] = read[1]
      BY <1>3, <2>3, <2>4 DEF Ordered
    <2>6. i # 1 => read[1] # read[i]
      <3>1. i # 1 => 1 < i
        OBVIOUS
      <3>2. read[1] \in Nat /\ read[i] \in Nat
        BY <1>1, <1>7, <2>1
      <3> QED BY <1>10, <2>1, <3>1, <3>2
    <2> QED BY <2>5, <2>6
  <1>12. ASSUME NEW k \in acknowledged, \A j \in 1..k : ~TornFrame(j)
         PROVE  \E i \in 1..c : read[i] = k
    <2>1. PICK p \in 1..synced : file[p] = <<k, FrameCells>>
      BY <1>1
    <2>2. p \in Nat /\ p # 0 /\ p - 1 \in Nat /\ (p - 1) + 1 = p /\ p \in DOMAIN file /\ e \in Nat /\ k \in Nat /\ p <= Len(file)
      BY <1>1, <1>2, <1>4, <1>6
    <2>3. CASE p <= e
      <3>1. p - 1 < c * FrameCells
        BY <1>6, <2>2, <2>3
      <3>2. PICK j \in 1..c, i \in 1..FrameCells : (p - 1) + 1 = (j - 1) * FrameCells + i
        BY <1>2, <2>2, <3>1, Quotient
      <3>3. file[p] = <<read[j], i>>
        BY <1>7, <2>2, <3>2
      <3>4. k = read[j]
        BY <2>1, <3>3
      <3> QED BY <3>4
    <2>4. CASE e < p
      <3>1. e < Len(file) /\ e + 1 \in DOMAIN file
        BY <1>2, <2>2, <2>4
      <3>2. PICK m : m = file[e + 1][1]
        OBVIOUS
      <3>3. TornFrame(m) /\ m \in Nat /\ m >= 1
        BY <1>1, <1>9, <3>1, <3>2
      <3>4. m <= k
        <4>1. CASE e + 1 = p
          BY <2>1, <2>2, <3>2, <4>1
        <4>2. CASE e + 1 < p
          <5>1. Precedes(file[e + 1], file[p])
            BY <1>3, <2>2, <3>1, <4>2 DEF Ordered
          <5> QED BY <2>1, <2>2, <3>2, <3>3, <5>1 DEF Precedes
        <4> QED BY <2>2, <2>4, <4>1, <4>2
      <3>5. m \in 1..k
        BY <2>2, <3>3, <3>4
      <3> QED BY <1>12, <3>3, <3>5
    <2> QED BY <2>2, <2>3, <2>4
  <1>13. ReaderRaises => \E k \in DOMAIN appended : TornFrame(k)
    <2>1. ReaderRaises <=> e # Len(file)
      BY <1>5, <1>6, <1>8 DEF ReaderRaises
    <2>2. e # Len(file) => e < Len(file)
      <3>1. PICK l \in Nat : l = Len(file)
        BY <1>2
      <3>2. e \in Nat /\ e <= l
        BY <1>4, <1>6, <3>1
      <3>3. e # l => e < l
        BY <3>2
      <3> QED BY <3>1, <3>3
    <2> QED BY <1>9, <2>1, <2>2
  <1> QED BY <1>5, <1>8, <1>10, <1>11, <1>12, <1>13 DEF LedgerReadsBack

\* LedgerReadsBack: a reader of the ledger gets what was appended, in order, each frame
\* once, up to a torn one.
THEOREM LedgerIsReadBack == LedgerSpec => []LedgerReadsBack
  BY LedgerInductive, ReadsBack, PTL
-----------------------------------------------------------------------------
(* Adding up the sizes of files *)

\* What FoldSet calls iter: the amount of each subset, by one of its files and the rest.
First(s) == CHOOSE x \in s : TRUE
Adds(iter, S) ==
    iter = [s \in SUBSET S |-> IF s = {} THEN 0 ELSE iter[s \ {First(s)}] + First(s).size]

\* The amount of files is what it gives for all of them.
LEMMA AmountIs ==
    ASSUME NEW S
    PROVE  Amount(S) = (CHOOSE iter : Adds(iter, S))[S]
  BY DEF Amount, FoldSet, MapThenFoldSet, Adds, First

\* A subset without one of its files.
LEMMA RestIsSmaller ==
    ASSUME NEW s, IsFiniteSet(s), NEW x \in s
    PROVE  /\ IsFiniteSet(s \ {x}) /\ Cardinality(s \ {x}) = Cardinality(s) - 1
           /\ Cardinality(s) \in Nat /\ Cardinality(s) # 0 /\ Cardinality(s \ {x}) \in Nat
  <1>1. Cardinality(s) \in Nat /\ Cardinality(s) # 0
    BY FS_CardinalityType, FS_EmptySet
  <1>2. IsFiniteSet(s \ {x}) /\ Cardinality(s \ {x}) = Cardinality(s) - 1
    BY FS_RemoveElement
  <1> QED BY <1>1, <1>2

\* There is such a function: on the sets of at most n files, for every n.
LEMMA AdderExists ==
    ASSUME NEW S, IsFiniteSet(S)
    PROVE  \E iter : Adds(iter, S)
  <1> DEFINE Upto_(g, n) == /\ g = [s \in SUBSET S |-> g[s]]
                            /\ \A s \in SUBSET S : Cardinality(s) <= n =>
                                  g[s] = IF s = {} THEN 0 ELSE g[s \ {First(s)}] + First(s).size
             Short == {n \in Nat : ~\E g : Upto_(g, n)}
  <1>1. \A s \in SUBSET S : IsFiniteSet(s) /\ Cardinality(s) \in Nat /\ Cardinality(s) <= Cardinality(S)
    BY FS_Subset, FS_CardinalityType
  <1>2. \A s \in SUBSET S : s # {} =>
            /\ First(s) \in s /\ s \ {First(s)} \in SUBSET S
            /\ Cardinality(s \ {First(s)}) = Cardinality(s) - 1
    <2> SUFFICES ASSUME NEW s \in SUBSET S, s # {}
                 PROVE  /\ First(s) \in s /\ s \ {First(s)} \in SUBSET S
                        /\ Cardinality(s \ {First(s)}) = Cardinality(s) - 1
      OBVIOUS
    <2>1. First(s) \in s
      BY DEF First
    <2> QED BY <1>1, <2>1, RestIsSmaller
  <1>3. Short = {}
    <2> SUFFICES ASSUME Short # {} PROVE FALSE
      OBVIOUS
    <2>1. PICK n \in Short : \A m \in Short : n <= m
      <3>1. Short \in SUBSET Nat
        OBVIOUS
      <3> HIDE DEF Short
      <3> QED BY <3>1, LeastExists
    <2>2. n \in Nat /\ ~\E g : Upto_(g, n)
      OBVIOUS
    <2>3. CASE n = 0
      <3>1. PICK g : g = [s \in SUBSET S |-> 0]
        OBVIOUS
      <3>2. \A s \in SUBSET S : Cardinality(s) <= 0 => s = {}
        BY <1>1, FS_EmptySet
      <3>3. Upto_(g, 0)
        BY <3>1, <3>2
      <3> QED BY <2>2, <2>3, <3>3
    <2>4. CASE n # 0
      <3>1. n - 1 \in Nat /\ ~(n <= n - 1)
        BY <2>2, <2>4
      <3>2. n - 1 \notin Short
        BY <2>1, <3>1
      <3>3. PICK g : Upto_(g, n - 1)
        BY <3>1, <3>2
      <3>4. PICK h : h = [s \in SUBSET S |-> IF Cardinality(s) = n THEN g[s \ {First(s)}] + First(s).size ELSE g[s]]
        OBVIOUS
      <3>5. \A s \in SUBSET S : h[s] = IF Cardinality(s) = n THEN g[s \ {First(s)}] + First(s).size ELSE g[s]
        BY <3>4
      <3>6. ASSUME NEW s \in SUBSET S, Cardinality(s) <= n
            PROVE  h[s] = IF s = {} THEN 0 ELSE h[s \ {First(s)}] + First(s).size
        <4>0. Cardinality(s) \in Nat
          BY <1>1
        <4>1. CASE s = {}
          <5>1. Cardinality(s) = 0
            BY <4>1, FS_EmptySet
          <5>2. Cardinality(s) # n /\ Cardinality(s) <= n - 1
            BY <2>4, <3>1, <5>1
          <5>3. h[s] = g[s]
            BY <3>5, <5>2
          <5> QED BY <3>3, <4>1, <5>2, <5>3
        <4>2. CASE s # {}
          <5>1. /\ s \ {First(s)} \in SUBSET S
                /\ Cardinality(s \ {First(s)}) = Cardinality(s) - 1
            BY <1>2, <4>2
          <5>2. h[s \ {First(s)}] = g[s \ {First(s)}]
            <6>1. Cardinality(s \ {First(s)}) # n
              BY <2>2, <3>6, <4>0, <5>1
            <6> QED BY <3>5, <5>1, <6>1
          <5>3. CASE Cardinality(s) = n
            BY <3>5, <4>2, <5>2, <5>3
          <5>4. CASE Cardinality(s) # n
            <6>1. Cardinality(s) <= n - 1
              BY <2>2, <3>6, <4>0, <5>4
            <6>2. g[s] = g[s \ {First(s)}] + First(s).size
              BY <3>3, <4>2, <6>1
            <6> QED BY <3>5, <4>2, <5>2, <5>4, <6>2
          <5> QED BY <5>3, <5>4
        <4> QED BY <4>1, <4>2
      <3>7. h = [s \in SUBSET S |-> h[s]]
        BY <3>4
      <3>8. Upto_(h, n)
        BY <3>6, <3>7
      <3> QED BY <2>2, <3>8
    <2> QED BY <2>3, <2>4
  <1>4. PICK g : Upto_(g, Cardinality(S))
    <2>1. Cardinality(S) \in Nat /\ Cardinality(S) \notin Short
      BY <1>3, FS_CardinalityType
    <2> QED BY <2>1
  <1>5. \A s \in SUBSET S : g[s] = IF s = {} THEN 0 ELSE g[s \ {First(s)}] + First(s).size
    BY <1>1, <1>4
  <1>6. g = [s \in SUBSET S |-> IF s = {} THEN 0 ELSE g[s \ {First(s)}] + First(s).size]
    BY <1>4, <1>5
  <1> QED BY <1>6 DEF Adds

\* And it does not matter which of the files is taken first.
LEMMA AnyFirst ==
    ASSUME NEW S, NEW iter, IsFiniteSet(S), Adds(iter, S), \A f \in S : f.size \in Nat
    PROVE  /\ \A s \in SUBSET S : iter[s] \in Nat
           /\ \A s \in SUBSET S, x \in S : x \in s => iter[s] = iter[s \ {x}] + x.size
  <1> DEFINE SumOf(s) == iter[s] \in Nat /\ \A x \in s : iter[s] = iter[s \ {x}] + x.size
             Bad == {n \in Nat : \E s \in SUBSET S : Cardinality(s) = n /\ ~SumOf(s)}
  <1>1. \A s \in SUBSET S : IsFiniteSet(s) /\ Cardinality(s) \in Nat
    BY FS_Subset, FS_CardinalityType
  <1>2. \A s \in SUBSET S : iter[s] = IF s = {} THEN 0 ELSE iter[s \ {First(s)}] + First(s).size
    BY DEF Adds
  <1>3. Bad = {}
    <2> SUFFICES ASSUME Bad # {} PROVE FALSE
      OBVIOUS
    <2>1. PICK n \in Bad : \A m \in Bad : n <= m
      <3>1. Bad \in SUBSET Nat
        OBVIOUS
      <3> HIDE DEF Bad
      <3> QED BY <3>1, LeastExists
    <2>2. PICK s \in SUBSET S : Cardinality(s) = n /\ ~SumOf(s)
      OBVIOUS
    <2>3. s # {}
      BY <1>2, <2>2
    <2>4. \A t \in SUBSET S : Cardinality(t) = n - 1 => SumOf(t)
      <3> SUFFICES ASSUME NEW t \in SUBSET S, Cardinality(t) = n - 1, ~SumOf(t) PROVE FALSE
        OBVIOUS
      <3>1. n \in Nat /\ n - 1 \in Nat
        BY <1>1, <2>2
      <3>2. n - 1 \in Bad
        BY <3>1
      <3> QED BY <2>1, <3>1, <3>2
    <2>5. \A x \in s : s \ {x} \in SUBSET S /\ Cardinality(s \ {x}) = n - 1 /\ x.size \in Nat
      BY <1>1, <2>2, RestIsSmaller
    <2>6. PICK y \in s : iter[s] = iter[s \ {y}] + y.size
      <3>1. First(s) \in s
        BY <2>3 DEF First
      <3> QED BY <1>2, <2>3, <3>1
    <2>7. SumOf(s \ {y})
      BY <2>4, <2>5
    <2>8. iter[s] \in Nat
      <3>1. iter[s \ {y}] \in Nat /\ y.size \in Nat
        BY <2>5, <2>7
      <3> QED BY <2>6, <3>1
    <2>9. ASSUME NEW x \in s PROVE iter[s] = iter[s \ {x}] + x.size
      <3>1. CASE x = y
        BY <2>6, <3>1
      <3>2. CASE x # y
        <4>1. x \in s \ {y} /\ y \in s \ {x} /\ (s \ {y}) \ {x} = (s \ {x}) \ {y}
          BY <3>2
        <4>2. iter[s \ {y}] = iter[(s \ {y}) \ {x}] + x.size
          BY <2>7, <4>1
        <4>3. SumOf(s \ {x})
          BY <2>4, <2>5
        <4>4. iter[s \ {x}] = iter[(s \ {x}) \ {y}] + y.size
          BY <4>1, <4>3
        <4>5. (s \ {x}) \ {y} \in SUBSET S /\ Cardinality((s \ {x}) \ {y}) \in Nat
          BY <1>1
        <4>6. PICK r : r = iter[(s \ {x}) \ {y}]
          OBVIOUS
        <4>7. iter[s \ {y}] = r + x.size /\ iter[s \ {x}] = r + y.size
          BY <4>1, <4>2, <4>4, <4>6
        <4>8. r \in Int
          <5>1. Cardinality(s \ {x}) = n - 1 /\ n \in Nat
            BY <1>1, <2>2, <2>5
          <5>2. SumOf((s \ {x}) \ {y})
            <6>1. Cardinality((s \ {x}) \ {y}) = n - 2
              <7>1. Cardinality((s \ {x}) \ {y}) = Cardinality(s \ {x}) - 1
                BY <1>1, <2>5, <4>1, RestIsSmaller
              <7> QED BY <5>1, <7>1
            <6> SUFFICES ASSUME ~SumOf((s \ {x}) \ {y}) PROVE FALSE
              OBVIOUS
            <6>2. n - 2 \in Bad
              BY <4>5, <6>1
            <6> QED BY <2>1, <5>1, <6>2
          <5> QED BY <4>6, <5>2
        <4> QED BY <2>5, <2>6, <4>7, <4>8
      <3> QED BY <3>1, <3>2
    <2> QED BY <2>2, <2>8, <2>9
  <1>4. \A s \in SUBSET S : SumOf(s)
    BY <1>1, <1>3
  <1> QED BY <1>4

\* The amount of a part, read off the function of the whole.
LEMMA PartAmount ==
    ASSUME NEW S, IsFiniteSet(S), NEW iter, Adds(iter, S), NEW T \in SUBSET S
    PROVE  Amount(T) = iter[T]
  <1>1. IsFiniteSet(T) /\ \A s \in SUBSET T : IsFiniteSet(s) /\ Cardinality(s) \in Nat /\ s \in SUBSET S
    BY FS_Subset, FS_CardinalityType
  <1>2. PICK part : part = CHOOSE g : Adds(g, T)
    OBVIOUS
  <1>3. Adds(part, T)
    BY <1>1, <1>2, AdderExists
  <1> DEFINE Bad == {n \in Nat : \E s \in SUBSET T : Cardinality(s) = n /\ part[s] # iter[s]}
  <1>4. Bad = {}
    <2> SUFFICES ASSUME Bad # {} PROVE FALSE
      OBVIOUS
    <2>1. PICK n \in Bad : \A m \in Bad : n <= m
      <3>1. Bad \in SUBSET Nat
        OBVIOUS
      <3> HIDE DEF Bad
      <3> QED BY <3>1, LeastExists
    <2>2. PICK s \in SUBSET T : Cardinality(s) = n /\ part[s] # iter[s]
      OBVIOUS
    <2>3. s \in SUBSET S
      OBVIOUS
    <2>4. /\ part[s] = IF s = {} THEN 0 ELSE part[s \ {First(s)}] + First(s).size
          /\ iter[s] = IF s = {} THEN 0 ELSE iter[s \ {First(s)}] + First(s).size
      BY <1>3, <2>3 DEF Adds
    <2>5. s # {}
      BY <2>2, <2>4
    <2>6. First(s) \in s
      BY <2>5 DEF First
    <2>7. s \ {First(s)} \in SUBSET T /\ Cardinality(s \ {First(s)}) = n - 1 /\ n - 1 \in Nat /\ ~(n <= n - 1)
      <3>1. Cardinality(s \ {First(s)}) = Cardinality(s) - 1 /\ Cardinality(s \ {First(s)}) \in Nat
        BY <1>1, <2>6, RestIsSmaller
      <3> QED BY <2>2, <3>1
    <2>8. part[s \ {First(s)}] = iter[s \ {First(s)}]
      <3> SUFFICES ASSUME part[s \ {First(s)}] # iter[s \ {First(s)}] PROVE FALSE
        OBVIOUS
      <3>1. n - 1 \in Bad
        BY <2>7
      <3> QED BY <2>1, <2>7, <3>1
    <2> QED BY <2>2, <2>4, <2>5, <2>8
  <1>5. part[T] = iter[T]
    BY <1>1, <1>4
  <1> QED BY <1>2, <1>5, AmountIs

\* The amount of nothing, of one file less, and of one more.
LEMMA Amounts ==
    ASSUME NEW S, IsFiniteSet(S), \A f \in S : f.size \in Nat
    PROVE  /\ Amount(S) \in Nat
           /\ Amount({}) = 0
           /\ \A x \in S : Amount(S) = Amount(S \ {x}) + x.size
           /\ \A x : x \notin S /\ x.size \in Nat => Amount(S \cup {x}) = Amount(S) + x.size
  <1>1. PICK iter : Adds(iter, S)
    BY AdderExists
  <1>2. \A T \in SUBSET S : Amount(T) = iter[T]
    BY <1>1, PartAmount
  <1>3. /\ \A s \in SUBSET S : iter[s] \in Nat
        /\ \A s \in SUBSET S, x \in S : x \in s => iter[s] = iter[s \ {x}] + x.size
    <2>1. \A f \in S : f.size \in Nat
      OBVIOUS
    <2> QED BY <1>1, <2>1, AnyFirst
  <1>4. Amount(S) \in Nat /\ \A x \in S : Amount(S) = Amount(S \ {x}) + x.size
    BY <1>2, <1>3
  <1>5. Amount({}) = 0
    <2>1. iter[{}] = 0
      BY <1>1 DEF Adds
    <2> QED BY <1>2, <2>1
  <1>6. ASSUME NEW x, x \notin S, x.size \in Nat PROVE Amount(S \cup {x}) = Amount(S) + x.size
    <2>1. IsFiniteSet(S \cup {x}) /\ (\A f \in S \cup {x} : f.size \in Nat)
      BY <1>6, FS_AddElement
    <2>2. PICK more : Adds(more, S \cup {x})
      BY <2>1, AdderExists
    <2>3. \A T \in SUBSET (S \cup {x}) : Amount(T) = more[T]
      BY <2>1, <2>2, PartAmount
    <2>4. \A s \in SUBSET (S \cup {x}), y \in S \cup {x} : y \in s => more[s] = more[s \ {y}] + y.size
      BY <2>1, <2>2, AnyFirst
    <2>5. (S \cup {x}) \ {x} = S /\ x \in S \cup {x}
      BY <1>6
    <2>6. more[S \cup {x}] = more[(S \cup {x}) \ {x}] + x.size
      BY <2>4, <2>5
    <2> QED BY <2>3, <2>5, <2>6
  <1> QED BY <1>4, <1>5, <1>6
-----------------------------------------------------------------------------
(* Copies of the database, request by request *)

\* What a copy of the database is made of.
LEMMA PartsOfBook ==
    ASSUME NEW n \in Nat, NEW d, BookOK(d, n)
    PROVE  /\ d = [users |-> d.users, files |-> d.files]
           /\ d.users \in [Names -> UserEntries \cup {NoUser}]
           /\ \A f \in d.files : /\ f \in FileEntries(n) /\ f.id \in 1..n /\ f.userId \in UserIds
                                 /\ f.userId.name \in Names /\ f.size \in Nat
           /\ \A m \in Names : d.users[m] # NoUser =>
                 d.users[m] \in UserEntries /\ d.users[m].id \in UserIds /\ d.users[m].used \in Nat
  <1>1. d \in Databases(n)
    BY DEF BookOK
  <1>2. /\ d = [users |-> d.users, files |-> d.files]
        /\ d.users \in [Names -> UserEntries \cup {NoUser}] /\ d.files \subseteq FileEntries(n)
    BY <1>1 DEF Databases
  <1>3. ASSUME NEW f \in d.files
        PROVE  /\ f \in FileEntries(n) /\ f.id \in 1..n /\ f.userId \in UserIds
               /\ f.userId.name \in Names /\ f.size \in Nat
    <2>1. f \in FileEntries(n) /\ f.id \in 1..n /\ f.userId \in UserIds /\ f.size \in Sizes
      BY <1>2 DEF FileEntries
    <2> QED BY <2>1, CloudAssumption DEF UserIds
  <1>4. ASSUME NEW m \in Names, d.users[m] # NoUser
        PROVE  d.users[m] \in UserEntries /\ d.users[m].id \in UserIds /\ d.users[m].used \in Nat
    <2>1. d.users[m] \in UserEntries
      BY <1>2, <1>4
    <2> QED BY <2>1 DEF UserEntries
  <1> QED BY <1>2, <1>3, <1>4

\* The files of a user can be added up.
LEMMA FilesAddUp ==
    ASSUME NEW n \in Nat, NEW d, BookOK(d, n), NEW m \in Names
    PROVE  IsFiniteSet(FilesOf(d.files, m)) /\ \A f \in FilesOf(d.files, m) : f.size \in Nat
  <1>1. FilesOf(d.files, m) \in SUBSET d.files
    BY DEF FilesOf
  <1>2. IsFiniteSet(d.files)
    BY DEF BookOK
  <1> QED BY <1>1, <1>2, PartsOfBook, FS_Subset

\* The empty database keeps its books.
LEMMA EmptyBook ==
    ASSUME NEW n \in Nat
    PROVE  BookOK(EmptyDatabase, n) /\ \A m \in Names : EmptyDatabase.users[m] = NoUser
  <1>1. EmptyDatabase \in Databases(n) /\ EmptyDatabase.files = {}
        /\ \A m \in Names : EmptyDatabase.users[m] = NoUser
    BY DEF EmptyDatabase, Databases
  <1>2. IsFiniteSet(EmptyDatabase.files)
    BY <1>1, FS_EmptySet
  <1> QED BY <1>1, <1>2 DEF BookOK

\* What holds up to one request holds up to the next.
LEMMA BookStays ==
    ASSUME NEW n \in Nat, NEW d, BookOK(d, n)
    PROVE  BookOK(d, n + 1)
  <1>1. FileEntries(n) \subseteq FileEntries(n + 1)
    <2>1. 1..n \subseteq 1..(n + 1)
      OBVIOUS
    <2> QED BY <2>1 DEF FileEntries
  <1>2. Databases(n) \subseteq Databases(n + 1)
    BY <1>1 DEF Databases
  <1> QED BY <1>2 DEF BookOK

\* A copy that keeps its books is not mistaken for a torn one.
LEMMA BookIsNotTorn ==
    ASSUME NEW n \in 0..MaxRequests, NEW d, BookOK(d, n)
    PROVE  d # Torn
  <1>1. FileEntries(n) \subseteq FileEntries(MaxRequests)
    <2>1. 1..n \subseteq 1..MaxRequests
      BY CloudAssumption
    <2> QED BY <2>1 DEF FileEntries
  <1>2. d \in Databases(MaxRequests)
    BY <1>1 DEF BookOK, Databases
  <1> QED BY <1>2, CloudAssumption

\* The books with a new user in them.
LEMMA UserEntered ==
    ASSUME NEW n \in Nat, NEW d, NEW e, NEW m \in Names, NEW id \in UserIds,
           BookOK(d, n), d.users[m] = NoUser, id.name = m,
           e = WithUser(d, m, id)
    PROVE  /\ BookOK(e, n)
           /\ e.files = d.files
           /\ e.users[m] # NoUser /\ e.users[m].id = id
           /\ \A k \in Names : k # m => e.users[k] = d.users[k]
  <1>2. PICK user : user = [id |-> id, used |-> 0]
    OBVIOUS
  <1>3. user \in UserEntries /\ user # NoUser /\ user.used = 0 /\ user.id = id
    BY <1>2, CloudAssumption DEF UserEntries
  <1>4. e = [users |-> [d.users EXCEPT ![m] = user], files |-> d.files]
    BY <1>2, PartsOfBook DEF WithUser
  <1>5. /\ e.files = d.files /\ e.users = [d.users EXCEPT ![m] = user]
    BY <1>4
  <1>6. e.users[m] = user /\ \A k \in Names : k # m => e.users[k] = d.users[k]
    BY <1>5, PartsOfBook
  <1>7. e \in Databases(n)
    <2>1. d.files \in SUBSET FileEntries(n)
      BY PartsOfBook
    <2>2. [d.users EXCEPT ![m] = user] \in [Names -> UserEntries \cup {NoUser}]
      BY <1>3, PartsOfBook
    <2>3. [users |-> [d.users EXCEPT ![m] = user], files |-> d.files] \in Databases(n)
      BY <2>1, <2>2 DEF Databases
    <2> QED BY <1>4, <2>3
  <1>8. \A k \in Names : FilesOf(e.files, k) = FilesOf(d.files, k)
    BY <1>5
  <1>9. FilesOf(e.files, m) = {} /\ Amount({}) = 0 /\ Limit \in Nat
    <2>1. FilesOf(e.files, m) = {}
      BY <1>5 DEF FilesOf, BookOK
    <2> QED BY <2>1, Amounts, FS_EmptySet, CloudAssumption
  <1>10. \A f \in e.files : e.users[f.userId.name] # NoUser
    <2> SUFFICES ASSUME NEW f \in e.files PROVE e.users[f.userId.name] # NoUser
      OBVIOUS
    <2>1. f.userId.name \in Names /\ d.users[f.userId.name] # NoUser
      BY <1>5, PartsOfBook DEF BookOK
    <2> QED BY <1>6, <2>1
  <1>11. ASSUME NEW k \in Names, e.users[k] # NoUser
         PROVE  /\ e.users[k].used = Amount(FilesOf(e.files, k)) /\ e.users[k].used <= Limit
                /\ e.users[k].id.name = k
    <2>1. CASE k = m
      BY <1>3, <1>6, <1>9, <2>1
    <2>2. CASE k # m
      <3>1. e.users[k] = d.users[k] /\ FilesOf(e.files, k) = FilesOf(d.files, k)
        BY <1>6, <1>8, <2>2
      <3> QED BY <1>11, <3>1 DEF BookOK
    <2> QED BY <2>1, <2>2
  <1>12. BookOK(e, n)
    BY <1>5, <1>7, <1>10, <1>11 DEF BookOK
  <1> QED BY <1>3, <1>5, <1>6, <1>12

\* Files that a copy may have instead of its own: those of m are others, and amount
\* to what is given.
FilesFit(files, n, d, m, amount) ==
    /\ files \in SUBSET FileEntries(n) /\ IsFiniteSet(files)
    /\ \A f, g \in files : f.id = g.id => f = g
    /\ \A f \in files : d.users[f.userId.name] # NoUser
    /\ \A k \in Names : k # m => FilesOf(files, k) = FilesOf(d.files, k)
    /\ amount \in Nat /\ amount = Amount(FilesOf(files, m)) /\ amount <= Limit

\* Every user keeps his id.
SameUsers(d, e) ==
    \A k \in Names : /\ e.users[k] # NoUser <=> d.users[k] # NoUser
                     /\ d.users[k] # NoUser => e.users[k].id = d.users[k].id

\* The books with such files in them.
LEMMA FilesEntered ==
    ASSUME NEW n \in Nat, NEW d, NEW e, NEW m \in Names, NEW files, NEW amount,
           BookOK(d, n), d.users[m] # NoUser, FilesFit(files, n, d, m, amount),
           e = [users |-> [d.users EXCEPT ![m] = [id |-> d.users[m].id, used |-> amount]],
                files |-> files]
    PROVE  BookOK(e, n) /\ e.files = files /\ SameUsers(d, e)
  <1>0. /\ files \in SUBSET FileEntries(n) /\ IsFiniteSet(files)
        /\ \A f, g \in files : f.id = g.id => f = g
        /\ \A f \in files : d.users[f.userId.name] # NoUser
        /\ \A k \in Names : k # m => FilesOf(files, k) = FilesOf(d.files, k)
        /\ amount \in Nat /\ amount = Amount(FilesOf(files, m)) /\ amount <= Limit
    BY DEF FilesFit
  <1>1. PICK user : user = [id |-> d.users[m].id, used |-> amount]
    OBVIOUS
  <1>2. user \in UserEntries /\ user # NoUser /\ user.used = amount /\ user.id = d.users[m].id
    <2>1. d.users[m].id \in UserIds
      BY PartsOfBook
    <2> QED BY <1>1, <1>0, <2>1, CloudAssumption DEF UserEntries
  <1>3. e.files = files /\ e.users = [d.users EXCEPT ![m] = user]
        /\ e = [users |-> e.users, files |-> files]
    BY <1>1
  <1>4. e.users[m] = user /\ \A k \in Names : k # m => e.users[k] = d.users[k]
    BY <1>3, PartsOfBook
  <1>5. e \in Databases(n)
    <2>1. e.users \in [Names -> UserEntries \cup {NoUser}]
      BY <1>2, <1>3, PartsOfBook
    <2> QED BY <1>0, <1>3, <2>1 DEF Databases
  <1>6. \A k \in Names : FilesOf(e.files, k) = FilesOf(files, k)
    BY <1>3
  <1>7. \A f \in e.files : e.users[f.userId.name] # NoUser
    <2> SUFFICES ASSUME NEW f \in e.files PROVE e.users[f.userId.name] # NoUser
      OBVIOUS
    <2>1. f.userId.name \in Names
      BY <1>0, <1>3 DEF FileEntries, UserIds
    <2>2. d.users[f.userId.name] # NoUser
      BY <1>0, <1>3
    <2> QED BY <1>2, <1>4, <2>1, <2>2
  <1>8. ASSUME NEW k \in Names, e.users[k] # NoUser
        PROVE  /\ e.users[k].used = Amount(FilesOf(e.files, k)) /\ e.users[k].used <= Limit
               /\ e.users[k].id.name = k
    <2>1. CASE k = m
      <3>1. d.users[m].id.name = m
        BY DEF BookOK
      <3> QED BY <1>0, <1>2, <1>4, <1>6, <2>1, <3>1
    <2>2. CASE k # m
      <3>1. e.users[k] = d.users[k] /\ FilesOf(e.files, k) = FilesOf(d.files, k)
        BY <1>0, <1>4, <1>6, <2>2
      <3> QED BY <1>8, <3>1 DEF BookOK
    <2> QED BY <2>1, <2>2
  <1>9. BookOK(e, n)
    BY <1>0, <1>3, <1>5, <1>7, <1>8 DEF BookOK
  <1>10. SameUsers(d, e)
    BY <1>2, <1>4 DEF SameUsers
  <1> QED BY <1>3, <1>9, <1>10

\* The books with a file more, for which there was room.
LEMMA FileEntered ==
    ASSUME NEW n \in Nat, NEW d, NEW e, NEW entry \in FileEntries(n), BookOK(d, n),
           d.users[entry.userId.name] # NoUser, \A f \in d.files : f.id # entry.id,
           entry.size <= Limit - d.users[entry.userId.name].used,
           e = WithFile(d, entry)
    PROVE  /\ BookOK(e, n)
           /\ e.files = d.files \cup {entry}
           /\ SameUsers(d, e)
  <1>1. PICK m : m = entry.userId.name
    OBVIOUS
  <1>2. m \in Names /\ entry.size \in Nat /\ d.users[m] # NoUser /\ d.users[m].used \in Nat
        /\ d.users[m] \in UserEntries
    <2>1. m \in Names /\ entry.size \in Nat
      BY <1>1, CloudAssumption DEF FileEntries, UserIds
    <2> QED BY <1>1, <2>1, PartsOfBook
  <1>3. PICK amount : amount = d.users[m].used + entry.size
    OBVIOUS
  <1>4. amount \in Nat /\ amount <= Limit
    BY <1>1, <1>2, <1>3, CloudAssumption
  <1>5. PICK files : files = d.files \cup {entry}
    OBVIOUS
  <1>6. e = [users |-> [d.users EXCEPT ![m] = [id |-> d.users[m].id, used |-> amount]],
             files |-> files]
    <2>1. d.users[m] = [id |-> d.users[m].id, used |-> d.users[m].used]
      BY <1>2 DEF UserEntries
    <2>2. [d.users[m] EXCEPT !.used = @ + entry.size] = [id |-> d.users[m].id, used |-> amount]
      BY <1>3, <2>1
    <2>3. [d.users EXCEPT ![m].used = @ + entry.size] = [d.users EXCEPT ![m] = [id |-> d.users[m].id, used |-> amount]]
      BY <2>2
    <2>4. d = [users |-> d.users, files |-> d.files]
      BY PartsOfBook
    <2>5. e = [users |-> [d.users EXCEPT ![m].used = @ + entry.size], files |-> files]
      <3>1. e = [d EXCEPT !.files = @ \cup {entry}, !.users[entry.userId.name].used = @ + entry.size]
        BY DEF WithFile
      <3> QED BY <1>1, <1>5, <2>4, <3>1
    <2> QED BY <2>3, <2>5
  <1>7. files \in SUBSET FileEntries(n) /\ IsFiniteSet(files)
    <2>1. IsFiniteSet(d.files)
      BY DEF BookOK
    <2> QED BY <1>5, <2>1, PartsOfBook, FS_AddElement
  <1>8. /\ \A f, g \in files : f.id = g.id => f = g
        /\ \A f \in files : d.users[f.userId.name] # NoUser
    BY <1>5 DEF BookOK
  <1>9. /\ FilesOf(files, m) = FilesOf(d.files, m) \cup {entry}
        /\ entry \notin FilesOf(d.files, m)
        /\ \A k \in Names : k # m => FilesOf(files, k) = FilesOf(d.files, k)
    BY <1>1, <1>5 DEF FilesOf
  <1>10. amount = Amount(FilesOf(files, m))
    <2>1. Amount(FilesOf(d.files, m) \cup {entry}) = Amount(FilesOf(d.files, m)) + entry.size
      BY <1>2, <1>9, FilesAddUp, Amounts
    <2>2. d.users[m].used = Amount(FilesOf(d.files, m))
      BY <1>2 DEF BookOK
    <2> QED BY <1>3, <1>9, <2>1, <2>2
  <1>11. FilesFit(files, n, d, m, amount)
    BY <1>4, <1>7, <1>8, <1>9, <1>10 DEF FilesFit
  <1>12. BookOK(e, n) /\ e.files = files /\ SameUsers(d, e)
    BY <1>2, <1>6, <1>11, FilesEntered
  <1> QED BY <1>5, <1>12

\* And with a file less.
LEMMA FileFreed ==
    ASSUME NEW n \in Nat, NEW d, BookOK(d, n), NEW entry \in d.files
    PROVE  /\ BookOK(Freed(d, entry), n)
           /\ Freed(d, entry).files = d.files \ {entry}
           /\ SameUsers(d, Freed(d, entry))
  <1>1. PICK m : m = entry.userId.name
    OBVIOUS
  <1>2. m \in Names /\ entry.size \in Nat /\ d.users[m] # NoUser /\ d.users[m].used \in Nat
        /\ d.users[m] \in UserEntries /\ Limit \in Nat
    <2>1. m \in Names /\ entry.size \in Nat /\ d.users[m] # NoUser
      BY <1>1, PartsOfBook DEF BookOK
    <2> QED BY <2>1, PartsOfBook, CloudAssumption
  <1>3. PICK amount : amount = d.users[m].used - entry.size
    OBVIOUS
  <1>4. PICK files : files = d.files \ {entry}
    OBVIOUS
  <1>5. Freed(d, entry) = [users |-> [d.users EXCEPT ![m] = [id |-> d.users[m].id, used |-> amount]],
                          files |-> files]
    <2>1. d.users[m] = [id |-> d.users[m].id, used |-> d.users[m].used]
      BY <1>2 DEF UserEntries
    <2>2. [d.users[m] EXCEPT !.used = @ - entry.size] = [id |-> d.users[m].id, used |-> amount]
      BY <1>3, <2>1
    <2>3. [d.users EXCEPT ![m].used = @ - entry.size] = [d.users EXCEPT ![m] = [id |-> d.users[m].id, used |-> amount]]
      BY <2>2
    <2>4. d = [users |-> d.users, files |-> d.files]
      BY PartsOfBook
    <2>5. Freed(d, entry) = [users |-> [d.users EXCEPT ![m].used = @ - entry.size], files |-> files]
      <3>1. Freed(d, entry) = [d EXCEPT !.files = @ \ {entry}, !.users[entry.userId.name].used = @ - entry.size]
        BY DEF Freed
      <3> QED BY <1>1, <1>4, <2>4, <3>1
    <2> QED BY <2>3, <2>5
  <1>6. files \in SUBSET FileEntries(n) /\ IsFiniteSet(files)
    <2>1. IsFiniteSet(d.files)
      BY DEF BookOK
    <2> QED BY <1>4, <2>1, PartsOfBook, FS_RemoveElement
  <1>7. /\ \A f, g \in files : f.id = g.id => f = g
        /\ \A f \in files : d.users[f.userId.name] # NoUser
    BY <1>4 DEF BookOK
  <1>8. /\ FilesOf(files, m) = FilesOf(d.files, m) \ {entry}
        /\ entry \in FilesOf(d.files, m)
        /\ \A k \in Names : k # m => FilesOf(files, k) = FilesOf(d.files, k)
    BY <1>1, <1>4 DEF FilesOf
  <1>9. PICK left : left = Amount(FilesOf(d.files, m) \ {entry})
    OBVIOUS
  <1>10. amount = left /\ amount \in Nat /\ amount <= Limit
    <2>1. Amount(FilesOf(d.files, m)) = left + entry.size
      BY <1>2, <1>8, <1>9, FilesAddUp, Amounts
    <2>2. d.users[m].used = Amount(FilesOf(d.files, m)) /\ d.users[m].used <= Limit
      BY <1>2 DEF BookOK
    <2>3. left \in Nat
      <3>1. IsFiniteSet(FilesOf(d.files, m) \ {entry}) /\ \A f \in FilesOf(d.files, m) \ {entry} : f.size \in Nat
        BY <1>2, FilesAddUp, FS_RemoveElement
      <3> QED BY <1>9, <3>1, Amounts
    <2>4. PICK u : u = d.users[m].used
      OBVIOUS
    <2>5. PICK s : s = entry.size
      OBVIOUS
    <2>6. u \in Nat /\ s \in Nat /\ u = left + s /\ u <= Limit /\ amount = u - s
      BY <1>2, <1>3, <2>1, <2>2, <2>4, <2>5
    <2> QED BY <1>2, <2>3, <2>6
  <1>11. amount = Amount(FilesOf(files, m))
    BY <1>8, <1>9, <1>10
  <1>12. PICK e : e = Freed(d, entry)
    OBVIOUS
  <1>13. FilesFit(files, n, d, m, amount)
    BY <1>6, <1>7, <1>8, <1>10, <1>11 DEF FilesFit
  <1>14. BookOK(e, n) /\ e.files = files /\ SameUsers(d, e)
    BY <1>2, <1>5, <1>12, <1>13, FilesEntered
  <1> QED BY <1>4, <1>12, <1>14

-----------------------------------------------------------------------------
(* The invariant *)

\* What every request reads keeps its books.
LEMMA DatabaseIsBook ==
    ASSUME CloudInv
    PROVE  BookOK(Database, requests) /\ requests \in Nat
  <1>1. requests \in Nat
    BY CloudAssumption DEF CloudInv
  <1> QED BY <1>1, EmptyBook DEF CloudInv, Database

\* What is fine for a request stays so as others come.
LEMMA RequestStays ==
    ASSUME NEW n \in Nat, NEW r, RequestOK(r, n)
    PROVE  RequestOK(r, n + 1)
  <1>1. BookOK(r.db, n + 1)
    BY BookStays DEF RequestOK
  <1>2. FileEntries(n) \subseteq FileEntries(n + 1)
    <2>1. 1..n \subseteq 1..(n + 1)
      OBVIOUS
    <2> QED BY <2>1 DEF FileEntries
  <1> QED BY <1>1, <1>2 DEF RequestOK

\* A request that is at work has a book that is kept, and one that stores is an upload.
LEMMA RequestIs ==
    ASSUME CloudInv, NEW w \in Workers, request[w] # Idle
    PROVE  /\ RequestOK(request[w], requests) /\ BookOK(request[w].db, requests)
           /\ request[w].at = "store" => request[w].kind = "upload"
  <1>1. PICK r : r = request[w] /\ RequestOK(r, requests)
    <2>1. RequestOK(request[w], requests)
      BY Zenon DEF CloudInv
    <2>2. PICK r : r = request[w]
      OBVIOUS
    <2> QED BY <2>1, <2>2, Zenon
  <1>2. BookOK(r.db, requests)
    BY <1>1, Zenon DEF RequestOK
  <1>3. r.at = "store" => r.kind = "upload"
    <2>1. \/ r.kind = "upload" \/ r.at = "unlink"
          \/ r.at \in {"save", "saving", "mixed"}
      BY <1>1, Zenon DEF RequestOK
    <2> QED BY <2>1
  <1> QED BY <1>1, <1>2, <1>3

\* At first there is nothing.
LEMMA CloudStarts == CloudInit => CloudInv
  <1> SUFFICES ASSUME CloudInit PROVE CloudInv
    OBVIOUS
  <1>1. requests \in 0..MaxRequests /\ logins \subseteq UserIds /\ db = Torn
    BY CloudAssumption DEF CloudInit
  <1>2. request = [w \in Workers |-> request[w]] /\ \A w \in Workers : request[w] = Idle
    BY DEF CloudInit
  <1>3. OnRecord(Database, confirmed, logins, {})
    <2>1. Database.files = {}
      BY <1>1 DEF Database, EmptyDatabase
    <2> QED BY <2>1 DEF OnRecord, CloudInit
  <1> QED BY <1>1, <1>2, <1>3 DEF CloudInv, OneAtATime

\* A request that reads the database, and goes on with a copy that is fine.
LEMMA BeginKeeps ==
    ASSUME CloudInv, NEW w \in Workers, NEW state, Begin(w, state),
           RequestOK(state, requests + 1),
           OnRecord(Database, confirmed, logins, {}) => WorksAlone(state)
    PROVE  CloudInv'
  <1>1. requests \in Nat
    BY DatabaseIsBook
  <1>2. requests' \in 0..MaxRequests /\ logins' \subseteq UserIds /\ requests' = requests + 1
    BY <1>1, CloudAssumption DEF CloudInv, Begin
  <1>3. /\ request' = [v \in Workers |-> request'[v]]
        /\ request'[w] = state /\ \A v \in Workers : v # w => request'[v] = request[v]
    BY DEF CloudInv, Begin
  <1>4. db' = Torn \/ BookOK(db', requests')
    <2>1. db' = db /\ (db = Torn \/ BookOK(db, requests))
      BY DEF CloudInv, Begin
    <2> QED BY <1>1, <1>2, <2>1, BookStays
  <1>5. ASSUME NEW v \in Workers, request'[v] # Idle
        PROVE  RequestOK(request'[v], requests')
    <2>1. CASE v = w
      BY <1>2, <1>3, <2>1
    <2>2. CASE v # w
      <3>1. request'[v] = request[v] /\ RequestOK(request[v], requests)
        BY <1>3, <1>5, <2>2 DEF CloudInv
      <3> QED BY <1>1, <1>2, <3>1, RequestStays
    <2> QED BY <2>1, <2>2
  <1>6. ASSUME ~disturbed' PROVE OneAtATime'
    <2>1. ~disturbed /\ \A v \in Workers : request[v] = Idle
      BY <1>6 DEF Begin
    <2>2. OnRecord(Database, confirmed, logins, {})
      BY <2>1 DEF CloudInv, OneAtATime
    <2>3. WorksAlone(state)
      BY <2>2
    <2>4. /\ db' = db /\ compressed' = compressed /\ logins' = logins /\ confirmed' = confirmed
          /\ lost' = lost /\ emptied' = emptied
      BY DEF Begin, histories
    <2>5. WorksAlone(request[w])'
      <3>1. /\ Database' = Database /\ Going(state)' = Going(state)
            /\ FilesAnswered(state)' = FilesAnswered(state)
            /\ LoginsAnswered(state)' = LoginsAnswered(state)
        BY <2>4 DEF Database, Going, FilesAnswered, LoginsAnswered
      <3>2. \A d, files, tokens, gone :
                OnRecord(d, files, tokens, gone)' <=> OnRecord(d, files, tokens, gone)
        BY <2>4 DEF OnRecord
      <3>3. OnRecord(state.db, confirmed, logins, {}) => OnRecord(state.db, confirmed, logins, {})'
        BY <2>4, <3>2 DEF OnRecord
      <3>4. OnRecord(state.db, FilesAnswered(state), LoginsAnswered(state), {})
                => OnRecord(state.db, FilesAnswered(state), LoginsAnswered(state), {})'
        BY <2>4, <3>1 DEF OnRecord
      <3>5. OnRecord(Database, confirmed, logins, Going(state))
                => OnRecord(Database, confirmed, logins, Going(state))'
        BY <2>4, <3>1 DEF OnRecord
      <3>6. WorksAlone(state)'
        BY <2>3, <2>4, <3>1, <3>3, <3>4, <3>5 DEF WorksAlone
      <3> QED BY <1>3, <3>6
    <2>6. request'[w] # Idle
      BY <1>3 DEF RequestOK, Idle
    <2> QED BY <1>3, <2>1, <2>5, <2>6 DEF OneAtATime
  <1> QED BY <1>2, <1>3, <1>4, <1>5, <1>6 DEF CloudInv

\* A registration, ...
LEMMA RegisterKeeps ==
    ASSUME CloudInv, NEW w \in Workers, NEW n \in Names, RegisterUser(w, n)
    PROVE  CloudInv'
  <1>1. requests \in Nat /\ BookOK(Database, requests) /\ Database.users[n] = NoUser
    BY DatabaseIsBook DEF RegisterUser
  <1>2. PICK id : id = [name |-> n, nth |-> requests + 1]
    OBVIOUS
  <1>3. id \in UserIds /\ id.name = n
    BY <1>1, <1>2 DEF UserIds
  <1>4. PICK e : e = WithUser(Database, n, id)
    OBVIOUS
  <1>5. /\ BookOK(e, requests) /\ e.files = Database.files
        /\ e.users[n] # NoUser /\ e.users[n].id = id
        /\ \A k \in Names : k # n => e.users[k] = Database.users[k]
    BY <1>1, <1>3, <1>4, UserEntered
  <1>6. PICK state : state = [at |-> "save", kind |-> "register", about |-> id, db |-> e]
    OBVIOUS
  <1>7. Begin(w, state)
    BY <1>2, <1>4, <1>6 DEF RegisterUser
  <1>8. /\ state.at = "save" /\ state.kind = "register" /\ state.about = id /\ state.db = e
        /\ state = [at |-> state.at, kind |-> state.kind, about |-> state.about, db |-> state.db]
    BY <1>6
  <1>9. RequestOK(state, requests + 1)
    <2>1. BookOK(e, requests + 1)
      BY <1>1, <1>5, BookStays
    <2> QED BY <1>3, <1>8, <2>1 DEF RequestOK
  <1>10. ASSUME OnRecord(Database, confirmed, logins, {}) PROVE WorksAlone(state)
    <2>1. \A f \in Database.files : f.userId.name \in Names /\ f.userId.name # n
      <3>1. \A f \in Database.files : Database.users[f.userId.name] # NoUser
        BY <1>1 DEF BookOK
      <3> QED BY <1>1, <3>1, PartsOfBook
    <2>2. ~emptied => \A i \in logins : i.name \in Names /\ i.name # n
      <3>1. \A i \in logins : i.name \in Names
        BY DEF CloudInv, UserIds
      <3> QED BY <1>1, <1>10, <3>1 DEF OnRecord
    <2>3. FilesAnswered(state) = confirmed /\ LoginsAnswered(state) = logins \cup {id}
      BY <1>8 DEF FilesAnswered, LoginsAnswered
    <2>4. OnRecord(e, confirmed, logins \cup {id}, {})
      BY <1>3, <1>5, <1>10, <2>1, <2>2 DEF OnRecord
    <2>5. Going(state) = {}
      BY <1>8 DEF Going
    <2> QED BY <1>1, <1>5, <1>8, <1>10, <2>3, <2>4, <2>5 DEF WorksAlone
  <1> QED BY <1>7, <1>9, <1>10, BeginKeeps

\* ... an upload ...
LEMMA UploadKeeps ==
    ASSUME CloudInv, NEW w \in Workers, NEW id \in logins, NEW size \in Sizes, Upload(w, id, size)
    PROVE  CloudInv'
  <1>1. requests \in Nat /\ BookOK(Database, requests)
    BY DatabaseIsBook
  <1>2. id \in UserIds
    BY DEF CloudInv
  <1>3. PICK entry : entry = [id |-> requests + 1, userId |-> id, size |-> size]
    OBVIOUS
  <1>4. entry.id = requests + 1 /\ entry.userId = id /\ entry.size = size
    BY <1>3
  <1>5. entry \in FileEntries(requests + 1)
    BY <1>1, <1>2, <1>3 DEF FileEntries
  <1>6. PICK state : state = [at |-> "store", kind |-> "upload", db |-> Database, about |-> entry]
    OBVIOUS
  <1>7. Begin(w, state)
    BY <1>3, <1>6 DEF Upload
  <1>8. /\ state.at = "store" /\ state.kind = "upload" /\ state.about = entry /\ state.db = Database
        /\ state = [at |-> state.at, kind |-> state.kind, about |-> state.about, db |-> state.db]
    BY <1>6
  <1>9. Database.users[id.name] # NoUser /\ size <= Limit - Database.users[id.name].used
    BY DEF Upload
  <1>10. RequestOK(state, requests + 1)
    <2>1. BookOK(Database, requests + 1)
      BY <1>1, BookStays
    <2>2. \A f \in Database.files : f.id # entry.id
      <3> SUFFICES ASSUME NEW f \in Database.files PROVE f.id # entry.id
        OBVIOUS
      <3>1. f.id \in 1..requests
        BY <1>1, PartsOfBook
      <3> QED BY <1>1, <1>4, <3>1
    <2> QED BY <1>4, <1>5, <1>8, <1>9, <2>1, <2>2 DEF RequestOK
  <1>11. ASSUME OnRecord(Database, confirmed, logins, {}) PROVE WorksAlone(state)
    <2>1. Going(state) = {} /\ entry.userId \in logins
      BY <1>4, <1>8 DEF Going
    <2> QED BY <1>8, <1>11, <2>1 DEF WorksAlone
  <1> QED BY <1>7, <1>10, <1>11, BeginKeeps

\* ... and a deletion begin.
LEMMA DeleteKeeps ==
    ASSUME CloudInv, NEW w \in Workers, NEW entry \in Database.files, Delete(w, entry)
    PROVE  CloudInv'
  <1>1. requests \in Nat /\ BookOK(Database, requests)
    BY DatabaseIsBook
  <1>2. PICK state : state = [at |-> "unlink", kind |-> "delete", about |-> entry, db |-> Database]
    OBVIOUS
  <1>3. Begin(w, state)
    BY <1>2 DEF Delete
  <1>4. /\ state.at = "unlink" /\ state.kind = "delete" /\ state.about = entry /\ state.db = Database
        /\ state = [at |-> state.at, kind |-> state.kind, about |-> state.about, db |-> state.db]
    BY <1>2
  <1>5. RequestOK(state, requests + 1)
    <2>1. BookOK(Database, requests + 1)
      BY <1>1, BookStays
    <2> QED BY <1>4, <2>1 DEF RequestOK
  <1>6. ASSUME OnRecord(Database, confirmed, logins, {}) PROVE WorksAlone(state)
    <2>1. OnRecord(Database, confirmed, logins, Going(state))
      BY <1>6 DEF OnRecord
    <2> QED BY <1>4, <1>6, <2>1 DEF WorksAlone
  <1> QED BY <1>3, <1>5, <1>6, BeginKeeps

\* A request that goes on: it alone changes.
LEMMA GoingOnKeeps ==
    ASSUME CloudInv, NEW w \in Workers, request[w] # Idle, NEW state, RequestOK(state, requests),
           request' = [request EXCEPT ![w] = state], db' = db \/ db' = Torn,
           UNCHANGED <<logins, requests, confirmed, disturbed>>,
           WorksAlone(request[w]) => WorksAlone(request[w])'
    PROVE  CloudInv'
  <1>1. /\ request' = [v \in Workers |-> request'[v]]
        /\ request'[w] = state /\ \A v \in Workers : v # w => request'[v] = request[v]
    BY DEF CloudInv
  <1>2. /\ requests' \in 0..MaxRequests /\ logins' \subseteq UserIds
        /\ requests' = requests
        /\ db' = Torn \/ BookOK(db', requests')
    BY DEF CloudInv
  <1>3. \A v \in Workers : request'[v] # Idle => RequestOK(request'[v], requests')
    BY <1>1, <1>2 DEF CloudInv
  <1>4. ASSUME ~disturbed' PROVE OneAtATime'
    <2>1. PICK v \in Workers : /\ request[v] # Idle /\ \A u \in Workers : request[u] # Idle => u = v
                               /\ WorksAlone(request[v])
      BY <1>4 DEF CloudInv, OneAtATime
    <2>2. v = w /\ state # Idle
      BY <2>1 DEF RequestOK, Idle
    <2>3. \A u \in Workers : request'[u] # Idle => u = w
      BY <1>1, <2>1, <2>2
    <2>4. WorksAlone(request[w])'
      BY <2>1, <2>2
    <2>5. request'[w] # Idle
      BY <1>1, <2>2
    <2> QED BY <2>3, <2>4, <2>5 DEF OneAtATime
  <1> QED BY <1>1, <1>2, <1>3, <1>4 DEF CloudInv

\* A request whose copy is to be saved.
LEMMA CopyReady ==
    ASSUME NEW r, NEW kind, NEW about, NEW e,
           r = [at |-> r.at, kind |-> kind, about |-> about, db |-> r.db]
    PROVE  ToSave(r, e) = [at |-> "save", kind |-> kind, about |-> about, db |-> e]
  <1>1. PICK q : q = [r EXCEPT !.at = "save"]
    OBVIOUS
  <1>2. ToSave(r, e) = [[r EXCEPT !.at = "save"] EXCEPT !.db = e]
    BY DEF ToSave
  <1>3. q = [at |-> "save", kind |-> kind, about |-> about, db |-> r.db]
    BY <1>1
  <1>4. [q EXCEPT !.db = e] = [at |-> "save", kind |-> kind, about |-> about, db |-> e]
    BY <1>3
  <1> QED BY <1>1, <1>2, <1>4

\* The file is stored, and entered, ...
LEMMA StoreKeeps ==
    ASSUME CloudInv, NEW w \in Workers, Store(w)
    PROVE  CloudInv'
  <1>1. PICK r : r = request[w]
    OBVIOUS
  <1>2. r.at = "store" /\ r # Idle /\ requests \in Nat
    BY <1>1, DatabaseIsBook DEF Store, Idle
  <1>3. RequestOK(r, requests)
    BY <1>1, <1>2 DEF CloudInv
  <1>4. PICK entry : entry = r.about
    OBVIOUS
  <1>5. PICK d : d = r.db
    OBVIOUS
  <1>6. /\ r.kind = "upload" /\ entry \in FileEntries(requests) /\ BookOK(d, requests)
        /\ \A f \in d.files : f.id # entry.id
        /\ d.users[entry.userId.name] # NoUser
        /\ entry.size <= Limit - d.users[entry.userId.name].used
    BY <1>2, <1>3, <1>4, <1>5 DEF RequestOK
  <1>7. PICK e : e = WithFile(d, entry)
    OBVIOUS
  <1>8. BookOK(e, requests) /\ e.files = d.files \cup {entry} /\ SameUsers(d, e)
    BY <1>2, <1>6, <1>7, FileEntered
  <1>9. PICK state : state = [at |-> "save", kind |-> "upload", about |-> entry, db |-> e]
    OBVIOUS
  <1>10. /\ state.at = "save" /\ state.kind = "upload" /\ state.about = entry /\ state.db = e
         /\ state = [at |-> state.at, kind |-> state.kind, about |-> state.about, db |-> state.db]
    BY <1>9
  <1>11. request' = [request EXCEPT ![w] = state] /\ compressed' = compressed \cup {entry.id}
    <2>1. r = [at |-> r.at, kind |-> r.kind, about |-> r.about, db |-> r.db]
      BY <1>3 DEF RequestOK
    <2>2. request' = [request EXCEPT ![w] = ToSave(r, WithFile(r.db, r.about))]
      BY <1>1 DEF Store
    <2>3. ToSave(r, WithFile(r.db, r.about)) = state
      <3>1. WithFile(r.db, r.about) = e
        BY <1>4, <1>5, <1>7
      <3>2. r.kind = "upload" /\ r.about = entry
        BY <1>4, <1>6
      <3>3. r = [at |-> r.at, kind |-> state.kind, about |-> entry, db |-> r.db]
        BY <1>10, <2>1, <3>2
      <3>4. ToSave(r, e) = [at |-> "save", kind |-> state.kind, about |-> entry, db |-> e]
        BY <3>3, CopyReady
      <3> QED BY <1>9, <1>10, <3>1, <3>4
    <2> QED BY <1>1, <1>4, <2>2, <2>3 DEF Store
  <1>12. RequestOK(state, requests)
    BY <1>8, <1>10 DEF RequestOK
  <1>13. ASSUME WorksAlone(r) PROVE WorksAlone(request[w])'
    <2>1. /\ OnRecord(d, confirmed, logins, {}) /\ entry.userId \in logins
          /\ OnRecord(Database, confirmed, logins, {})
          /\ \A n \in Names : Database.users[n] # NoUser =>
                d.users[n] # NoUser /\ d.users[n].id = Database.users[n].id
      BY <1>2, <1>4, <1>5, <1>6, <1>13 DEF WorksAlone, Going
    <2>2. \A f \in d.files \cup {entry} : f.userId.name \in Names /\ d.users[f.userId.name] # NoUser
      <3>1. entry.userId.name \in Names
        BY <1>6 DEF FileEntries, UserIds
      <3> QED BY <1>2, <1>6, <3>1, PartsOfBook DEF BookOK
    <2>3. /\ db' = db /\ logins' = logins /\ confirmed' = confirmed /\ request'[w] = state
          /\ lost' = lost /\ emptied' = emptied /\ Database' = Database
      BY <1>11 DEF Store, CloudInv, histories, Database
    <2>4. /\ e.files \subseteq confirmed \cup {entry}
          /\ \A f \in (confirmed \cup {entry}) \ lost : f \in e.files /\ f.id \in compressed'
      BY <1>8, <1>11, <2>1 DEF OnRecord
    <2>5. ASSUME ~emptied
          PROVE  /\ \A f \in e.files : e.users[f.userId.name].id = f.userId
                 /\ \A i \in logins : e.users[i.name] # NoUser /\ e.users[i.name].id = i
      <3>1. \A i \in logins : i.name \in Names
        BY DEF CloudInv, UserIds
      <3> QED BY <1>8, <2>1, <2>2, <2>5, <3>1 DEF OnRecord, SameUsers
    <2>6. OnRecord(e, confirmed \cup {entry}, logins, {})'
      BY <2>3, <2>4, <2>5 DEF OnRecord
    <2>7. OnRecord(Database, confirmed, logins, {})'
      BY <1>11, <2>1, <2>3 DEF OnRecord
    <2>8. \A n \in Names : Database.users[n] # NoUser =>
                e.users[n] # NoUser /\ e.users[n].id = Database.users[n].id
      BY <1>8, <2>1 DEF SameUsers
    <2>9. /\ FilesAnswered(state)' = (confirmed \cup {entry})' /\ LoginsAnswered(state)' = logins'
          /\ Going(state) = {}
      BY <1>10 DEF FilesAnswered, LoginsAnswered, Going
    <2>10. WorksAlone(state)'
      BY <1>10, <2>3, <2>6, <2>7, <2>8, <2>9 DEF WorksAlone
    <2> QED BY <2>3, <2>10
  <1> QED BY <1>1, <1>2, <1>11, <1>12, <1>13, GoingOnKeeps DEF Store, histories

\* ... or cannot be stored; ...
LEMMA StoreFailsKeeps ==
    ASSUME CloudInv, NEW w \in Workers, StoreFails(w)
    PROVE  CloudInv'
  <1>1. PICK r : r = request[w]
    OBVIOUS
  <1>2. r.at = "store" /\ r # Idle
    BY <1>1 DEF StoreFails, Idle
  <1>3. /\ request' = [v \in Workers |-> request'[v]]
        /\ request'[w] = Idle /\ \A v \in Workers : v # w => request'[v] = request[v]
        /\ db' = db /\ logins' = logins /\ requests' = requests /\ disturbed' = disturbed
        /\ confirmed' = confirmed /\ lost' = lost /\ emptied' = emptied
        /\ compressed \subseteq compressed' /\ Database' = Database
    BY DEF StoreFails, CloudInv, histories, Database
  <1>4. \A v \in Workers : request'[v] # Idle => RequestOK(request'[v], requests')
    BY <1>3 DEF CloudInv
  <1>5. ASSUME ~disturbed' PROVE OneAtATime'
    <2>1. PICK v \in Workers : /\ request[v] # Idle /\ \A u \in Workers : request[u] # Idle => u = v
                               /\ WorksAlone(request[v])
      BY <1>1, <1>2, <1>3, <1>5 DEF CloudInv, OneAtATime
    <2>2. v = w /\ WorksAlone(r)
      BY <1>1, <1>2, <2>1
    <2>3. \A u \in Workers : request'[u] = Idle
      BY <1>3, <2>1, <2>2
    <2>4. OnRecord(Database, confirmed, logins, {})
      <3>1. r.kind = "upload"
        BY <1>1, <1>2, RequestIs
      <3> QED BY <1>2, <2>2, <3>1 DEF WorksAlone, Going
    <2>5. OnRecord(Database, confirmed, logins, {})'
      BY <1>3, <2>4 DEF OnRecord
    <2> QED BY <2>3, <2>5 DEF OneAtATime
  <1> QED BY <1>3, <1>4, <1>5 DEF CloudInv

\* ... or removed, and struck off; ...
LEMMA UnlinkKeeps ==
    ASSUME CloudInv, NEW w \in Workers, Unlink(w)
    PROVE  CloudInv'
  <1>1. PICK r : r = request[w]
    OBVIOUS
  <1>2. r.at = "unlink" /\ r # Idle /\ requests \in Nat
    BY <1>1, DatabaseIsBook DEF Unlink, Idle
  <1>3. RequestOK(r, requests)
    BY <1>1, <1>2 DEF CloudInv
  <1>4. PICK entry : entry = r.about
    OBVIOUS
  <1>5. PICK d : d = r.db
    OBVIOUS
  <1>6. r.kind = "delete" /\ entry \in d.files /\ BookOK(d, requests)
    BY <1>2, <1>3, <1>4, <1>5 DEF RequestOK
  <1>7. PICK e : e = Freed(d, entry)
    OBVIOUS
  <1>8. BookOK(e, requests) /\ e.files = d.files \ {entry} /\ SameUsers(d, e)
    BY <1>2, <1>6, <1>7, FileFreed
  <1>9. PICK state : state = [at |-> "save", kind |-> "delete", about |-> entry, db |-> e]
    OBVIOUS
  <1>10. /\ state.at = "save" /\ state.kind = "delete" /\ state.about = entry /\ state.db = e
         /\ state = [at |-> state.at, kind |-> state.kind, about |-> state.about, db |-> state.db]
    BY <1>9
  <1>11. request' = [request EXCEPT ![w] = state] /\ compressed \ {entry.id} \subseteq compressed'
    <2>1. r = [at |-> r.at, kind |-> r.kind, about |-> r.about, db |-> r.db]
      BY <1>3 DEF RequestOK
    <2>2. request' = [request EXCEPT ![w] = ToSave(r, Freed(r.db, r.about))]
      BY <1>1 DEF Unlink
    <2>3. ToSave(r, Freed(r.db, r.about)) = state
      <3>1. Freed(r.db, r.about) = e
        BY <1>4, <1>5, <1>7
      <3>2. r.kind = "delete" /\ r.about = entry
        BY <1>4, <1>6
      <3>3. r = [at |-> r.at, kind |-> state.kind, about |-> entry, db |-> r.db]
        BY <1>10, <2>1, <3>2
      <3>4. ToSave(r, e) = [at |-> "save", kind |-> state.kind, about |-> entry, db |-> e]
        BY <3>3, CopyReady
      <3> QED BY <1>9, <1>10, <3>1, <3>4
    <2> QED BY <1>1, <1>4, <2>2, <2>3 DEF Unlink
  <1>12. RequestOK(state, requests)
    BY <1>8, <1>10 DEF RequestOK
  <1>13. ASSUME WorksAlone(r) PROVE WorksAlone(request[w])'
    <2>1. /\ OnRecord(d, confirmed, logins, {})
          /\ OnRecord(Database, confirmed, logins, {entry})
          /\ \A n \in Names : Database.users[n] # NoUser =>
                d.users[n] # NoUser /\ d.users[n].id = Database.users[n].id
      BY <1>2, <1>4, <1>5, <1>6, <1>13 DEF WorksAlone, Going
    <2>2. \A f \in d.files : f.userId.name \in Names /\ d.users[f.userId.name] # NoUser
      BY <1>2, <1>6, PartsOfBook DEF BookOK
    <2>3. /\ db' = db /\ logins' = logins /\ confirmed' = confirmed /\ request'[w] = state
          /\ lost' = lost /\ emptied' = emptied /\ Database' = Database
      BY <1>11 DEF Unlink, CloudInv, histories, Database
    <2>4. \A f \in confirmed \ lost : f \in d.files /\ (f = entry \/ f.id \in compressed')
      <3>1. \A f \in d.files : f.id = entry.id => f = entry
        BY <1>6 DEF BookOK
      <3> QED BY <1>11, <2>1, <3>1 DEF OnRecord
    <2>5. ASSUME ~emptied
          PROVE  /\ \A f \in e.files : e.users[f.userId.name].id = f.userId
                 /\ \A i \in logins : e.users[i.name] # NoUser /\ e.users[i.name].id = i
      <3>1. \A i \in logins : i.name \in Names
        BY DEF CloudInv, UserIds
      <3> QED BY <1>8, <2>1, <2>2, <2>5, <3>1 DEF OnRecord, SameUsers
    <2>6. OnRecord(e, confirmed \ {entry}, logins, {})'
      <3>1. /\ e.files \subseteq confirmed \ {entry}
            /\ \A f \in (confirmed \ {entry}) \ lost : f \in e.files /\ f.id \in compressed'
        BY <1>8, <2>1, <2>4 DEF OnRecord
      <3> QED BY <2>3, <2>5, <3>1 DEF OnRecord
    <2>7. OnRecord(Database, confirmed, logins, {entry})'
      BY <2>1, <2>3, <2>4 DEF OnRecord
    <2>8. \A n \in Names : Database.users[n] # NoUser =>
                e.users[n] # NoUser /\ e.users[n].id = Database.users[n].id
      BY <1>8, <2>1 DEF SameUsers
    <2>9. /\ FilesAnswered(state)' = (confirmed \ {entry})' /\ LoginsAnswered(state)' = logins'
          /\ Going(state) = {entry}
      BY <1>10 DEF FilesAnswered, LoginsAnswered, Going
    <2>10. WorksAlone(state)'
      BY <1>10, <2>3, <2>6, <2>7, <2>8, <2>9 DEF WorksAlone
    <2> QED BY <2>3, <2>10
  <1> QED BY <1>1, <1>2, <1>11, <1>12, <1>13, GoingOnKeeps DEF Unlink, histories

\* ... the database is emptied, and what was in it is in the copy, ...
LEMMA StartSaveKeeps ==
    ASSUME CloudInv, NEW w \in Workers, StartSave(w)
    PROVE  CloudInv'
  <1>1. PICK r : r = request[w]
    OBVIOUS
  <1>2. r.at = "save" /\ r # Idle
    BY <1>1 DEF StartSave, Idle
  <1>3. RequestOK(r, requests)
    BY <1>1, <1>2 DEF CloudInv
  <1>4. PICK state : state = [at |-> "saving", kind |-> r.kind, about |-> r.about, db |-> r.db]
    OBVIOUS
  <1>5. /\ state.at = "saving" /\ state.kind = r.kind /\ state.about = r.about /\ state.db = r.db
        /\ state = [at |-> state.at, kind |-> state.kind, about |-> state.about, db |-> state.db]
    BY <1>4
  <1>6. request' = [request EXCEPT ![w] = state]
    <2>1. r = [at |-> r.at, kind |-> r.kind, about |-> r.about, db |-> r.db]
      BY <1>3 DEF RequestOK
    <2>2. [r EXCEPT !.at = "saving"] = state
      BY <1>4, <2>1
    <2> QED BY <1>1, <2>2 DEF StartSave
  <1>7. RequestOK(state, requests)
    BY <1>2, <1>3, <1>5 DEF RequestOK
  <1>8. ASSUME WorksAlone(r) PROVE WorksAlone(request[w])'
    <2>1. OnRecord(r.db, FilesAnswered(r), LoginsAnswered(r), {})
      BY <1>2, <1>8 DEF WorksAlone
    <2>2. \A n \in Names : Database'.users[n] = NoUser
      <3>1. Database' = EmptyDatabase
        BY DEF StartSave, Database, EmptyDatabase
      <3> QED BY <3>1 DEF EmptyDatabase
    <2>3. /\ compressed' = compressed /\ logins' = logins /\ confirmed' = confirmed
          /\ request'[w] = state /\ lost' = lost /\ emptied' = emptied /\ db' = Torn
      BY <1>6 DEF StartSave, CloudInv, histories
    <2>4. FilesAnswered(state)' = FilesAnswered(r) /\ LoginsAnswered(state)' = LoginsAnswered(r)
      BY <1>5, <2>3 DEF FilesAnswered, LoginsAnswered
    <2>5. OnRecord(state.db, FilesAnswered(state), LoginsAnswered(state), {})'
      BY <1>5, <2>1, <2>3, <2>4 DEF OnRecord
    <2>6. WorksAlone(state)'
      BY <1>5, <2>2, <2>3, <2>5 DEF WorksAlone
    <2> QED BY <2>3, <2>6
  <1> QED BY <1>1, <1>2, <1>6, <1>7, <1>8, GoingOnKeeps DEF StartSave, histories

\* What a save that is over leaves of the requests.
LEMMA OverKeeps ==
    ASSUME CloudInv, NEW w \in Workers, SaveIsOver(w), requests' = requests
    PROVE  /\ request' = [v \in Workers |-> request'[v]] /\ request'[w] = Idle
           /\ \A v \in Workers : request'[v] # Idle => RequestOK(request'[v], requests')
           /\ \A v \in Workers : request[v] = Idle => request'[v] = Idle
  <1>1. /\ request' = [v \in Workers |-> request'[v]] /\ request'[w] = Idle
        /\ \A v \in Workers : v # w => \/ request'[v] = request[v]
                                       \/ /\ request[v].at = "saving"
                                          /\ request'[v] = [request[v] EXCEPT !.at = "mixed"]
    BY DEF SaveIsOver
  <1>2. ASSUME NEW v \in Workers, request'[v] # Idle
        PROVE  RequestOK(request'[v], requests')
    <2>1. v # w
      BY <1>1, <1>2
    <2>2. PICK q : q = request[v]
      OBVIOUS
    <2>3. CASE q.at = "saving" /\ request'[v] = [q EXCEPT !.at = "mixed"]
      <3>1. RequestOK(q, requests)
        BY <2>2, <2>3 DEF CloudInv, Idle
      <3>2. PICK m : m = [at |-> "mixed", kind |-> q.kind, about |-> q.about, db |-> q.db]
        OBVIOUS
      <3>3. request'[v] = m
        <4>1. q = [at |-> q.at, kind |-> q.kind, about |-> q.about, db |-> q.db]
          BY <3>1 DEF RequestOK
        <4>2. [q EXCEPT !.at = "mixed"] = m
          BY <3>2, <4>1
        <4> QED BY <2>3, <4>2
      <3>4. /\ m.at = "mixed" /\ m.kind = q.kind /\ m.about = q.about /\ m.db = q.db
            /\ m = [at |-> m.at, kind |-> m.kind, about |-> m.about, db |-> m.db]
        BY <3>2
      <3>5. RequestOK(m, requests)
        BY <2>3, <3>1, <3>4 DEF RequestOK
      <3> QED BY <3>3, <3>5
    <2>4. CASE request'[v] = q
      <3>1. RequestOK(q, requests)
        BY <1>2, <2>2, <2>4 DEF CloudInv
      <3> QED BY <2>4, <3>1
    <2> QED BY <1>1, <2>1, <2>2, <2>3, <2>4
  <1>3. ASSUME NEW v \in Workers, request[v] = Idle PROVE request'[v] = Idle
    BY <1>1, <1>3 DEF Idle
  <1> QED BY <1>1, <1>2, <1>3

\* ... it is written, and answered for, ...
LEMMA EndSaveKeeps ==
    ASSUME CloudInv, NEW w \in Workers, EndSave(w)
    PROVE  CloudInv'
  <1>1. PICK r : r = request[w]
    OBVIOUS
  <1>2. r.at \in {"saving", "mixed"} /\ r # Idle
    BY <1>1 DEF EndSave, Idle
  <1>3. RequestOK(r, requests)
    BY <1>1, <1>2 DEF CloudInv
  <1>4. BookOK(r.db, requests) /\ (r.kind = "register" => r.about \in UserIds)
    BY <1>2, <1>3 DEF RequestOK
  <1>5. /\ requests' = requests /\ disturbed' = disturbed /\ compressed' = compressed
        /\ lost' = lost /\ emptied' = emptied
    BY DEF EndSave
  <1>6. /\ request' = [v \in Workers |-> request'[v]] /\ request'[w] = Idle
        /\ \A v \in Workers : request'[v] # Idle => RequestOK(request'[v], requests')
        /\ \A v \in Workers : request[v] = Idle => request'[v] = Idle
    BY <1>5, OverKeeps DEF EndSave
  <1>7. requests' \in 0..MaxRequests /\ logins' \subseteq UserIds
    <2>1. logins' = LoginsAnswered(r)
      BY <1>1 DEF EndSave
    <2> QED BY <1>4, <1>5, <2>1 DEF LoginsAnswered, CloudInv
  <1>8. db' = Torn \/ BookOK(db', requests')
    BY <1>1, <1>4, <1>5 DEF EndSave
  <1>9. ASSUME ~disturbed' PROVE OneAtATime'
    <2>1. PICK v \in Workers : /\ request[v] # Idle /\ \A u \in Workers : request[u] # Idle => u = v
                               /\ WorksAlone(request[v])
      BY <1>1, <1>2, <1>5, <1>9 DEF CloudInv, OneAtATime
    <2>2. v = w /\ WorksAlone(r)
      BY <1>1, <1>2, <2>1
    <2>3. r.at = "saving" /\ OnRecord(r.db, FilesAnswered(r), LoginsAnswered(r), {})
      BY <1>2, <2>2 DEF WorksAlone
    <2>4. \A u \in Workers : request'[u] = Idle
      BY <1>6, <2>1, <2>2
    <2>5. db' = r.db /\ logins' = LoginsAnswered(r) /\ confirmed' = FilesAnswered(r)
      BY <1>1, <2>3 DEF EndSave
    <2>6. Database' = r.db
      <3>1. r.db # Torn
        BY <1>4, BookIsNotTorn DEF CloudInv
      <3> QED BY <2>5, <3>1 DEF Database
    <2>7. OnRecord(Database, confirmed, logins, {})'
      BY <1>5, <2>3, <2>5, <2>6 DEF OnRecord
    <2> QED BY <2>4, <2>7 DEF OneAtATime
  <1> QED BY <1>6, <1>7, <1>8, <1>9 DEF CloudInv

\* What requests that end leave of the database keeps its books.
LEMMA LeftIsBook ==
    ASSUME CloudInv, NEW ws \in SUBSET Workers, NEW d \in MayBeLeft(ws)
    PROVE  d = Torn \/ BookOK(d, requests)
  <1>1. CASE d = db
    BY <1>1 DEF CloudInv
  <1>2. CASE d # db
    <2>1. PICK w \in Workers : request[w].at \in {"saving", "mixed"} /\ d = request[w].db
      BY <1>2 DEF MayBeLeft
    <2>2. request[w] # Idle
      BY <2>1 DEF Idle
    <2> QED BY <2>1, <2>2, RequestIs
  <1> QED BY <1>1, <1>2

\* ... or cannot be written; ...
LEMMA SaveFailsKeeps ==
    ASSUME CloudInv, NEW w \in Workers, SaveFails(w)
    PROVE  CloudInv'
  <1>1. PICK r : r = request[w]
    OBVIOUS
  <1>2. PICK cutOff : cutOff = IF r.at = "save" THEN {} ELSE {Torn}
    OBVIOUS
  <1>3. /\ r.at \in {"save", "saving", "mixed"} /\ r # Idle
        /\ \/ SaveIsOver(w) /\ db' \in {db} \cup cutOff
           \/ request' = [v \in Workers |-> Idle] /\ db' \in MayBeLeft(Workers \ {w}) \cup cutOff
        /\ emptied' = (emptied \/ db' \in cutOff)
        /\ lost' = lost \cup (IF db' \in cutOff THEN confirmed ELSE {}) \cup Going(r)
        /\ compressed' = compressed /\ logins' = logins /\ requests' = requests
        /\ confirmed' = confirmed /\ disturbed' = disturbed
    BY <1>1, <1>2 DEF SaveFails, Idle
  <1>4. /\ request' = [v \in Workers |-> request'[v]] /\ request'[w] = Idle
        /\ \A v \in Workers : request'[v] # Idle => RequestOK(request'[v], requests')
        /\ \A v \in Workers : request[v] = Idle => request'[v] = Idle
    <2>1. CASE SaveIsOver(w)
      BY <1>3, <2>1, OverKeeps
    <2>2. CASE request' = [v \in Workers |-> Idle]
      BY <2>2
    <2> QED BY <1>3, <2>1, <2>2
  <1>5. db' = Torn \/ BookOK(db', requests')
    <2>1. db' = Torn \/ db' = db \/ db' \in MayBeLeft(Workers \ {w})
      BY <1>2, <1>3
    <2>2. db = Torn \/ BookOK(db, requests)
      BY DEF CloudInv
    <2> QED BY <1>3, <2>1, <2>2, LeftIsBook
  <1>6. ASSUME ~disturbed' PROVE OneAtATime'
    <2>1. PICK v \in Workers : /\ request[v] # Idle /\ \A u \in Workers : request[u] # Idle => u = v
                               /\ WorksAlone(request[v])
      BY <1>1, <1>3, <1>6 DEF CloudInv, OneAtATime
    <2>2. v = w /\ WorksAlone(r)
      BY <1>1, <1>3, <2>1
    <2>3. \A u \in Workers : request'[u] = Idle
      BY <1>4, <2>1, <2>2
    <2>4. MayBeLeft(Workers \ {w}) = {db}
      <3>1. \A u \in Workers \ {w} : request[u].at \notin {"saving", "mixed"}
        BY <2>1, <2>2 DEF Idle
      <3> QED BY <3>1 DEF MayBeLeft
    <2>5. db' \in {db} \cup cutOff
      BY <1>3, <2>4
    <2>6. CASE r.at = "save"
      <3>1. db' = db /\ db' \notin cutOff
        BY <1>2, <2>5, <2>6
      <3>2. OnRecord(Database, confirmed, logins, Going(r)) /\ Database' = Database
        <4>1. r.at # "saving"
          BY <2>6
        <4>2. OnRecord(Database, confirmed, logins, Going(r))
          BY <2>2, <4>1 DEF WorksAlone
        <4> QED BY <3>1, <4>2 DEF Database
      <3>3. (emptied' <=> emptied) /\ lost' = lost \cup Going(r)
        <4>1. /\ emptied' = (emptied \/ db' \in cutOff)
              /\ lost' = lost \cup (IF db' \in cutOff THEN confirmed ELSE {}) \cup Going(r)
          BY <1>3
        <4>2. lost' = lost \cup {} \cup Going(r)
          BY <3>1, <4>1, Zenon
        <4>3. emptied' <=> emptied
          BY <3>1, <4>1, Zenon
        <4>4. lost' = lost \cup Going(r)
          BY <4>2
        <4> QED BY <4>3, <4>4, Zenon
      <3>4. OnRecord(Database, confirmed, logins, {})'
        <4>1. \A f \in confirmed \ (lost \cup Going(r)) : f \in Database.files /\ f.id \in compressed
          BY <3>2 DEF OnRecord
        <4>2. Database.files \subseteq confirmed
          BY <3>2 DEF OnRecord
        <4>3. ~emptied => /\ \A f \in Database.files : Database.users[f.userId.name].id = f.userId
                          /\ \A id \in logins : /\ Database.users[id.name] # NoUser
                                                /\ Database.users[id.name].id = id
          BY <3>2 DEF OnRecord
        <4> QED BY <1>3, <3>2, <3>3, <4>1, <4>2, <4>3 DEF OnRecord
      <3> QED BY <2>3, <3>4 DEF OneAtATime
    <2>7. CASE r.at # "save"
      <3>1. r.at = "saving" /\ db = Torn
        BY <1>3, <2>2, <2>7 DEF WorksAlone
      <3>2. db' = Torn /\ db' \in cutOff
        BY <1>2, <2>5, <2>7, <3>1
      <3>3. emptied' /\ confirmed' \subseteq lost' /\ Database'.files = {}
        BY <1>3, <3>2 DEF Database, EmptyDatabase
      <3>4. OnRecord(Database, confirmed, logins, {})'
        BY <3>3 DEF OnRecord
      <3> QED BY <2>3, <3>4 DEF OneAtATime
    <2> QED BY <2>6, <2>7
  <1>7. requests' \in 0..MaxRequests /\ logins' \subseteq UserIds
    BY <1>3 DEF CloudInv
  <1> QED BY <1>4, <1>5, <1>6, <1>7 DEF CloudInv

\* ... someone logs in; ...
LEMMA LoginKeeps ==
    ASSUME CloudInv, NEW n \in Names, Login(n)
    PROVE  CloudInv'
  <1>1. PICK id : id = Database.users[n].id
    OBVIOUS
  <1>2. /\ Database.users[n] # NoUser /\ logins' = logins \cup {id}
        /\ db' = db /\ request' = request /\ compressed' = compressed /\ requests' = requests
        /\ confirmed' = confirmed /\ lost' = lost /\ emptied' = emptied /\ disturbed' = disturbed
    BY <1>1 DEF Login, histories
  <1>3. id \in UserIds
    BY <1>1, <1>2, DatabaseIsBook, PartsOfBook
  <1>4. id.name = n
    BY <1>1, <1>2, DatabaseIsBook DEF BookOK
  <1>5. \A d, files, tokens, gone :
            OnRecord(d, files, tokens, gone) /\ d.users[n] # NoUser /\ d.users[n].id = id
                => OnRecord(d, files, tokens \cup {id}, gone)
    BY <1>4 DEF OnRecord
  <1>6. ASSUME ~disturbed' PROVE OneAtATime'
    <2>1. /\ \A d, files, tokens, gone :
                OnRecord(d, files, tokens, gone)' <=> OnRecord(d, files, tokens, gone)
          /\ Database' = Database
      BY <1>2 DEF OnRecord, Database
    <2>2. CASE (\A w \in Workers : request[w] = Idle) /\ OnRecord(Database, confirmed, logins, {})
      <3>1. OnRecord(Database, confirmed, logins \cup {id}, {})
        BY <1>1, <1>2, <1>5, <2>2
      <3> QED BY <1>2, <2>2, <3>1 DEF OneAtATime, OnRecord, Database
    <2>3. CASE ~((\A w \in Workers : request[w] = Idle) /\ OnRecord(Database, confirmed, logins, {}))
      <3>1. PICK w \in Workers : /\ request[w] # Idle /\ \A v \in Workers : request[v] # Idle => v = w
                                 /\ WorksAlone(request[w])
        BY <1>2, <1>6, <2>3 DEF CloudInv, OneAtATime
      <3>2. PICK r : r = request[w]
        OBVIOUS
      <3>3. r.db.users[n] # NoUser /\ r.db.users[n].id = id
        BY <1>1, <1>2, <3>1, <3>2 DEF WorksAlone
      <3>4. /\ OnRecord(r.db, confirmed, logins, {}) => OnRecord(r.db, confirmed, logins \cup {id}, {})
            /\ OnRecord(r.db, FilesAnswered(r), LoginsAnswered(r), {})
                 => OnRecord(r.db, FilesAnswered(r), LoginsAnswered(r) \cup {id}, {})
            /\ OnRecord(Database, confirmed, logins, Going(r))
                 => OnRecord(Database, confirmed, logins \cup {id}, Going(r))
        BY <1>1, <1>2, <1>5, <3>3
      <3>5. /\ LoginsAnswered(r)' = LoginsAnswered(r) \cup {id}
            /\ FilesAnswered(r)' = FilesAnswered(r)
        BY <1>2 DEF LoginsAnswered, FilesAnswered
      <3>6. \/ /\ r.at \in {"store", "unlink"} /\ OnRecord(r.db, confirmed, logins \cup {id}, {})
               /\ r.at = "store" => r.about.userId \in logins
            \/ /\ r.at \in {"save", "saving"}
               /\ OnRecord(r.db, FilesAnswered(r), LoginsAnswered(r) \cup {id}, {})
        BY <3>1, <3>2, <3>4 DEF WorksAlone
      <3>7. IF r.at = "saving" THEN db = Torn ELSE OnRecord(Database, confirmed, logins \cup {id}, Going(r))
        BY <3>1, <3>2, <3>4 DEF WorksAlone
      <3>8. \A m \in Names : Database.users[m] # NoUser =>
                r.db.users[m] # NoUser /\ r.db.users[m].id = Database.users[m].id
        BY <3>1, <3>2 DEF WorksAlone
      <3>9. WorksAlone(r)'
        <4>1. \/ /\ r.at \in {"store", "unlink"} /\ OnRecord(r.db, confirmed, logins, {})'
                 /\ r.at = "store" => r.about.userId \in logins'
              \/ /\ r.at \in {"save", "saving"}
                 /\ OnRecord(r.db, FilesAnswered(r), LoginsAnswered(r), {})'
          <5>1. OnRecord(r.db, confirmed, logins \cup {id}, {}) => OnRecord(r.db, confirmed, logins, {})'
            BY <1>2 DEF OnRecord
          <5>2. OnRecord(r.db, FilesAnswered(r), LoginsAnswered(r) \cup {id}, {})
                    => OnRecord(r.db, FilesAnswered(r), LoginsAnswered(r), {})'
            BY <1>2, <3>5 DEF OnRecord
          <5> QED BY <1>2, <3>6, <5>1, <5>2
        <4>2. IF r.at = "saving" THEN db' = Torn ELSE OnRecord(Database, confirmed, logins, Going(r))'
          BY <1>2, <2>1, <3>7 DEF OnRecord, Going
        <4> QED BY <2>1, <3>8, <4>1, <4>2 DEF WorksAlone
      <3>10. request'[w] = r /\ \A v \in Workers : request'[v] = request[v]
        BY <1>2, <3>2
      <3> QED BY <3>1, <3>9, <3>10 DEF OneAtATime
    <2> QED BY <2>2, <2>3
  <1>7. logins' \subseteq UserIds
    BY <1>2, <1>3 DEF CloudInv
  <1> QED BY <1>2, <1>6, <1>7 DEF CloudInv

\* ... the server dies.
LEMMA DieKeeps ==
    ASSUME CloudInv, Die
    PROVE  CloudInv'
  <1>1. /\ requests' = requests /\ logins' = logins /\ disturbed'
        /\ request' = [w \in Workers |-> Idle]
    BY DEF Die
  <1>2. db' = Torn \/ BookOK(db', requests')
    <2>1. db' \in MayBeLeft(Workers)
      BY DEF Die
    <2> QED BY <1>1, <2>1, LeftIsBook
  <1> QED BY <1>1, <1>2 DEF CloudInv

\* Every step keeps it.
LEMMA CloudStep == CloudInv /\ [CloudNext]_cloudVars => CloudInv'
  <1> SUFFICES ASSUME CloudInv, [CloudNext]_cloudVars PROVE CloudInv'
    OBVIOUS
  <1>1. CASE UNCHANGED cloudVars
    <2>1. /\ db' = db /\ request' = request /\ compressed' = compressed /\ logins' = logins
          /\ requests' = requests /\ confirmed' = confirmed /\ disturbed' = disturbed
          /\ lost' = lost /\ emptied' = emptied
      BY <1>1 DEF cloudVars, histories
    <2>2. Database' = Database
      BY <2>1 DEF Database
    <2>3. OneAtATime <=> OneAtATime'
      BY <2>1, <2>2 DEF OneAtATime, WorksAlone, OnRecord, FilesAnswered, LoginsAnswered, Going
    <2> QED BY <2>1, <2>3 DEF CloudInv
  <1>2. CASE \E w \in Workers, n \in Names : RegisterUser(w, n)
    BY <1>2, RegisterKeeps
  <1>3. CASE \E w \in Workers : \E id \in logins, size \in Sizes : Upload(w, id, size)
    BY <1>3, UploadKeeps
  <1>4. CASE \E w \in Workers : \E entry \in Database.files : Delete(w, entry)
    BY <1>4, DeleteKeeps
  <1>5. CASE \E w \in Workers : \/ Store(w) \/ StoreFails(w) \/ Unlink(w)
                              \/ StartSave(w) \/ EndSave(w) \/ SaveFails(w)
    BY <1>5, StoreKeeps, StoreFailsKeeps, UnlinkKeeps, StartSaveKeeps, EndSaveKeeps, SaveFailsKeeps
  <1>6. CASE \E n \in Names : Login(n)
    BY <1>6, LoginKeeps
  <1>7. CASE Die
    BY <1>7, DieKeeps
  <1> QED BY <1>1, <1>2, <1>3, <1>4, <1>5, <1>6, <1>7 DEF CloudNext

\* What it says of the quotas, ...
LEMMA QuotasAreSums == CloudInv => QuotaIsSum
  <1> SUFFICES ASSUME CloudInv PROVE QuotaIsSum
    OBVIOUS
  <1>1. \A d \in Copies : BookOK(d, requests)
    <2>1. ASSUME NEW w \in Workers, request[w] # Idle PROVE BookOK(request[w].db, requests)
      BY <2>1, RequestIs
    <2> QED BY <2>1, DatabaseIsBook DEF Copies
  <1>2. ASSUME NEW d \in Copies, NEW n \in Names
        PROVE  LET used == IF d.users[n] = NoUser THEN 0 ELSE d.users[n].used
               IN  used = Amount(FilesOf(d.files, n)) /\ used <= Limit
    <2>1. CASE d.users[n] # NoUser
      BY <1>1, <2>1 DEF BookOK
    <2>2. CASE d.users[n] = NoUser
      <3>1. FilesOf(d.files, n) = {}
        BY <1>1, <2>2 DEF FilesOf, BookOK
      <3>2. Amount({}) = 0 /\ Limit \in Nat
        BY Amounts, FS_EmptySet, CloudAssumption
      <3> QED BY <2>2, <3>1, <3>2
    <2> QED BY <2>1, <2>2
  <1> QED BY <1>2 DEF QuotaIsSum

\* ... and of the files confirmed.
LEMMA ConfirmedStay == CloudInv => ConfirmedAreKept
  BY DEF CloudInv, OneAtATime, OnRecord, ConfirmedAreKept

\* The invariant holds of the cloud storage.
THEOREM CloudInductive == CloudSpec => []CloudInv
  <1>1. CloudInv /\ [CloudNext]_cloudVars => CloudInv'
    BY CloudStep
  <1> QED BY CloudStarts, <1>1, PTL DEF CloudSpec

\* The cloud storage keeps its books: however requests overlap, whatever of them fails and
\* whenever the server dies, every copy of data.json charges a user exactly for the files
\* it lists under his name, and never more than his limit; and as long as nothing
\* overlaps and nothing dies, only confirmed files are on record, and a confirmed file is
\* on record and on disk unless a failed write has left data.json empty since or its own
\* deletion has failed halfway.
THEOREM BooksAreKept == CloudSpec => []CloudKeepsBooks
  <1>1. CloudInv => CloudKeepsBooks
    BY QuotasAreSums, ConfirmedStay DEF CloudKeepsBooks
  <1> QED BY CloudInductive, <1>1, PTL

-----------------------------------------------------------------------------
(* The symbol table: seeding *)

\* One default: in the table already, or added to it.
SeededWith(entries, c) ==
    IF Found(entries, c) THEN entries ELSE AddEntry(entries, c, NextDigits(entries))

\* What Seeded calls from: the table after each of the defaults.
Seeds(from, entries) ==
    from = [k \in 0..Len(Defaults) |->
              IF k = 0 THEN entries ELSE SeededWith(from[k - 1], Defaults[k])]

\* Seeded is the last of them.
LEMMA SeededIs ==
    ASSUME NEW entries
    PROVE  Seeded(entries) = (CHOOSE from : Seeds(from, entries))[Len(Defaults)]
  BY DEF Seeded, Seeds, SeededWith

\* There is such a function: up to the nth default, for every n.
LEMMA SeedsExist ==
    ASSUME NEW entries
    PROVE  \E from : Seeds(from, entries)
  <1> DEFINE N == Len(Defaults)
             Upto_(g, n) == /\ g = [k \in 0..N |-> g[k]]
                            /\ \A k \in 0..N : k <= n =>
                                  g[k] = IF k = 0 THEN entries ELSE SeededWith(g[k - 1], Defaults[k])
             Short == {n \in Nat : ~\E g : Upto_(g, n)}
  <1>1. N \in Nat
    BY SymbolAssumption, LenProperties
  <1>2. Short = {}
    <2> SUFFICES ASSUME Short # {} PROVE FALSE
      OBVIOUS
    <2>1. PICK n \in Short : \A m \in Short : n <= m
      <3>1. Short \in SUBSET Nat
        OBVIOUS
      <3> HIDE DEF Short
      <3> QED BY <3>1, LeastExists
    <2>2. n \in Nat /\ ~\E g : Upto_(g, n)
      OBVIOUS
    <2>3. CASE n = 0
      <3>1. PICK g : g = [k \in 0..N |-> entries]
        OBVIOUS
      <3>2. \A k \in 0..N : k <= 0 => k = 0 /\ g[k] = entries
        BY <1>1, <3>1
      <3>3. Upto_(g, 0)
        BY <3>1, <3>2
      <3> QED BY <2>2, <2>3, <3>3
    <2>4. CASE n # 0
      <3>1. n - 1 \in Nat /\ ~(n <= n - 1)
        BY <2>2, <2>4
      <3>2. n - 1 \notin Short
        BY <2>1, <3>1
      <3>3. PICK g : Upto_(g, n - 1)
        BY <3>1, <3>2
      <3>4. PICK h : h = [k \in 0..N |-> IF k = n THEN SeededWith(g[k - 1], Defaults[k]) ELSE g[k]]
        OBVIOUS
      <3>5. \A k \in 0..N : h[k] = IF k = n THEN SeededWith(g[k - 1], Defaults[k]) ELSE g[k]
        BY <3>4
      <3>6. ASSUME NEW k \in 0..N, k <= n
            PROVE  h[k] = IF k = 0 THEN entries ELSE SeededWith(h[k - 1], Defaults[k])
        <4>1. CASE k = 0
          <5>1. k # n /\ k <= n - 1
            BY <2>4, <3>1, <4>1
          <5>2. h[k] = g[k] /\ g[k] = entries
            BY <3>3, <3>5, <4>1, <5>1
          <5> QED BY <4>1, <5>2
        <4>2. CASE k # 0
          <5>1. k - 1 \in 0..N /\ k - 1 # n
            BY <1>1, <2>2, <3>6, <4>2
          <5>2. h[k - 1] = g[k - 1]
            BY <3>5, <5>1
          <5>3. CASE k = n
            BY <3>5, <4>2, <5>2, <5>3
          <5>4. CASE k # n
            <6>1. k <= n - 1
              BY <2>2, <3>6, <5>4
            <6>2. g[k] = SeededWith(g[k - 1], Defaults[k])
              BY <3>3, <4>2, <6>1
            <6> QED BY <3>5, <4>2, <5>2, <5>4, <6>2
          <5> QED BY <5>3, <5>4
        <4> QED BY <4>1, <4>2
      <3>7. h = [k \in 0..N |-> h[k]]
        BY <3>4
      <3>8. Upto_(h, n)
        BY <3>6, <3>7
      <3> QED BY <2>2, <3>8
    <2> QED BY <2>3, <2>4
  <1>3. PICK g : Upto_(g, N)
    BY <1>1, <1>2
  <1>4. \A k \in 0..N : g[k] = IF k = 0 THEN entries ELSE SeededWith(g[k - 1], Defaults[k])
    <2>1. \A k \in 0..N : k <= N
      BY <1>1
    <2> QED BY <1>3, <2>1
  <1>5. g = [k \in 0..N |-> IF k = 0 THEN entries ELSE SeededWith(g[k - 1], Defaults[k])]
    BY <1>3, <1>4
  <1> QED BY <1>5 DEF Seeds

\* An entry more, if there is room.
LEMMA EntryAdded ==
    ASSUME NEW entries, TableOK(entries), NEW c \in Symbols, ~Found(entries, c)
    PROVE  /\ NextDigits(entries) = Len(entries) /\ Len(entries) \in Nat
           /\ TableOK(AddEntry(entries, c, NextDigits(entries)))
           /\ BeginsWith(AddEntry(entries, c, NextDigits(entries)), entries)
           /\ Len(entries) < SymbolMax =>
                AddEntry(entries, c, NextDigits(entries))[Len(entries) + 1]
                  = [symbol |-> c, digits |-> Len(entries)]
           /\ Len(entries) < SymbolMax =>
                Len(AddEntry(entries, c, NextDigits(entries))) = Len(entries) + 1
           /\ Len(entries) >= SymbolMax => AddEntry(entries, c, NextDigits(entries)) = entries
  <1> DEFINE E == [symbol : Symbols, digits : Nat]
  <1>1. entries \in Seq(E) /\ Len(entries) \in Nat /\ Len(entries) <= SymbolMax
        /\ DOMAIN entries = 1..Len(entries)
    BY LenProperties DEF TableOK
  <1>2. PICK n : n = Len(entries)
    OBVIOUS
  <1>3. n \in Nat /\ n <= SymbolMax
    BY <1>1, <1>2
  <1>4. NextDigits(entries) = n
    <2>1. n < DigitSpace
      BY <1>3, SymbolAssumption
    <2>2. n % DigitSpace = n
      BY <1>3, <2>1, SymbolAssumption
    <2> QED BY <1>2, <2>2 DEF NextDigits
  <1>5. CASE n >= SymbolMax
    <2>1. AddEntry(entries, c, n) = entries
      BY <1>2, <1>5 DEF AddEntry
    <2>2. BeginsWith(entries, entries)
      BY <1>1 DEF BeginsWith
    <2>3. ~(n < SymbolMax)
      BY <1>3, <1>5, SymbolAssumption
    <2> QED BY <1>2, <1>3, <1>4, <1>5, <2>1, <2>2, <2>3
  <1>6. CASE n < SymbolMax
    <2>1. PICK e : e = [symbol |-> c, digits |-> n]
      OBVIOUS
    <2>2. e \in E /\ e.symbol = c /\ e.digits = n
      BY <1>3, <2>1
    <2>3. PICK t : t = Append(entries, e)
      OBVIOUS
    <2>4. AddEntry(entries, c, n) = t
      BY <1>2, <1>3, <1>6, <2>1, <2>3, SymbolAssumption DEF AddEntry
    <2> HIDE DEF E
    <2>5. /\ t \in Seq(E) /\ Len(t) = n + 1 /\ DOMAIN t = 1..(n + 1)
          /\ \A i \in 1..n : t[i] = entries[i]
          /\ t[n + 1] = e
      BY <1>1, <1>2, <2>2, <2>3, AppendProperties, LenProperties
    <2>6. \A i \in 1..(n + 1) : i \in 1..n \/ i = n + 1
      BY <1>3
    <2>7. \A i \in DOMAIN t : t[i].digits = i - 1
      <3>1. \A i \in 1..n : entries[i].digits = i - 1
        BY <1>1, <1>2 DEF TableOK
      <3>2. n = (n + 1) - 1
        BY <1>3
      <3> QED BY <2>2, <2>5, <2>6, <3>1, <3>2
    <2>8. \A i, j \in DOMAIN t : t[i].symbol = t[j].symbol => i = j
      <3>1. \A i, j \in 1..n : entries[i].symbol = entries[j].symbol => i = j
        BY <1>1, <1>2 DEF TableOK
      <3>2. \A i \in 1..n : entries[i].symbol # c
        BY <1>1, <1>2 DEF Found
      <3> QED BY <2>2, <2>5, <2>6, <3>1, <3>2
    <2>9. n + 1 <= SymbolMax
      BY <1>3, <1>6, SymbolAssumption
    <2>10. TableOK(t)
      BY <2>5, <2>7, <2>8, <2>9 DEF TableOK, E
    <2>11. BeginsWith(t, entries)
      <3>1. n <= n + 1
        BY <1>3
      <3> QED BY <1>1, <1>2, <2>5, <3>1 DEF BeginsWith
    <2>12. ~(n >= SymbolMax)
      BY <1>3, <1>6, SymbolAssumption
    <2> QED BY <1>2, <1>3, <1>4, <2>1, <2>4, <2>5, <2>10, <2>11, <2>12
  <1> QED BY <1>3, <1>5, <1>6, SymbolAssumption

\* What begins with a beginning begins with what that begins with.
LEMMA BeginsWithBoth ==
    ASSUME NEW t \in Seq([symbol : Symbols, digits : Nat]), NEW s \in Seq([symbol : Symbols, digits : Nat]),
           NEW r \in Seq([symbol : Symbols, digits : Nat]), BeginsWith(t, s), BeginsWith(s, r)
    PROVE  BeginsWith(t, r)
  <1>1. /\ Len(t) \in Nat /\ Len(s) \in Nat /\ Len(r) \in Nat
        /\ DOMAIN s = 1..Len(s) /\ DOMAIN r = 1..Len(r)
    BY LenProperties
  <1>2. Len(r) <= Len(s) /\ Len(s) <= Len(t)
    BY DEF BeginsWith
  <1>3. DOMAIN r \subseteq DOMAIN s /\ Len(r) <= Len(t)
    BY <1>1, <1>2
  <1> QED BY <1>3 DEF BeginsWith

\* Seeding leaves what there was, numbers what it adds, and when there is room for
\* nothing more, what it adds is there already.
LEMMA SeedingIsFine ==
    ASSUME NEW entries, TableOK(entries)
    PROVE  TableOK(Seeded(entries)) /\ BeginsWith(Seeded(entries), entries)
  <1> DEFINE N == Len(Defaults)
             Fine(t) == TableOK(t) /\ BeginsWith(t, entries)
  <1>1. PICK from : from = CHOOSE g : Seeds(g, entries)
    OBVIOUS
  <1>2. Seeds(from, entries)
    BY <1>1, SeedsExist
  <1>3. N \in Nat /\ \A k \in 1..N : Defaults[k] \in Symbols
    BY SymbolAssumption, LenProperties, ElementOfSeq
  <1>4. \A k \in 0..N : from[k] = IF k = 0 THEN entries ELSE SeededWith(from[k - 1], Defaults[k])
    BY <1>2 DEF Seeds
  <1> DEFINE Bad == {k \in Nat : k <= N /\ ~Fine(from[k])}
  <1>5. Bad = {}
    <2> SUFFICES ASSUME Bad # {} PROVE FALSE
      OBVIOUS
    <2>1. PICK k \in Bad : \A m \in Bad : k <= m
      <3>1. Bad \in SUBSET Nat
        OBVIOUS
      <3> HIDE DEF Bad
      <3> QED BY <3>1, LeastExists
    <2>2. k \in Nat /\ k <= N /\ k \in 0..N /\ ~Fine(from[k])
      BY <1>3
    <2>3. k # 0
      <3> SUFFICES ASSUME k = 0 PROVE FALSE
        OBVIOUS
      <3>1. from[k] = entries
        BY <1>4, <2>2
      <3>2. BeginsWith(entries, entries)
        <4>1. Len(entries) \in Nat
          BY LenProperties DEF TableOK
        <4> QED BY <4>1 DEF BeginsWith
      <3> QED BY <2>2, <3>1, <3>2
    <2>4. k - 1 \in Nat /\ k - 1 <= N /\ ~(k <= k - 1) /\ k \in 1..N
      BY <1>3, <2>2, <2>3
    <2>5. PICK s : s = from[k - 1]
      OBVIOUS
    <2>6. Fine(s)
      <3> SUFFICES ASSUME ~Fine(s) PROVE FALSE
        OBVIOUS
      <3>1. k - 1 \in Bad
        BY <2>4, <2>5
      <3> QED BY <2>1, <2>4, <3>1
    <2>7. PICK c : c = Defaults[k]
      OBVIOUS
    <2>8. c \in Symbols /\ from[k] = SeededWith(s, c)
      BY <1>3, <1>4, <2>2, <2>3, <2>4, <2>5, <2>7
    <2>9. CASE Found(s, c)
      BY <2>2, <2>6, <2>8, <2>9 DEF SeededWith
    <2>10. CASE ~Found(s, c)
      <3>1. PICK t : t = AddEntry(s, c, NextDigits(s))
        OBVIOUS
      <3>2. from[k] = t
        BY <2>8, <2>10, <3>1 DEF SeededWith
      <3>3. TableOK(t) /\ BeginsWith(t, s)
        BY <2>6, <2>8, <2>10, <3>1, EntryAdded
      <3>4. BeginsWith(t, entries)
        BY <2>6, <3>3, BeginsWithBoth DEF TableOK
      <3> QED BY <2>2, <3>2, <3>3, <3>4
    <2> QED BY <2>9, <2>10
  <1>6. Fine(from[N])
    BY <1>3, <1>5
  <1>7. Seeded(entries) = from[N]
    BY <1>1, SeededIs
  <1> QED BY <1>6, <1>7

\* What a genome tells of is numbered.
LEMMA LoadedIsFine ==
    ASSUME NEW f \in Formers
    PROVE  TableOK(Loaded(f))
  <1>1. f \in Seq(Symbols) /\ Len(f) \in Nat /\ Len(f) <= SymbolMax /\ DOMAIN f = 1..Len(f)
        /\ \A i, j \in DOMAIN f : f[i] = f[j] => i = j
    BY SymbolAssumption, LenProperties
  <1>2. \A i \in 1..Len(f) : f[i] \in Symbols /\ i - 1 \in Nat
    BY <1>1, ElementOfSeq
  <1>3. PICK t : t = Loaded(f)
    OBVIOUS
  <1>4. t = [i \in 1..Len(f) |-> [symbol |-> f[i], digits |-> i - 1]]
    BY <1>1, <1>3 DEF Loaded
  <1>5. /\ \A i \in 1..Len(f) : [symbol |-> f[i], digits |-> i - 1] \in [symbol : Symbols, digits : Nat]
    BY <1>2
  <1>6. t \in Seq([symbol : Symbols, digits : Nat]) /\ Len(t) = Len(f) /\ DOMAIN t = 1..Len(f)
    BY <1>1, <1>4, <1>5, IsASeq, LenProperties
  <1>7. \A i \in DOMAIN t : t[i].symbol = f[i] /\ t[i].digits = i - 1
    BY <1>4, <1>6
  <1> QED BY <1>1, <1>3, <1>6, <1>7 DEF TableOK

-----------------------------------------------------------------------------
(* The symbol table: the invariant *)

\* The first table is fine.
LEMMA SymbolStart == SymbolInit => SymbolInv
  <1> SUFFICES ASSUME SymbolInit PROVE SymbolInv
    OBVIOUS
  <1>1. TableOK(table) /\ table = Seeded(Loaded(former)) /\ former \in Formers
    BY LoadedIsFine, SeedingIsFine DEF SymbolInit
  <1>2. BeginsWith(table, table)
    <2>1. Len(table) \in Nat
      BY <1>1, LenProperties DEF TableOK
    <2> QED BY <2>1 DEF BeginsWith
  <1>3. tables \in 1..MaxTables
    BY SymbolAssumption DEF SymbolInit
  <1> QED BY <1>1, <1>2, <1>3 DEF SymbolInv, SymbolInit

\* The digits of a symbol that is there are those of its entry.
LEMMA DigitsAre ==
    ASSUME NEW entries, TableOK(entries), NEW i \in DOMAIN entries, NEW c, entries[i].symbol = c
    PROVE  DigitsOf(entries, c) = i - 1 /\ entries[i] = [symbol |-> c, digits |-> i - 1]
  <1>1. DOMAIN entries = 1..Len(entries) /\ Len(entries) \in Nat
    BY LenProperties DEF TableOK
  <1> DEFINE FirstAt(k) == entries[k].symbol = c /\ \A j \in 1..k - 1 : entries[j].symbol # c
  <1>2. \A k \in DOMAIN entries : entries[k].symbol = c => k = i
    BY DEF TableOK
  <1>3. FirstAt(i)
    <2> SUFFICES ASSUME NEW j \in 1..i - 1, entries[j].symbol = c PROVE FALSE
      OBVIOUS
    <2>1. j \in DOMAIN entries /\ j # i
      BY <1>1
    <2> QED BY <1>2, <2>1
  <1>4. PICK k : k = CHOOSE l \in DOMAIN entries : FirstAt(l)
    OBVIOUS
  <1>5. k \in DOMAIN entries /\ FirstAt(k)
    BY <1>3, <1>4
  <1>6. k = i
    BY <1>2, <1>5
  <1>7. DigitsOf(entries, c) = entries[k].digits
    BY <1>4 DEF DigitsOf
  <1>8. entries[i].digits = i - 1 /\ entries[i] \in [symbol : Symbols, digits : Nat]
    BY <1>1, ElementOfSeq DEF TableOK
  <1> QED BY <1>6, <1>7, <1>8

\* A symbol is encoded.
LEMMA EncodeKeeps ==
    ASSUME SymbolInv, NEW c \in Symbols, Encode(c)
    PROVE  SymbolInv'
  <1>1. PICK base : base = Seeded(Loaded(former))
    OBVIOUS
  <1>2. /\ TableOK(table) /\ TableOK(base) /\ BeginsWith(table, base) /\ fixed = Entries(base)
        /\ former \in Formers /\ tables \in 1..MaxTables
    BY <1>1 DEF SymbolInv
  <1>3. former' = former /\ fixed' = fixed /\ tables' = tables /\ Seeded(Loaded(former))' = base
    BY <1>1 DEF Encode, Seeded, Loaded
  <1>4. PICK t : t = table'
    OBVIOUS
  <1>5. \A e \in handed : e \in Entries(table) \/ (e.symbol \in Symbols /\ e.digits = SymbolMax)
    BY DEF SymbolInv
  <1>6. DOMAIN table = 1..Len(table) /\ Len(table) \in Nat /\ Len(table) <= SymbolMax
    BY <1>2, LenProperties DEF TableOK
  <1>7. /\ TableOK(t) /\ BeginsWith(t, base) /\ Entries(table) \subseteq Entries(t)
        /\ \A e \in handed' : e \in handed \cup Entries(t)
                                  \/ (e.symbol \in Symbols /\ e.digits = SymbolMax)
    <2>1. CASE Found(table, c)
      <3>1. t = table
        BY <1>4, <2>1 DEF Encode
      <3>2. PICK i \in DOMAIN table : table[i].symbol = c
        BY <2>1 DEF Found
      <3>3. [symbol |-> c, digits |-> DigitsOf(table, c)] \in Entries(table)
        BY <1>2, <3>2, DigitsAre DEF Entries
      <3>4. handed' = handed \cup {[symbol |-> c, digits |-> DigitsOf(table, c)]}
        BY <2>1 DEF Encode
      <3> QED BY <1>2, <3>1, <3>3, <3>4
    <2>2. CASE ~Found(table, c)
      <3>1. t = AddEntry(table, c, NextDigits(table))
        BY <1>4, <2>2 DEF Encode
      <3>2. handed' = handed \cup {[symbol |-> c, digits |-> Len(table)]}
        BY <1>2, <2>2, EntryAdded DEF Encode
      <3>3. TableOK(t) /\ BeginsWith(t, table)
        BY <1>2, <2>2, <3>1, EntryAdded
      <3>4. BeginsWith(t, base)
        BY <1>2, <3>3, BeginsWithBoth DEF TableOK
      <3>5. DOMAIN t = 1..Len(t) /\ Len(t) \in Nat
        BY <3>3, LenProperties DEF TableOK
      <3>6. Entries(table) \subseteq Entries(t)
        <4>1. DOMAIN table \subseteq DOMAIN t
          BY <1>6, <3>3, <3>5 DEF BeginsWith
        <4> QED BY <3>3, <4>1 DEF Entries, BeginsWith
      <3>7. CASE Len(table) < SymbolMax
        <4>1. Len(t) = Len(table) + 1 /\ t[Len(table) + 1] = [symbol |-> c, digits |-> Len(table)]
          BY <1>2, <2>2, <3>1, <3>7, EntryAdded
        <4>2. Len(table) + 1 \in DOMAIN t
          BY <1>6, <3>5, <4>1
        <4>3. [symbol |-> c, digits |-> Len(table)] \in Entries(t)
          BY <4>1, <4>2 DEF Entries
        <4> QED BY <3>2, <3>3, <3>4, <3>6, <4>3
      <3>8. CASE ~(Len(table) < SymbolMax)
        <4>1. Len(table) = SymbolMax
          <5>1. PICK n : n = Len(table)
            OBVIOUS
          <5>2. n \in Nat /\ n <= SymbolMax /\ ~(n < SymbolMax)
            BY <1>6, <3>8, <5>1
          <5>3. n = SymbolMax
            BY <5>2, SymbolAssumption
          <5> QED BY <5>1, <5>3
        <4>2. \A e \in handed' : e \in handed \/ (e.symbol = c /\ e.digits = SymbolMax)
          BY <3>2, <4>1
        <4> QED BY <3>3, <3>4, <3>6, <4>2
      <3> QED BY <3>7, <3>8
    <2> QED BY <2>1, <2>2
  <1>8. \A e \in handed' : e \in Entries(t) \/ (e.symbol \in Symbols /\ e.digits = SymbolMax)
    BY <1>5, <1>7
  <1>9. Entries(table)' = Entries(t)
    BY <1>4 DEF Entries
  <1> QED BY <1>1, <1>2, <1>3, <1>4, <1>7, <1>8, <1>9 DEF SymbolInv

\* Every step keeps it.
LEMMA SymbolStep == SymbolInv /\ [SymbolNext]_symbolVars => SymbolInv'
  <1> SUFFICES ASSUME SymbolInv, [SymbolNext]_symbolVars PROVE SymbolInv'
    OBVIOUS
  <1>1. CASE UNCHANGED symbolVars
    <2>1. former' = former /\ table' = table /\ handed' = handed /\ fixed' = fixed /\ tables' = tables
      BY <1>1 DEF symbolVars
    <2>2. PICK base : base = Seeded(Loaded(former))
      OBVIOUS
    <2>3. Seeded(Loaded(former))' = base
      BY <2>1, <2>2 DEF Seeded, Loaded
    <2> QED BY <2>1, <2>2, <2>3 DEF SymbolInv, Entries
  <1>2. CASE NewTable
    <2>1. PICK base : base = Seeded(Loaded(former))
      OBVIOUS
    <2>2. /\ TableOK(base) /\ former \in Formers /\ fixed = Entries(base) /\ tables \in 1..MaxTables
      BY <2>1 DEF SymbolInv
    <2>3. former' = former /\ table' = base /\ handed' = {} /\ Seeded(Loaded(former))' = base
      BY <1>2, <2>1 DEF NewTable, Seeded, Loaded
    <2>4. fixed' = Entries(base)
      <3>1. fixed' = fixed \cup Entries(table')
        BY <1>2 DEF NewTable, Entries
      <3> QED BY <2>2, <2>3, <3>1
    <2>5. tables' \in 1..MaxTables
      BY <1>2, <2>2, SymbolAssumption DEF NewTable
    <2>6. BeginsWith(base, base)
      <3>1. Len(base) \in Nat
        BY <2>2, LenProperties DEF TableOK
      <3> QED BY <3>1 DEF BeginsWith
    <2> QED BY <2>2, <2>3, <2>4, <2>5, <2>6 DEF SymbolInv
  <1>3. CASE \E c \in Symbols : Encode(c)
    BY <1>3, EncodeKeeps
  <1> QED BY <1>1, <1>2, <1>3 DEF SymbolNext

\* What digits are decoded to.
LEMMA DecodedIs ==
    ASSUME TableOK(table)
    PROVE  /\ \A e \in Entries(table) : Decoded(e.digits) = {e.symbol}
           /\ Decoded(SymbolMax) = {}
  <1>1. DOMAIN table = 1..Len(table) /\ Len(table) \in Nat /\ Len(table) <= SymbolMax
        /\ \A i \in DOMAIN table : table[i].digits = i - 1
    BY LenProperties DEF TableOK
  <1>2. \A i \in DOMAIN table : i \in Nat /\ i <= SymbolMax /\ i - 1 # SymbolMax
    BY <1>1, SymbolAssumption
  <1>3. Decoded(SymbolMax) = {}
    BY <1>1, <1>2 DEF Decoded
  <1>4. ASSUME NEW i \in DOMAIN table PROVE Decoded(table[i].digits) = {table[i].symbol}
    <2>1. \A k \in DOMAIN table : table[k].digits = table[i].digits <=> k = i
      BY <1>1
    <2>2. \A j \in 1..i - 1 : table[j].digits # table[i].digits
      BY <1>1
    <2>3. {k \in DOMAIN table : table[k].digits = table[i].digits
              /\ \A j \in 1..k - 1 : table[j].digits # table[i].digits} = {i}
      BY <2>1, <2>2
    <2> QED BY <2>3 DEF Decoded
  <1> QED BY <1>3, <1>4 DEF Entries

\* The invariant of the symbol tables.
THEOREM SymbolInductive == SymbolSpec => []SymbolInv
  BY SymbolStart, SymbolStep, PTL DEF SymbolSpec

\* Symbols keep their digits.
THEOREM DigitsAreKept == SymbolSpec => []SymbolsKeepTheirDigits
  <1>1. SymbolInv => SymbolsKeepTheirDigits
    <2> SUFFICES ASSUME SymbolInv PROVE SymbolsKeepTheirDigits
      OBVIOUS
    <2>1. DecodeNeverWrong
      <3> SUFFICES ASSUME NEW e \in handed PROVE Decoded(e.digits) \subseteq {e.symbol}
        BY DEF DecodeNeverWrong
      <3>1. e \in Entries(table) \/ e.digits = SymbolMax
        BY DEF SymbolInv
      <3> QED BY <3>1, DecodedIs DEF SymbolInv
    <2>2. DefaultsAreStable
      <3>1. PICK base : base = Seeded(Loaded(former))
        OBVIOUS
      <3>2. TableOK(table) /\ TableOK(base) /\ BeginsWith(table, base) /\ fixed = Entries(base)
        BY <3>1 DEF SymbolInv
      <3>3. DOMAIN base \subseteq DOMAIN table
        <4>1. DOMAIN base = 1..Len(base) /\ DOMAIN table = 1..Len(table)
              /\ Len(base) \in Nat /\ Len(table) \in Nat
          BY <3>2, LenProperties DEF TableOK
        <4> QED BY <3>2, <4>1 DEF BeginsWith
      <3>4. fixed \subseteq Entries(table)
        BY <3>2, <3>3 DEF Entries, BeginsWith
      <3> QED BY <3>2, <3>4, DecodedIs DEF DefaultsAreStable
    <2> QED BY <2>1, <2>2 DEF SymbolsKeepTheirDigits
  <1> QED BY SymbolInductive, <1>1, PTL

-----------------------------------------------------------------------------
(* The Python swarm: journals, names, populations *)

\* Of two numbers Max gives the larger.
LEMMA LargerOfTwo ==
    ASSUME NEW a \in Int, NEW b \in Int
    PROVE  Max({a, b}) = IF a >= b THEN a ELSE b
  <1>1. \E x \in {a, b} : \A y \in {a, b} : x >= y
    OBVIOUS
  <1>2. Max({a, b}) \in {a, b} /\ \A y \in {a, b} : Max({a, b}) >= y
    BY <1>1 DEF Max
  <1>3. PICK m : m = Max({a, b})
    OBVIOUS
  <1>4. (m = a \/ m = b) /\ m >= a /\ m >= b
    BY <1>2, <1>3
  <1>5. m = IF a >= b THEN a ELSE b
    BY <1>4
  <1> QED BY <1>3, <1>5

\* Entries more, and those over the limit go.
LEMMA JournalTrimmed ==
    ASSUME NEW z \in PyJournals, NEW n \in Nat
    PROVE  /\ Trimmed(z, n) \in PyJournals
           /\ Trimmed(z, n).offset + Trimmed(z, n).length = z.offset + z.length + n
           /\ Trimmed(z, n).length <= Trimmed(z, n).limit
  <1>0. z.length \in Nat /\ z.limit \in Nat /\ z.offset \in Nat
    BY DEF PyJournals
  <1>1. PICK over : over = Max({0, z.length + n - z.limit})
    OBVIOUS
  <1>2. z.length + n - z.limit \in Int
    BY <1>0
  <1>3. over = IF 0 >= z.length + n - z.limit THEN 0 ELSE z.length + n - z.limit
    BY <1>1, <1>2, LargerOfTwo
  <1>4. /\ over \in Nat /\ z.length + n - over \in Nat /\ z.offset + over \in Nat
        /\ z.length + n - over <= z.limit
        /\ (z.offset + over) + (z.length + n - over) = z.offset + z.length + n
    BY <1>0, <1>3
  <1>5. z = [limit |-> z.limit, offset |-> z.offset, length |-> z.length]
    BY DEF PyJournals
  <1>6. Trimmed(z, n) = [z EXCEPT !.length = z.length + n - over, !.offset = z.offset + over]
    BY <1>1 DEF Trimmed
  <1>7. Trimmed(z, n) = [limit |-> z.limit, offset |-> z.offset + over, length |-> z.length + n - over]
    BY <1>5, <1>6
  <1> QED BY <1>0, <1>4, <1>7 DEF PyJournals

\* A formula under a name no other has.
LEMMA FormulaAppended ==
    ASSUME NEW fs \in Seq(PyFormulas), NEW name \in Seq(Nat) \ {<<>>}, NEW id \in Nat,
           name \notin NamesIn(fs)
    PROVE  /\ Put(fs, name, id) \in Seq(PyFormulas) /\ Len(fs) \in Nat
           /\ Len(Put(fs, name, id)) = Len(fs) + 1
           /\ NamesIn(Put(fs, name, id)) = NamesIn(fs) \cup {name}
           /\ Ids(Put(fs, name, id)) = Ids(fs) \cup {id}
           /\ \A i \in DOMAIN fs : i \in DOMAIN Put(fs, name, id) /\ Put(fs, name, id)[i] = fs[i]
           /\ Put(fs, name, id)[Len(fs) + 1] = [name |-> name, id |-> id]
           /\ DOMAIN Put(fs, name, id) = 1..Len(fs) + 1 /\ DOMAIN fs = 1..Len(fs)
  <1>1. PICK f \in PyFormulas : f = [name |-> name, id |-> id]
    BY DEF PyFormulas
  <1>2. PICK gs : gs = Put(fs, name, id)
    OBVIOUS
  <1>3. gs = Append(fs, f)
    BY <1>1, <1>2 DEF Put
  <1>4. PICK n : n = Len(fs)
    OBVIOUS
  <1>5. n \in Nat /\ DOMAIN fs = 1..n
    BY <1>4, LenProperties
  <1>6. gs \in Seq(PyFormulas) /\ Len(gs) = n + 1 /\ gs[n + 1] = f /\ \A i \in 1..n : gs[i] = fs[i]
    BY <1>3, <1>4, AppendProperties
  <1>7. DOMAIN gs = 1..n + 1
    BY <1>6, LenProperties
  <1>8. \A i : i \in 1..n + 1 <=> i \in 1..n \/ i = n + 1
    BY <1>5
  <1>9. NamesIn(gs) = NamesIn(fs) \cup {name}
    <2>1. NamesIn(fs) = {fs[i].name : i \in 1..n} /\ NamesIn(gs) = {gs[i].name : i \in 1..n + 1}
      BY <1>5, <1>7 DEF NamesIn
    <2>2. f.name = name
      BY <1>1
    <2>3. ASSUME NEW x PROVE (\E i \in 1..n + 1 : gs[i].name = x) <=> (\E i \in 1..n : fs[i].name = x) \/ x = name
      <3>1. \A i \in 1..n : i \in 1..n + 1 /\ gs[i].name = fs[i].name
        BY <1>6, <1>8
      <3>2. n + 1 \in 1..n + 1 /\ gs[n + 1].name = name
        BY <1>6, <1>8, <2>2
      <3> QED BY <1>8, <3>1, <3>2
    <2>4. ASSUME NEW x PROVE x \in NamesIn(gs) <=> x \in NamesIn(fs) \cup {name}
      BY <2>1, <2>3
    <2> QED BY <2>4
  <1>10. Ids(gs) = Ids(fs) \cup {id}
    <2>1. Ids(fs) = {fs[i].id : i \in 1..n} /\ Ids(gs) = {gs[i].id : i \in 1..n + 1}
      BY <1>5, <1>7 DEF Ids
    <2>2. f.id = id
      BY <1>1
    <2>3. ASSUME NEW x PROVE (\E i \in 1..n + 1 : gs[i].id = x) <=> (\E i \in 1..n : fs[i].id = x) \/ x = id
      <3>1. \A i \in 1..n : i \in 1..n + 1 /\ gs[i].id = fs[i].id
        BY <1>6, <1>8
      <3>2. n + 1 \in 1..n + 1 /\ gs[n + 1].id = id
        BY <1>6, <1>8, <2>2
      <3> QED BY <1>8, <3>1, <3>2
    <2>4. ASSUME NEW x PROVE x \in Ids(gs) <=> x \in Ids(fs) \cup {id}
      BY <2>1, <2>3
    <2> QED BY <2>4
  <1> QED BY <1>1, <1>2, <1>4, <1>5, <1>6, <1>7, <1>8, <1>9, <1>10

\* Among one suffix more than there are formulas, one is free.
LEMMA SomeSuffix ==
    ASSUME NEW fs \in Seq(PyFormulas), NEW name \in Seq(Nat) \ {<<>>}
    PROVE  \E n \in 1..Len(fs) + 1 : Append(name, n) \notin NamesIn(fs)
  <1> SUFFICES ASSUME \A n \in 1..Len(fs) + 1 : Append(name, n) \in NamesIn(fs) PROVE FALSE
    OBVIOUS
  <1>1. PICK l : l = Len(fs)
    OBVIOUS
  <1>2. l \in Nat /\ DOMAIN fs = 1..l
    BY <1>1, LenProperties
  <1>3. \A n \in 1..l + 1 : \E i \in 1..l : fs[i].name = Append(name, n)
    BY <1>1, <1>2 DEF NamesIn
  <1>4. PICK at : at = [n \in 1..l + 1 |-> CHOOSE i \in 1..l : fs[i].name = Append(name, n)]
    OBVIOUS
  <1>5. \A n \in 1..l + 1 : at[n] \in 1..l /\ fs[at[n]].name = Append(name, n)
    BY <1>3, <1>4
  <1>6. PICK D, R : D = 1..l + 1 /\ R = 1..l
    OBVIOUS
  <1>7. at \in [D -> R]
    BY <1>4, <1>5, <1>6
  <1>8. IsFiniteSet(D) /\ IsFiniteSet(R) /\ Cardinality(R) < Cardinality(D)
    <2>1. IsFiniteSet(1..l + 1) /\ IsFiniteSet(1..l)
      BY <1>2, FS_Interval
    <2>2. Cardinality(1..l + 1) = l + 1 /\ Cardinality(1..l) = l
      BY <1>2, FS_Interval
    <2> QED BY <1>2, <1>6, <2>1, <2>2
  <1>9. PICK x, y \in 1..l + 1 : x # y /\ at[x] = at[y]
    <2>1. \E x, y \in D : x # y /\ at[x] = at[y]
      BY <1>7, <1>8, FS_PigeonHole
    <2> QED BY <1>6, <2>1
  <1>10. Append(name, x) = Append(name, y) /\ x \in Nat /\ y \in Nat
    BY <1>2, <1>5, <1>9
  <1> QED BY <1>9, <1>10, AppendInjective

\* The name of an imported formula is free, and if it has no suffix it is its own.
LEMMA NameIsFree ==
    ASSUME NEW fs \in Seq(PyFormulas), NEW name \in Seq(Nat) \ {<<>>}
    PROVE  /\ FreeName(fs, name) \in Seq(Nat) \ {<<>>} /\ FreeName(fs, name) \notin NamesIn(fs)
           /\ Len(FreeName(fs, name)) = 1 => FreeName(fs, name) = name
  <1>1. CASE name \notin NamesIn(fs)
    BY <1>1 DEF FreeName
  <1>2. CASE name \in NamesIn(fs)
    <2> DEFINE free == {n \in 1..Len(fs) + 1 : Append(name, n) \notin NamesIn(fs)}
    <2>1. free # {}
      BY SomeSuffix
    <2>2. free \in SUBSET Nat /\ \A n \in free : n \in Nat /\ Append(name, n) \notin NamesIn(fs)
      BY LenProperties
    <2>3. FreeName(fs, name) = Append(name, Min(free))
      BY <1>2 DEF FreeName
    <2> HIDE DEF free
    <2>4. Min(free) \in free
      BY <2>1, <2>2, MinIsLeast
    <2>5. PICK m \in Nat : m = Min(free) /\ Append(name, m) \notin NamesIn(fs)
      BY <2>2, <2>4
    <2>6. Append(name, m) \in Seq(Nat) /\ Append(name, m) # <<>> /\ Len(Append(name, m)) = Len(name) + 1
      BY AppendProperties
    <2>7. Len(name) \in Nat \ {0}
      BY EmptySeq
    <2>8. Len(Append(name, m)) # 1
      BY <2>6, <2>7
    <2> QED BY <2>3, <2>5, <2>6, <2>8
  <1> QED BY <1>1, <1>2

\* What an import has gathered after k formulas of the source.
Gathers(acc, fs, src, k) ==
    /\ acc.formuly \in Seq(PyFormulas) /\ acc.names \in Seq(Seq(Nat))
    /\ Len(acc.formuly) = Len(fs) + k
    /\ \A i, j \in DOMAIN acc.formuly : acc.formuly[i].name = acc.formuly[j].name => i = j
    /\ \A i \in DOMAIN acc.formuly :
          Len(acc.formuly[i].name) = 1 => acc.formuly[i].name[1] <= Len(fs) + Len(src)
    /\ Ids(acc.formuly) = Ids(fs) \cup {src[i].id : i \in 1..k}
    /\ Selection(acc.names, acc.formuly)

\* A name more in a population that did not have it, and one more formula it may be of.
LEMMA NameAppended ==
    ASSUME NEW names \in Seq(Seq(Nat)), NEW fs, NEW gs, NEW name \in Seq(Nat),
           Selection(names, fs), name \notin NamesIn(fs), NamesIn(gs) = NamesIn(fs) \cup {name}
    PROVE  /\ Append(names, name) \in Seq(Seq(Nat)) /\ Selection(Append(names, name), gs)
           /\ name \notin Range(names)
  <1>1. PICK n : n = Len(names)
    OBVIOUS
  <1>2. n \in Nat /\ DOMAIN names = 1..n
    BY <1>1, LenProperties
  <1>3. PICK more : more = Append(names, name)
    OBVIOUS
  <1>4. /\ more \in Seq(Seq(Nat)) /\ Len(more) = n + 1 /\ more[n + 1] = name
        /\ \A i \in 1..n : more[i] = names[i]
    BY <1>1, <1>3, AppendProperties
  <1>5. DOMAIN more = 1..n + 1
    BY <1>4, LenProperties
  <1>6. \A i : i \in 1..n + 1 <=> i \in 1..n \/ i = n + 1
    BY <1>2
  <1>7. name \notin Range(names) /\ \A i \in 1..n : names[i] \in NamesIn(fs) /\ names[i] # name
    BY <1>2 DEF Selection, Range
  <1>8. \A i, j \in 1..n + 1 : more[i] = more[j] => i = j
    <2>1. \A i, j \in 1..n : names[i] = names[j] => i = j
      BY <1>2 DEF Selection
    <2> QED BY <1>4, <1>6, <1>7, <2>1
  <1>9. \A i \in 1..n + 1 : more[i] \in NamesIn(gs)
    BY <1>4, <1>6, <1>7
  <1>10. Selection(more, gs)
    BY <1>5, <1>8, <1>9 DEF Selection, Range
  <1> QED BY <1>3, <1>4, <1>7, <1>10

\* One formula more.
LEMMA FormulaGathered ==
    ASSUME NEW acc, NEW fs \in Seq(PyFormulas), NEW src \in Seq(PyFormulas), NEW k \in Nat,
           Gathers(acc, fs, src, k), NamesDiffer(src), k + 1 \in DOMAIN src
    PROVE  Gathers(WithFormula(acc, src[k + 1]), fs, src, k + 1)
  <1>1. PICK gs \in Seq(PyFormulas) : gs = acc.formuly
    BY DEF Gathers
  <1>2. PICK names \in Seq(Seq(Nat)) : names = acc.names
    BY DEF Gathers
  <1>3. PICK f \in PyFormulas : f = src[k + 1]
    BY ElementOfSeq, LenProperties
  <1>4. PICK l, m \in Nat : l = Len(fs) /\ m = Len(src) /\ Len(gs) = l + k
    BY <1>1, LenProperties DEF Gathers
  <1>5. f.name \in Seq(Nat) \ {<<>>} /\ f.id \in Nat
    BY DEF PyFormulas
  <1>6. PICK name \in Seq(Nat) \ {<<>>} : name = FreeName(gs, f.name)
    BY <1>5, NameIsFree
  <1>7. name \notin NamesIn(gs) /\ (Len(name) = 1 => name = f.name)
    BY <1>5, <1>6, NameIsFree
  <1>8. PICK hs : hs = Put(gs, name, f.id)
    OBVIOUS
  <1>9. /\ hs \in Seq(PyFormulas) /\ Len(hs) = l + k + 1
        /\ NamesIn(hs) = NamesIn(gs) \cup {name} /\ Ids(hs) = Ids(gs) \cup {f.id}
        /\ \A i \in DOMAIN gs : i \in DOMAIN hs /\ hs[i] = gs[i]
        /\ hs[l + k + 1] = [name |-> name, id |-> f.id]
        /\ DOMAIN hs = 1..l + k + 1 /\ DOMAIN gs = 1..l + k
    <2>1. PICK n \in Nat : n = Len(gs) /\ n = l + k
      BY <1>4
    <2>2. /\ hs \in Seq(PyFormulas) /\ Len(hs) = n + 1
          /\ NamesIn(hs) = NamesIn(gs) \cup {name} /\ Ids(hs) = Ids(gs) \cup {f.id}
          /\ \A i \in DOMAIN gs : i \in DOMAIN hs /\ hs[i] = gs[i]
          /\ hs[n + 1] = [name |-> name, id |-> f.id]
          /\ DOMAIN hs = 1..n + 1 /\ DOMAIN gs = 1..n
      <3>1. /\ gs \in Seq(PyFormulas) /\ name \in Seq(Nat) \ {<<>>} /\ f.id \in Nat /\ name \notin NamesIn(gs)
            /\ Len(gs) = n
        BY <1>5, <1>7, <2>1
      <3>2. /\ Put(gs, name, f.id) \in Seq(PyFormulas) /\ Len(gs) \in Nat
            /\ Len(Put(gs, name, f.id)) = Len(gs) + 1
            /\ NamesIn(Put(gs, name, f.id)) = NamesIn(gs) \cup {name}
            /\ Ids(Put(gs, name, f.id)) = Ids(gs) \cup {f.id}
            /\ \A i \in DOMAIN gs : i \in DOMAIN Put(gs, name, f.id) /\ Put(gs, name, f.id)[i] = gs[i]
            /\ Put(gs, name, f.id)[Len(gs) + 1] = [name |-> name, id |-> f.id]
            /\ DOMAIN Put(gs, name, f.id) = 1..Len(gs) + 1 /\ DOMAIN gs = 1..Len(gs)
        <4>1. PICK id \in Nat : id = f.id
          BY <1>5
        <4>2. /\ Put(gs, name, id) \in Seq(PyFormulas) /\ Len(gs) \in Nat
              /\ Len(Put(gs, name, id)) = Len(gs) + 1
              /\ NamesIn(Put(gs, name, id)) = NamesIn(gs) \cup {name}
              /\ Ids(Put(gs, name, id)) = Ids(gs) \cup {id}
              /\ \A i \in DOMAIN gs : i \in DOMAIN Put(gs, name, id) /\ Put(gs, name, id)[i] = gs[i]
              /\ Put(gs, name, id)[Len(gs) + 1] = [name |-> name, id |-> id]
              /\ DOMAIN Put(gs, name, id) = 1..Len(gs) + 1 /\ DOMAIN gs = 1..Len(gs)
          BY <1>7, FormulaAppended
        <4> QED BY <4>1, <4>2, Zenon
      <3> QED BY <1>8, <3>1, <3>2, Zenon
    <2> QED BY <2>1, <2>2
  <1>10. \A i : i \in DOMAIN hs <=> i \in DOMAIN gs \/ i = l + k + 1
    BY <1>9
  <1>11. hs[l + k + 1].name = name /\ \A i \in DOMAIN gs : gs[i].name # name
    BY <1>7, <1>9 DEF NamesIn
  <1>12. Append(names, name) \in Seq(Seq(Nat)) /\ Selection(Append(names, name), hs) /\ name \notin Range(names)
    BY <1>1, <1>2, <1>7, <1>9, NameAppended DEF Gathers
  <1>13. WithFormula(acc, f) = [formuly |-> hs, names |-> Append(names, name)]
    BY <1>1, <1>2, <1>6, <1>8, <1>12 DEF WithFormula
  <1>14. \A i, j \in DOMAIN hs : hs[i].name = hs[j].name => i = j
    <2>1. \A i, j \in DOMAIN gs : gs[i].name = gs[j].name => i = j
      BY <1>1 DEF Gathers
    <2> SUFFICES ASSUME NEW i \in DOMAIN hs, NEW j \in DOMAIN hs, hs[i].name = hs[j].name PROVE i = j
      OBVIOUS
    <2>2. \A x \in DOMAIN gs : hs[x].name = gs[x].name
      BY <1>9
    <2>3. CASE i \in DOMAIN gs /\ j \in DOMAIN gs
      BY <2>1, <2>2, <2>3
    <2>4. CASE i = l + k + 1 /\ j # l + k + 1
      BY <1>10, <1>11, <2>2, <2>4
    <2>5. CASE j = l + k + 1 /\ i # l + k + 1
      BY <1>10, <1>11, <2>2, <2>5
    <2> QED BY <1>10, <2>3, <2>4, <2>5
  <1>15. \A i \in DOMAIN hs : Len(hs[i].name) = 1 => hs[i].name[1] <= l + m
    <2>1. \A i \in DOMAIN gs : Len(gs[i].name) = 1 => gs[i].name[1] <= l + m
      BY <1>1, <1>4 DEF Gathers
    <2>2. ASSUME Len(name) = 1 PROVE name[1] <= l + m
      <3>1. name[1] <= m /\ name = f.name
        BY <1>3, <1>4, <1>7, <2>2 DEF NamesDiffer
      <3>2. name[1] \in Nat
        BY <2>2, ElementOfSeq
      <3> QED BY <3>1, <3>2
    <2> QED BY <1>9, <1>10, <1>11, <2>1, <2>2
  <1>16. Ids(hs) = Ids(fs) \cup {src[i].id : i \in 1..k + 1}
    <2>1. \A i : i \in 1..k + 1 <=> i \in 1..k \/ i = k + 1
      OBVIOUS
    <2>2. Ids(hs) = Ids(fs) \cup {src[i].id : i \in 1..k} \cup {src[k + 1].id}
      BY <1>1, <1>3, <1>9 DEF Gathers
    <2> QED BY <2>1, <2>2
  <1>17. Len(hs) = Len(fs) + (k + 1)
    BY <1>4, <1>9
  <1>18. PICK out : out = WithFormula(acc, f)
    OBVIOUS
  <1>19. out.formuly = hs /\ out.names = Append(names, name)
    BY <1>13, <1>18
  <1>20. Gathers(out, fs, src, k + 1)
    BY <1>4, <1>9, <1>12, <1>14, <1>15, <1>16, <1>17, <1>19 DEF Gathers
  <1> QED BY <1>3, <1>18, <1>20

\* What FoldLeft calls iter: for each set of places in src, what its formulas gather.
Gathering(iter, base, src) ==
    iter = [s \in SUBSET DOMAIN src |->
              IF s = {} THEN base ELSE WithFormula(iter[s \ {Max(s)}], src[Max(s)])]

\* An import is what it gives for all places.
LEMMA FoldIs ==
    ASSUME NEW base, NEW src
    PROVE  FoldLeft(WithFormula, base, src) = (CHOOSE iter : Gathering(iter, base, src))[DOMAIN src]
  BY DEF FoldLeft, MapThenFoldSet, Gathering

\* There is such a function: on the sets of at most n places, for every n.
LEMMA GatheringExists ==
    ASSUME NEW base, NEW src \in Seq(PyFormulas)
    PROVE  \E iter : Gathering(iter, base, src)
  <1> DEFINE S == DOMAIN src
             Upto_(g, n) == /\ g = [s \in SUBSET S |-> g[s]]
                            /\ \A s \in SUBSET S : Cardinality(s) <= n =>
                                  g[s] = IF s = {} THEN base ELSE WithFormula(g[s \ {Max(s)}], src[Max(s)])
             Short == {n \in Nat : ~\E g : Upto_(g, n)}
  <1>0. PICK l \in Nat : S = 1..l
    BY LenProperties
  <1>1. IsFiniteSet(S) /\ \A s \in SUBSET S : IsFiniteSet(s) /\ Cardinality(s) \in Nat /\ Cardinality(s) <= Cardinality(S)
    <2>1. IsFiniteSet(S)
      BY <1>0, FS_Interval
    <2> QED BY <2>1, FS_Subset, FS_CardinalityType
  <1>2. \A s \in SUBSET S : s # {} =>
            /\ Max(s) \in s /\ s \ {Max(s)} \in SUBSET S
            /\ Cardinality(s \ {Max(s)}) = Cardinality(s) - 1
    <2> SUFFICES ASSUME NEW s \in SUBSET S, s # {}
                 PROVE  /\ Max(s) \in s /\ s \ {Max(s)} \in SUBSET S
                        /\ Cardinality(s \ {Max(s)}) = Cardinality(s) - 1
      OBVIOUS
    <2>1. s \in SUBSET (0..l)
      BY <1>0
    <2>2. Max(s) \in s
      BY <2>1, MaxIsGreatest
    <2> QED BY <1>1, <2>2, FS_RemoveElement
  <1>3. Short = {}
    <2> SUFFICES ASSUME Short # {} PROVE FALSE
      OBVIOUS
    <2>1. PICK n \in Short : \A m \in Short : n <= m
      <3>1. Short \in SUBSET Nat
        OBVIOUS
      <3> HIDE DEF Short
      <3> QED BY <3>1, LeastExists
    <2>2. n \in Nat /\ ~\E g : Upto_(g, n)
      OBVIOUS
    <2>3. CASE n = 0
      <3>1. PICK g : g = [s \in SUBSET S |-> base]
        OBVIOUS
      <3>2. \A s \in SUBSET S : Cardinality(s) <= 0 => s = {}
        BY <1>1, FS_EmptySet
      <3>3. Upto_(g, 0)
        BY <3>1, <3>2
      <3> QED BY <2>2, <2>3, <3>3
    <2>4. CASE n # 0
      <3>1. n - 1 \in Nat /\ ~(n <= n - 1)
        BY <2>2, <2>4
      <3>2. n - 1 \notin Short
        BY <2>1, <3>1
      <3>3. PICK g : Upto_(g, n - 1)
        BY <3>1, <3>2
      <3>4. PICK h : h = [s \in SUBSET S |-> IF Cardinality(s) = n THEN WithFormula(g[s \ {Max(s)}], src[Max(s)]) ELSE g[s]]
        OBVIOUS
      <3>5. \A s \in SUBSET S : h[s] = IF Cardinality(s) = n THEN WithFormula(g[s \ {Max(s)}], src[Max(s)]) ELSE g[s]
        BY <3>4
      <3>6. ASSUME NEW s \in SUBSET S, Cardinality(s) <= n
            PROVE  h[s] = IF s = {} THEN base ELSE WithFormula(h[s \ {Max(s)}], src[Max(s)])
        <4>0. Cardinality(s) \in Nat
          BY <1>1
        <4>1. CASE s = {}
          <5>1. Cardinality(s) = 0
            BY <4>1, FS_EmptySet
          <5>2. Cardinality(s) # n /\ Cardinality(s) <= n - 1
            BY <2>4, <3>1, <5>1
          <5>3. h[s] = g[s]
            BY <3>5, <5>2
          <5> QED BY <3>3, <4>1, <5>2, <5>3
        <4>2. CASE s # {}
          <5>1. /\ s \ {Max(s)} \in SUBSET S
                /\ Cardinality(s \ {Max(s)}) = Cardinality(s) - 1
            BY <1>2, <4>2
          <5>2. h[s \ {Max(s)}] = g[s \ {Max(s)}]
            <6>1. Cardinality(s \ {Max(s)}) # n
              BY <2>2, <3>6, <4>0, <5>1
            <6> QED BY <3>5, <5>1, <6>1
          <5>3. CASE Cardinality(s) = n
            BY <3>5, <4>2, <5>2, <5>3
          <5>4. CASE Cardinality(s) # n
            <6>1. Cardinality(s) <= n - 1
              BY <2>2, <3>6, <4>0, <5>4
            <6>2. g[s] = WithFormula(g[s \ {Max(s)}], src[Max(s)])
              BY <3>3, <4>2, <6>1
            <6> QED BY <3>5, <4>2, <5>2, <5>4, <6>2
          <5> QED BY <5>3, <5>4
        <4> QED BY <4>1, <4>2
      <3>7. h = [s \in SUBSET S |-> h[s]]
        BY <3>4
      <3>8. Upto_(h, n)
        BY <3>6, <3>7
      <3> QED BY <2>2, <3>8
    <2> QED BY <2>3, <2>4
  <1>4. PICK g : Upto_(g, Cardinality(S))
    <2>1. Cardinality(S) \in Nat /\ Cardinality(S) \notin Short
      BY <1>1, <1>3
    <2> QED BY <2>1
  <1>5. \A s \in SUBSET S : g[s] = IF s = {} THEN base ELSE WithFormula(g[s \ {Max(s)}], src[Max(s)])
    BY <1>1, <1>4
  <1>6. g = [s \in SUBSET S |-> IF s = {} THEN base ELSE WithFormula(g[s \ {Max(s)}], src[Max(s)])]
    BY <1>4, <1>5
  <1> QED BY <1>6 DEF Gathering

\* An import gathers all formulas of the source.
LEMMA AllGathered ==
    ASSUME NEW base, NEW fs \in Seq(PyFormulas), NEW src \in Seq(PyFormulas),
           Gathers(base, fs, src, 0), NamesDiffer(src)
    PROVE  Gathers(FoldLeft(WithFormula, base, src), fs, src, Len(src))
  <1>1. PICK iter : Gathering(iter, base, src) /\ FoldLeft(WithFormula, base, src) = iter[DOMAIN src]
    BY GatheringExists, FoldIs
  <1>2. PICK l \in Nat : l = Len(src) /\ DOMAIN src = 1..l
    BY LenProperties
  <1>3. \A s \in SUBSET DOMAIN src :
            iter[s] = IF s = {} THEN base ELSE WithFormula(iter[s \ {Max(s)}], src[Max(s)])
    BY <1>1 DEF Gathering
  <1> DEFINE Bad == {k \in Nat : k <= l /\ ~Gathers(iter[1..k], fs, src, k)}
  <1>4. Bad = {}
    <2> SUFFICES ASSUME Bad # {} PROVE FALSE
      OBVIOUS
    <2>1. PICK k \in Bad : \A m \in Bad : k <= m
      <3>1. Bad \in SUBSET Nat
        OBVIOUS
      <3> HIDE DEF Bad
      <3> QED BY <3>1, LeastExists
    <2>2. k \in Nat /\ k <= l /\ ~Gathers(iter[1..k], fs, src, k)
      OBVIOUS
    <2>3. CASE k = 0
      <3>1. 1..k = {} /\ {} \in SUBSET DOMAIN src
        BY <2>3
      <3>2. iter[{}] = base
        BY <1>3, <3>1
      <3> QED BY <2>2, <2>3, <3>1, <3>2
    <2>4. CASE k # 0
      <3>1. PICK j \in Nat : j = k - 1 /\ ~(k <= j) /\ j <= l /\ k = j + 1
        BY <2>2, <2>4
      <3>2. Gathers(iter[1..j], fs, src, j)
        BY <2>1, <3>1
      <3>3. PICK s : s = 1..k
        OBVIOUS
      <3>4. s \in SUBSET DOMAIN src /\ s \in SUBSET (0..k) /\ k \in s /\ s # {}
        <4>1. \A x \in 1..k : x \in 1..l /\ x \in 0..k
          BY <1>2, <2>2
        <4>2. k \in 1..k
          BY <2>2, <2>4
        <4> QED BY <1>2, <3>3, <4>1, <4>2
      <3>5. Max(s) = k
        <4>1. Max(s) \in s /\ \A y \in s : Max(s) >= y
          BY <2>2, <3>4, MaxIsGreatest
        <4>2. PICK m : m = Max(s)
          OBVIOUS
        <4>3. m \in 1..k /\ m >= k
          BY <3>3, <3>4, <4>1, <4>2
        <4>4. m = k
          BY <2>2, <4>3
        <4> QED BY <4>2, <4>4
      <3>6. s \ {k} = 1..j
        BY <2>2, <3>1, <3>3
      <3>7. iter[s] = WithFormula(iter[1..j], src[k])
        BY <1>3, <3>4, <3>5, <3>6
      <3>8. k \in DOMAIN src
        BY <3>4
      <3>9. Gathers(WithFormula(iter[1..j], src[j + 1]), fs, src, j + 1)
        BY <3>1, <3>2, <3>8, FormulaGathered
      <3> QED BY <2>2, <3>1, <3>3, <3>7, <3>9
    <2> QED BY <2>3, <2>4
  <1>5. Gathers(iter[1..l], fs, src, l)
    <2>1. l \notin Bad /\ l <= l
      BY <1>4
    <2> QED BY <2>1
  <1> QED BY <1>1, <1>2, <1>5

\* What import_formuly leaves: all formulas of both, under names that differ.
LEMMA ImportKeepsAll ==
    ASSUME NEW fs \in Seq(PyFormulas), NEW names \in Seq(Seq(Nat)), NEW src \in Seq(PyFormulas),
           NamesDiffer(fs), Selection(names, fs), NamesDiffer(src), NEW import,
           import = FoldLeft(WithFormula, [formuly |-> fs, names |-> names], src)
    PROVE  /\ import.formuly \in Seq(PyFormulas) /\ import.names \in Seq(Seq(Nat))
           /\ NamesDiffer(import.formuly) /\ Selection(import.names, import.formuly)
           /\ Ids(import.formuly) = Ids(fs) \cup Ids(src)
  <1>1. PICK l, m \in Nat : l = Len(fs) /\ m = Len(src) /\ DOMAIN fs = 1..l /\ DOMAIN src = 1..m
    BY LenProperties
  <1>2. PICK base : base = [formuly |-> fs, names |-> names]
    OBVIOUS
  <1>3. base.formuly = fs /\ base.names = names
    BY <1>2
  <1>4. \A i \in DOMAIN fs : Len(fs[i].name) = 1 => fs[i].name[1] <= l + m
    <2> SUFFICES ASSUME NEW i \in DOMAIN fs, Len(fs[i].name) = 1 PROVE fs[i].name[1] <= l + m
      OBVIOUS
    <2>1. fs[i] \in PyFormulas
      BY <1>1, ElementOfSeq
    <2>2. PICK name \in Seq(Nat) : name = fs[i].name
      BY <2>1 DEF PyFormulas
    <2>3. name[1] \in Nat
      BY <2>2, ElementOfSeq
    <2>4. name[1] <= l
      BY <1>1, <2>2 DEF NamesDiffer
    <2> QED BY <2>2, <2>3, <2>4
  <1>5. {src[i].id : i \in 1..0} = {} /\ Len(fs) = Len(fs) + 0
    BY <1>1
  <1>6. Gathers(base, fs, src, 0)
    BY <1>1, <1>3, <1>4, <1>5 DEF Gathers, NamesDiffer
  <1>7. Gathers(import, fs, src, m)
    BY <1>1, <1>2, <1>6, AllGathered
  <1>8. Ids(src) = {src[i].id : i \in 1..m}
    BY <1>1 DEF Ids
  <1> QED BY <1>1, <1>7, <1>8 DEF Gathers, NamesDiffer

\* The population keeps its last names, as many as it may.
LEMMA PopulationCut ==
    ASSUME NEW names \in Seq(Seq(Nat)), NEW fs, Selection(names, fs)
    PROVE  /\ LastOf(names) \in Seq(Seq(Nat)) /\ Selection(LastOf(names), fs)
           /\ Len(LastOf(names)) <= PopulationLimit
  <1>1. PICK n \in Nat : n = Len(names) /\ DOMAIN names = 1..n
    BY LenProperties
  <1>2. PopulationLimit \in Nat \ {0}
    BY SwarmAssumption
  <1>3. PICK from : from = Max({1, n - PopulationLimit + 1})
    OBVIOUS
  <1>4. n - PopulationLimit + 1 \in Int
    BY <1>1, <1>2
  <1>5. from = IF 1 >= n - PopulationLimit + 1 THEN 1 ELSE n - PopulationLimit + 1
    BY <1>3, <1>4, LargerOfTwo
  <1>6. from \in Nat \ {0} /\ n - from + 1 <= PopulationLimit /\ from <= n + 1
    BY <1>1, <1>2, <1>5
  <1>7. PICK last : last = SubSeq(names, from, n)
    OBVIOUS
  <1>8. LastOf(names) = last
    BY <1>1, <1>3, <1>7 DEF LastOf
  <1>9. \A i \in from..n : i \in 1..n /\ names[i] \in Seq(Nat)
    <2>1. \A i \in from..n : i \in 1..n
      BY <1>1, <1>6
    <2> QED BY <1>1, <2>1, ElementOfSeq
  <1>10. /\ last \in Seq(Seq(Nat))
         /\ Len(last) = IF from <= n THEN n - from + 1 ELSE 0
         /\ \A i \in 1..n - from + 1 : last[i] = names[from + i - 1]
    BY <1>1, <1>6, <1>7, <1>9, SubSeqProperties
  <1>11. Len(last) = n - from + 1
    BY <1>1, <1>6, <1>10
  <1>12. DOMAIN last = 1..n - from + 1
    BY <1>10, <1>11, LenProperties
  <1>13. \A i \in DOMAIN last : from + i - 1 \in DOMAIN names /\ last[i] = names[from + i - 1]
    <2>1. \A i \in 1..n - from + 1 : from + i - 1 \in 1..n
      BY <1>1, <1>6
    <2> QED BY <1>1, <1>10, <1>12, <2>1
  <1>14. Selection(last, fs)
    <2>1. \A i, j \in DOMAIN names : names[i] = names[j] => i = j
      BY DEF Selection
    <2>2. \A i, j \in DOMAIN last : last[i] = last[j] => from + i - 1 = from + j - 1
      BY <1>13, <2>1
    <2>3. \A i, j \in 1..n - from + 1 : from + i - 1 = from + j - 1 => i = j
      BY <1>1, <1>6
    <2>4. \A i, j \in DOMAIN last : last[i] = last[j] => i = j
      BY <1>12, <2>2, <2>3
    <2>5. Range(last) \subseteq Range(names)
      BY <1>13 DEF Range
    <2>6. Range(names) \subseteq NamesIn(fs)
      BY DEF Selection
    <2> QED BY <2>4, <2>5, <2>6 DEF Selection
  <1> QED BY <1>6, <1>8, <1>10, <1>11, <1>14

-----------------------------------------------------------------------------
(* The exchanges of a swarm *)

\* What FlattenSeq calls flatten: the first k sequences, one after another.
Flattening(flat, parts) ==
    flat = [k \in 1..Len(parts) |-> IF k = 1 THEN parts[k] ELSE flat[k - 1] \o parts[k]]

\* FlattenSeq is the last of them.
LEMMA FlattenIs ==
    ASSUME NEW parts, Len(parts) # 0
    PROVE  FlattenSeq(parts) = (CHOOSE flat : Flattening(flat, parts))[Len(parts)]
  BY DEF FlattenSeq, Flattening

\* There is such a function: up to the nth, for every n.
LEMMA FlatteningExists ==
    ASSUME NEW parts, NEW l \in Nat \ {0}, l = Len(parts)
    PROVE  \E flat : Flattening(flat, parts)
  <1> DEFINE Upto_(g, n) == /\ g = [k \in 1..l |-> g[k]]
                            /\ \A k \in 1..l : k <= n =>
                                  g[k] = IF k = 1 THEN parts[k] ELSE g[k - 1] \o parts[k]
             Short == {n \in Nat : ~\E g : Upto_(g, n)}
  <1>1. Short = {}
    <2> SUFFICES ASSUME Short # {} PROVE FALSE
      OBVIOUS
    <2>1. PICK n \in Short : \A m \in Short : n <= m
      <3>1. Short \in SUBSET Nat
        OBVIOUS
      <3> HIDE DEF Short
      <3> QED BY <3>1, LeastExists
    <2>2. n \in Nat /\ ~\E g : Upto_(g, n)
      OBVIOUS
    <2>3. CASE n = 0
      <3>1. PICK g : g = [k \in 1..l |-> 0]
        OBVIOUS
      <3>2. \A k \in 1..l : ~(k <= 0)
        OBVIOUS
      <3>3. Upto_(g, 0)
        BY <3>1, <3>2
      <3> QED BY <2>2, <2>3, <3>3
    <2>4. CASE n # 0
      <3>1. n - 1 \in Nat /\ ~(n <= n - 1)
        BY <2>2, <2>4
      <3>2. n - 1 \notin Short
        BY <2>1, <3>1
      <3>3. PICK g : Upto_(g, n - 1)
        BY <3>1, <3>2
      <3>4. PICK h : h = [k \in 1..l |-> IF k = n THEN (IF k = 1 THEN parts[k] ELSE g[k - 1] \o parts[k]) ELSE g[k]]
        OBVIOUS
      <3>5. \A k \in 1..l : h[k] = IF k = n THEN (IF k = 1 THEN parts[k] ELSE g[k - 1] \o parts[k]) ELSE g[k]
        BY <3>4
      <3>6. ASSUME NEW k \in 1..l, k <= n
            PROVE  h[k] = IF k = 1 THEN parts[k] ELSE h[k - 1] \o parts[k]
        <4>1. CASE k = 1
          <5>1. k # n => k <= n - 1
            BY <2>2, <3>6
          <5> QED BY <3>3, <3>5, <4>1, <5>1
        <4>2. CASE k # 1
          <5>1. k - 1 \in 1..l /\ k - 1 # n
            BY <2>2, <3>6, <4>2
          <5>2. h[k - 1] = g[k - 1]
            BY <3>5, <5>1
          <5>3. CASE k = n
            BY <3>5, <4>2, <5>2, <5>3
          <5>4. CASE k # n
            <6>1. k <= n - 1
              BY <2>2, <3>6, <5>4
            <6>2. g[k] = g[k - 1] \o parts[k]
              BY <3>3, <4>2, <6>1
            <6> QED BY <3>5, <4>2, <5>2, <5>4, <6>2
          <5> QED BY <5>3, <5>4
        <4> QED BY <4>1, <4>2
      <3>7. h = [k \in 1..l |-> h[k]]
        BY <3>4
      <3>8. Upto_(h, n)
        BY <3>6, <3>7
      <3> QED BY <2>2, <3>8
    <2> QED BY <2>3, <2>4
  <1>2. PICK g : Upto_(g, l)
    BY <1>1
  <1>3. \A k \in 1..l : g[k] = IF k = 1 THEN parts[k] ELSE g[k - 1] \o parts[k]
    <2>1. \A k \in 1..l : k <= l
      OBVIOUS
    <2> QED BY <1>2, <2>1
  <1>4. g = [k \in 1..l |-> IF k = 1 THEN parts[k] ELSE g[k - 1] \o parts[k]]
    BY <1>2, <1>3
  <1> QED BY <1>4 DEF Flattening

\* Sequences put one after another: a sequence of all that is in any.
LEMMA FlattenKeepsAll ==
    ASSUME NEW T, NEW parts \in Seq(Seq(T)), NEW all, all = FlattenSeq(parts)
    PROVE  /\ all \in Seq(T)
           /\ \A i \in DOMAIN parts : \A j \in DOMAIN parts[i] : \E k \in DOMAIN all : all[k] = parts[i][j]
  <1>1. PICK l \in Nat : l = Len(parts) /\ DOMAIN parts = 1..l
    BY LenProperties
  <1>2. CASE l = 0
    <2>1. parts = <<>>
      BY <1>1, <1>2, EmptySeq
    <2>2. FlattenSeq(parts) = <<>>
      BY <1>1, <1>2, <2>1 DEF FlattenSeq
    <2>3. DOMAIN parts = {}
      BY <1>1, <1>2
    <2> QED BY <2>2, <2>3, EmptySeq
  <1>3. CASE l # 0
    <2>1. PICK flat : Flattening(flat, parts) /\ FlattenSeq(parts) = flat[l]
      BY <1>1, <1>3, FlattenIs, FlatteningExists
    <2>2. \A k \in 1..l : flat[k] = IF k = 1 THEN parts[k] ELSE flat[k - 1] \o parts[k]
      BY <1>1, <2>1 DEF Flattening
    <2>3. \A k \in 1..l : parts[k] \in Seq(T)
      BY <1>1, ElementOfSeq
    <2> DEFINE Holds(f, i) == \A j \in DOMAIN parts[i] : \E x \in DOMAIN f : f[x] = parts[i][j]
               Fine(k) == flat[k] \in Seq(T) /\ \A i \in 1..k : Holds(flat[k], i)
               Bad == {k \in Nat : k \in 1..l /\ ~Fine(k)}
    <2>4. Bad = {}
      <3> SUFFICES ASSUME Bad # {} PROVE FALSE
        OBVIOUS
      <3>1. PICK k \in Bad : \A m \in Bad : k <= m
        <4>1. Bad \in SUBSET Nat
          OBVIOUS
        <4> HIDE DEF Bad
        <4> QED BY <4>1, LeastExists
      <3>2. k \in Nat /\ k \in 1..l /\ ~Fine(k)
        OBVIOUS
      <3>3. CASE k = 1
        <4>1. flat[1] = parts[1] /\ parts[1] \in Seq(T)
          BY <2>2, <2>3, <3>2, <3>3
        <4>2. \A i \in 1..1 : i = 1
          OBVIOUS
        <4>3. Fine(1)
          BY <4>1, <4>2
        <4> QED BY <3>2, <3>3, <4>3
      <3>4. CASE k # 1
        <4>0. k \in 1..l
          BY <3>2
        <4>1. PICK j \in Nat : j = k - 1 /\ j \in 1..l /\ ~(k <= j) /\ k = j + 1
          BY <1>3, <3>4, <4>0
        <4>2. j \notin Bad
          BY <3>1, <4>1
        <4>3. flat[j] \in Seq(T) /\ \A i \in 1..j : Holds(flat[j], i)
          BY <4>1, <4>2
        <4>4. PICK a, b \in Seq(T) : a = flat[j] /\ b = parts[k]
          BY <2>3, <3>2, <4>3
        <4>5. PICK c : c = flat[k] /\ c = a \o b
          BY <2>2, <3>2, <3>4, <4>1, <4>4
        <4>6. PICK m, n \in Nat : m = Len(a) /\ n = Len(b) /\ DOMAIN a = 1..m /\ DOMAIN b = 1..n
          BY LenProperties
        <4>7. c \in Seq(T) /\ Len(c) = m + n /\ \A i \in 1..m + n : c[i] = IF i <= m THEN a[i] ELSE b[i - m]
          BY <4>5, <4>6, ConcatProperties
        <4>8. DOMAIN c = 1..m + n
          BY <4>6, <4>7, LenProperties
        <4>9. \A x \in DOMAIN a : x \in DOMAIN c /\ c[x] = a[x]
          BY <4>6, <4>7, <4>8
        <4>10. \A x \in DOMAIN b : m + x \in DOMAIN c /\ c[m + x] = b[x]
          <5>1. \A x \in 1..n : m + x \in 1..m + n /\ ~(m + x <= m) /\ (m + x) - m = x
            BY <4>6
          <5> QED BY <4>6, <4>7, <4>8, <5>1
        <4>11. \A i \in 1..j : Holds(c, i)
          BY <4>3, <4>4, <4>9
        <4>12. Holds(c, k)
          BY <4>4, <4>10
        <4>13. \A i \in 1..k : i \in 1..j \/ i = k
          BY <3>2, <4>1
        <4>14. Fine(k)
          <5> HIDE DEF Holds
          <5>1. \A i \in 1..k : Holds(c, i)
            BY <4>11, <4>12, <4>13
          <5> QED BY <4>5, <4>7, <5>1
        <4> QED BY <3>2, <4>14
      <3> QED BY <3>3, <3>4
    <2>5. l \in 1..l
      BY <1>3
    <2>6. Fine(l)
      BY <2>4, <2>5
    <2> QED BY <1>1, <2>1, <2>6
  <1> QED BY <1>2, <1>3

\* The sims in some order: all of them, each once.
LEMMA OrderIsAll ==
    ASSUME NEW order \in SetToSeqs(Sims)
    PROVE  order \in Seq(Sims) /\ \A s \in Sims : \E i \in DOMAIN order : order[i] = s
  <1>1. PICK n \in Nat : n = Cardinality(Sims)
    BY SwarmAssumption, FS_CardinalityType
  <1>2. order \in [1..n -> Sims] /\ \A i, j \in 1..n : i # j => order[i] # order[j]
    BY <1>1 DEF SetToSeqs
  <1>3. order \in Seq(Sims)
    BY <1>2, SeqDef
  <1>4. PICK D : D = 1..n
    OBVIOUS
  <1>5. order \in Injection(D, Sims)
    <2>1. order \in [D -> Sims]
      BY <1>2, <1>4
    <2>2. \A i, j \in D : order[i] = order[j] => i = j
      BY <1>2, <1>4
    <2> QED BY <2>1, <2>2 DEF Injection, IsInjective
  <1>6. Cardinality(D) = Cardinality(Sims)
    <2>1. Cardinality(1..n) = n
      BY FS_Interval
    <2> QED BY <1>1, <1>4, <2>1
  <1>7. order \in Surjection(D, Sims)
    BY <1>5, <1>6, SwarmAssumption, FS_Injection
  <1>8. \A s \in Sims : \E i \in D : order[i] = s
    BY <1>7 DEF Surjection
  <1> QED BY <1>2, <1>3, <1>4, <1>8

\* One of them with each of the others.
LEMMA FromOneToAll ==
    ASSUME NEW order \in Seq(Sims), NEW i \in DOMAIN order
    PROVE  /\ FromOne(order, i) \in Seq(PyExchanges)
           /\ \A k \in DOMAIN order : k # i =>
                 \E j \in DOMAIN FromOne(order, i) :
                    FromOne(order, i)[j].source = order[i] /\ FromOne(order, i)[j].target = order[k]
  <1>1. PICK n \in Nat : n = Len(order) /\ DOMAIN order = 1..n
    BY LenProperties
  <1>2. i \in 1..n /\ 1 \in 1..n /\ \A k \in 1..n : order[k] \in Sims
    BY <1>1, ElementOfSeq
  <1>3. PICK a, b : a = SubSeq(order, 1, i - 1) /\ b = SubSeq(order, i + 1, n)
    OBVIOUS
  <1>4. a \in Seq(Sims) /\ Len(a) = i - 1 /\ \A k \in 1..i - 1 : a[k] = order[k]
    <2>1. \A k \in 1..i - 1 : order[k] \in Sims
      BY <1>2
    <2>2. /\ a \in Seq(Sims) /\ Len(a) = IF 1 <= i - 1 THEN i - 1 - 1 + 1 ELSE 0
          /\ \A k \in 1..i - 1 - 1 + 1 : a[k] = order[1 + k - 1]
      BY <1>2, <1>3, <2>1, SubSeqProperties
    <2>3. (IF 1 <= i - 1 THEN i - 1 - 1 + 1 ELSE 0) = i - 1
      BY <1>2
    <2>4. \A k \in 1..i - 1 : k \in 1..i - 1 - 1 + 1 /\ 1 + k - 1 = k
      BY <1>2
    <2> QED BY <2>2, <2>3, <2>4
  <1>5. b \in Seq(Sims) /\ Len(b) = n - i /\ \A k \in 1..n - i : b[k] = order[i + k]
    <2>1. \A k \in i + 1..n : order[k] \in Sims
      BY <1>2
    <2>2. /\ b \in Seq(Sims) /\ Len(b) = IF i + 1 <= n THEN n - (i + 1) + 1 ELSE 0
          /\ \A k \in 1..n - (i + 1) + 1 : b[k] = order[(i + 1) + k - 1]
      BY <1>2, <1>3, <2>1, SubSeqProperties
    <2>3. (IF i + 1 <= n THEN n - (i + 1) + 1 ELSE 0) = n - i
      BY <1>2
    <2>4. \A k \in 1..n - i : k \in 1..n - (i + 1) + 1 /\ (i + 1) + k - 1 = i + k
      BY <1>2
    <2> QED BY <2>2, <2>3, <2>4
  <1>6. PICK others : others = RemoveAt(order, i)
    OBVIOUS
  <1>7. others = a \o b
    BY <1>1, <1>3, <1>6 DEF RemoveAt
  <1>8. PICK l \in Nat : l = n - 1
    BY <1>2
  <1>9. /\ others \in Seq(Sims) /\ Len(others) = l
        /\ \A k \in 1..l : others[k] = IF k <= i - 1 THEN a[k] ELSE b[k - (i - 1)]
    <2>1. (i - 1) + (n - i) = l
      BY <1>2, <1>8
    <2>2. a \in Seq(Sims) /\ b \in Seq(Sims) /\ Len(a) = i - 1 /\ Len(b) = n - i
      BY <1>4, <1>5
    <2>3. /\ a \o b \in Seq(Sims) /\ Len(a \o b) = Len(a) + Len(b)
          /\ \A k \in 1..Len(a) + Len(b) : (a \o b)[k] = IF k <= Len(a) THEN a[k] ELSE b[k - Len(a)]
      BY <2>2, ConcatProperties, Zenon
    <2> QED BY <1>7, <2>1, <2>2, <2>3
  <1>10. DOMAIN others = 1..l
    BY <1>9, LenProperties
  <1>11. ASSUME NEW k \in 1..n, k # i PROVE \E j \in 1..l : others[j] = order[k]
    <2>1. CASE k < i
      <3>1. k \in 1..l /\ k <= i - 1 /\ k \in 1..i - 1
        BY <1>2, <1>8, <2>1
      <3> QED BY <1>4, <1>9, <3>1
    <2>2. CASE ~(k < i)
      <3>1. PICK j \in 1..l : j = k - 1
        BY <1>2, <1>8, <1>11, <2>2
      <3>2. ~(j <= i - 1) /\ j - (i - 1) \in 1..n - i /\ i + (j - (i - 1)) = k
        BY <1>2, <1>8, <1>11, <2>2, <3>1
      <3> QED BY <1>5, <1>9, <3>2
    <2> QED BY <2>1, <2>2
  <1>12. PICK from : from = FromOne(order, i)
    OBVIOUS
  <1>13. from = [j \in 1..l |-> [source |-> order[i], target |-> others[j], by |-> order[1]]]
    BY <1>6, <1>10, <1>12 DEF FromOne
  <1>14. \A j \in 1..l : from[j] \in PyExchanges
    <2>1. \A j \in 1..l : others[j] \in Sims
      BY <1>9, ElementOfSeq
    <2> QED BY <1>2, <1>13, <2>1 DEF PyExchanges
  <1>15. from \in Seq(PyExchanges)
    <2>1. from \in [1..l -> PyExchanges]
      BY <1>13, <1>14
    <2> QED BY <2>1, SeqDef
  <1>16. DOMAIN from = 1..l
    BY <1>13
  <1>17. \A j \in 1..l : from[j].source = order[i] /\ from[j].target = others[j]
    BY <1>13
  <1>18. \A k \in DOMAIN order : k # i =>
             \E j \in DOMAIN from : from[j].source = order[i] /\ from[j].target = order[k]
    BY <1>1, <1>11, <1>16, <1>17
  <1> QED BY <1>12, <1>15, <1>18

\* Each of the sims with each other.
LEMMA AllPairs ==
    ASSUME NEW order \in SetToSeqs(Sims), NEW pairs,
           pairs = Pairs(order)
    PROVE  /\ pairs \in Seq(PyExchanges)
           /\ \A s, t \in Sims : s # t => \E k \in DOMAIN pairs : pairs[k].source = s /\ pairs[k].target = t
  <1>1. order \in Seq(Sims) /\ \A s \in Sims : \E i \in DOMAIN order : order[i] = s
    BY OrderIsAll
  <1>2. PICK n \in Nat : n = Len(order) /\ DOMAIN order = 1..n
    BY <1>1, LenProperties
  <1>3. PICK parts : parts = [i \in 1..n |-> FromOne(order, i)]
    OBVIOUS
  <1>4. pairs = FlattenSeq(parts)
    BY <1>2, <1>3 DEF Pairs
  <1>5. DOMAIN parts = 1..n /\ \A i \in 1..n : parts[i] = FromOne(order, i)
    BY <1>3
  <1>6. \A i \in 1..n : parts[i] \in Seq(PyExchanges)
    BY <1>1, <1>2, <1>5, FromOneToAll
  <1>7. parts \in Seq(Seq(PyExchanges))
    <2>1. parts \in [1..n -> Seq(PyExchanges)]
      BY <1>3, <1>5, <1>6
    <2> QED BY <2>1, SeqDef
  <1>8. PICK flat : flat = FlattenSeq(parts)
    OBVIOUS
  <1>9. flat \in Seq(PyExchanges)
    BY <1>7, <1>8, FlattenKeepsAll
  <1>10. \A i \in DOMAIN parts : \A j \in DOMAIN parts[i] : \E k \in DOMAIN flat : flat[k] = parts[i][j]
    BY <1>7, <1>8, FlattenKeepsAll
  <1>11. ASSUME NEW s \in Sims, NEW t \in Sims, s # t
        PROVE  \E k \in DOMAIN flat : flat[k].source = s /\ flat[k].target = t
    <2>1. PICK i, k \in DOMAIN order : order[i] = s /\ order[k] = t
      BY <1>1
    <2>2. i # k
      BY <1>11, <2>1
    <2>3. PICK j \in DOMAIN FromOne(order, i) :
             FromOne(order, i)[j].source = order[i] /\ FromOne(order, i)[j].target = order[k]
      BY <1>1, <2>1, <2>2, FromOneToAll
    <2>4. parts[i] = FromOne(order, i) /\ i \in DOMAIN parts
      BY <1>2, <1>5, <2>1
    <2>5. PICK x \in DOMAIN flat : flat[x] = parts[i][j]
      BY <1>10, <2>3, <2>4
    <2> QED BY <2>1, <2>3, <2>4, <2>5
  <1>12. pairs = flat
    BY <1>4, <1>8
  <1> QED BY <1>9, <1>11, <1>12

-----------------------------------------------------------------------------
(* The Python swarm: one lemma an action *)

\* The swarm at rest, with sims that know nothing.
LEMMA SwarmStart == PyInit => PyInv
  <1> SUFFICES ASSUME PyInit PROVE PyInv
    OBVIOUS
  <1>1. znanija \in [Sims -> PyAnswers] /\ taught \in [Sims -> PyAnswers]
    BY DEF PyInit, PyAnswers
  <1>2. formuly \in [Sims -> Seq(PyFormulas)] /\ populyaciya \in [Sims -> Seq(Seq(Nat))]
    BY DEF PyInit
  <1>3. zhurnal \in [Sims -> PyJournals] /\ genom \in [Sims -> Nat]
    BY SwarmAssumption DEF PyInit, PyJournals
  <1>4. roj \in Seq(PyExchanges) /\ made \in Nat
    BY DEF PyInit
  <1>5. Ids(<<>>) = {} /\ NamesDiffer(<<>>) /\ Selection(<<>>, <<>>) /\ Len(<<>>) <= PopulationLimit
    BY SwarmAssumption DEF Ids, NamesDiffer, Selection, Range
  <1>6. \A s \in Sims : formuly[s] = <<>> /\ populyaciya[s] = <<>>
    BY DEF PyInit
  <1>7. owned = [s \in Sims |-> Ids(formuly[s])]
    <2>1. \A s \in Sims : Ids(formuly[s]) = {}
      BY <1>5, <1>6
    <2> QED BY <2>1 DEF PyInit
  <1>8. OwnAnswersStay
    BY DEF PyInit, OwnAnswersStay
  <1>9. JournalIsWindow
    <2>1. \A s \in Sims : zhurnal[s] = [limit |-> FirstLimit, offset |-> 0, length |-> 0] /\ genom[s] = 1
      BY DEF PyInit
    <2>2. \A s \in Sims : zhurnal[s].limit = FirstLimit /\ zhurnal[s].offset = 0 /\ zhurnal[s].length = 0
      BY <2>1
    <2> QED BY <2>1, <2>2, SwarmAssumption DEF JournalIsWindow
  <1>10. StillToSpread
    BY DEF PyInit, StillToSpread
  <1> QED BY <1>1, <1>2, <1>3, <1>4, <1>5, <1>6, <1>7, <1>8, <1>9, <1>10 DEF PyInv, SimsInv

\* What events and limits do to journal and genome.
LEMMA WindowMoves ==
    ASSUME zhurnal \in [Sims -> PyJournals], genom \in [Sims -> Nat], JournalIsWindow,
           NEW s \in Sims, NEW z \in PyJournals, NEW n \in Nat,
           z.offset = zhurnal[s].offset, z.length = zhurnal[s].length
    PROVE  /\ Trimmed(z, n) \in PyJournals /\ genom[s] + n \in Nat
           /\ Trimmed(z, n).offset + Trimmed(z, n).length = genom[s] + n - 1
           /\ Trimmed(z, n).length <= Trimmed(z, n).limit
  <1>1. zhurnal[s] \in PyJournals /\ genom[s] \in Nat /\ zhurnal[s].offset + zhurnal[s].length = genom[s] - 1
    BY DEF JournalIsWindow
  <1>2. PICK y \in PyJournals : y = Trimmed(z, n)
    BY JournalTrimmed
  <1>3. y.offset + y.length = z.offset + z.length + n /\ y.length <= y.limit
    BY <1>2, JournalTrimmed
  <1>4. PICK a, b, g \in Nat : a = z.offset /\ b = z.length /\ g = genom[s]
    BY <1>1 DEF PyJournals
  <1>5. a + b = g - 1 /\ g + n \in Nat /\ y.offset + y.length = a + b + n
    BY <1>1, <1>3, <1>4
  <1>6. y.offset + y.length = g + n - 1
    BY <1>4, <1>5
  <1> QED BY <1>2, <1>3, <1>4, <1>5, <1>6

\* Events of one sim.
LEMMA EventRegistered ==
    ASSUME zhurnal \in [Sims -> PyJournals], genom \in [Sims -> Nat], JournalIsWindow,
           NEW s \in Sims, NEW n \in Nat, RegisterEvent(s, n)
    PROVE  zhurnal' \in [Sims -> PyJournals] /\ genom' \in [Sims -> Nat] /\ JournalIsWindow'
  <1>1. PICK z \in PyJournals : z = zhurnal[s]
    OBVIOUS
  <1>2. PICK y : y = Trimmed(z, n)
    OBVIOUS
  <1>3. /\ y \in PyJournals /\ genom[s] + n \in Nat
        /\ y.offset + y.length = genom[s] + n - 1 /\ y.length <= y.limit
    BY <1>1, <1>2, WindowMoves
  <1>4. zhurnal' = [zhurnal EXCEPT ![s] = y] /\ genom' = [genom EXCEPT ![s] = genom[s] + n]
    BY <1>1, <1>2 DEF RegisterEvent
  <1>5. zhurnal' \in [Sims -> PyJournals] /\ genom' \in [Sims -> Nat]
    BY <1>3, <1>4
  <1>6. /\ zhurnal'[s] = y /\ genom'[s] = genom[s] + n
        /\ \A p \in Sims : p # s => zhurnal'[p] = zhurnal[p] /\ genom'[p] = genom[p]
    BY <1>4
  <1>7. \A p \in Sims : /\ zhurnal'[p].offset + zhurnal'[p].length = genom'[p] - 1
                        /\ zhurnal'[p].length <= zhurnal'[p].limit
    BY <1>3, <1>6 DEF JournalIsWindow
  <1> QED BY <1>5, <1>7 DEF JournalIsWindow

\* What is known stays known: what was still to spread is spread, or still to spread.
LEMMA SpreadStays ==
    ASSUME StillToSpread, roj' = roj, atStart' = atStart,
           \A p \in Sims, q \in Stimuli : znanija[p][q] # NoReply => znanija'[p][q] # NoReply,
           \A p \in Sims : owned[p] \subseteq owned'[p],
           roj \in Seq(PyExchanges)
    PROVE  StillToSpread'
  <1>1. \A i \in DOMAIN roj : roj[i].source \in Sims
    <2>1. \A i \in DOMAIN roj : roj[i] \in PyExchanges
      BY LenProperties, ElementOfSeq
    <2> QED BY <2>1 DEF PyExchanges
  <1>2. \A p \in Sims : \A q : q \in Known(p) => q \in Known(p)'
    BY DEF Known
  <1>3. ASSUME NEW t \in Sims, NEW q \in atStart.stimuli
        PROVE  q \in Known(t)' \/ \E i \in DOMAIN roj : roj[i].target = t /\ q \in Known(roj[i].source)'
    BY <1>1, <1>2 DEF StillToSpread, Known
  <1>4. ASSUME NEW t \in Sims, NEW id \in atStart.ids
        PROVE  id \in owned'[t] \/ \E i \in DOMAIN roj : roj[i].target = t /\ id \in owned'[roj[i].source]
    BY <1>1 DEF StillToSpread
  <1> QED BY <1>3, <1>4 DEF StillToSpread, Known

\* A lesson.
LEMMA LessonKeeps ==
    ASSUME PyInv, NEW s \in Sims, NEW q \in Stimuli, NEW a \in Replies, TeachSim(s, q, a)
    PROVE  PyInv'
  <1>1. znanija \in [Sims -> PyAnswers] /\ taught \in [Sims -> PyAnswers]
    BY DEF PyInv, SimsInv
  <1>2. znanija' = [znanija EXCEPT ![s][q] = a] /\ taught' = [taught EXCEPT ![s][q] = a]
    BY DEF TeachSim
  <1>3. znanija' \in [Sims -> PyAnswers] /\ taught' \in [Sims -> PyAnswers]
    <2>1. PICK x, y \in PyAnswers : x = znanija[s] /\ y = taught[s]
      BY <1>1
    <2>2. [x EXCEPT ![q] = a] \in PyAnswers /\ [y EXCEPT ![q] = a] \in PyAnswers
      BY DEF PyAnswers
    <2>3. znanija' = [znanija EXCEPT ![s] = [x EXCEPT ![q] = a]] /\ taught' = [taught EXCEPT ![s] = [y EXCEPT ![q] = a]]
      BY <1>2, <2>1
    <2> QED BY <1>1, <2>2, <2>3
  <1>4. /\ \A p \in Sims, r \in Stimuli : znanija'[p][r] = IF p = s /\ r = q THEN a ELSE znanija[p][r]
        /\ \A p \in Sims, r \in Stimuli : taught'[p][r] = IF p = s /\ r = q THEN a ELSE taught[p][r]
    BY <1>1, <1>2 DEF PyAnswers
  <1>5. OwnAnswersStay'
    <2>1. \A p \in Sims, r \in Stimuli : taught[p][r] # NoReply => znanija[p][r] = taught[p][r]
      BY DEF PyInv, SimsInv, OwnAnswersStay
    <2>2. ASSUME NEW p \in Sims, NEW r \in Stimuli, taught'[p][r] # NoReply
          PROVE  znanija'[p][r] = taught'[p][r]
      BY <1>4, <2>1, <2>2
    <2> QED BY <2>2 DEF OwnAnswersStay
  <1>6. /\ formuly' = formuly /\ populyaciya' = populyaciya /\ roj' = roj /\ made' = made
        /\ atStart' = atStart /\ owned' = owned
    BY DEF TeachSim
  <1>7. zhurnal' \in [Sims -> PyJournals] /\ genom' \in [Sims -> Nat] /\ JournalIsWindow'
    BY EventRegistered DEF PyInv, SimsInv, TeachSim
  <1>8. StillToSpread'
    <2>1. a # NoReply
      BY SwarmAssumption
    <2>2. \A p \in Sims, r \in Stimuli : znanija[p][r] # NoReply => znanija'[p][r] # NoReply
      BY <1>4, <2>1
    <2> QED BY <1>6, <2>2, SpreadStays DEF PyInv, SimsInv
  <1> QED BY <1>3, <1>5, <1>6, <1>7, <1>8 DEF PyInv, SimsInv

\* A question.
LEMMA QuestionKeeps ==
    ASSUME PyInv, NEW s \in Sims, AskSim(s)
    PROVE  PyInv'
  <1>1. /\ formuly' = formuly /\ populyaciya' = populyaciya /\ roj' = roj /\ made' = made
        /\ atStart' = atStart /\ owned' = owned /\ znanija' = znanija /\ taught' = taught
    BY DEF AskSim
  <1>2. zhurnal' \in [Sims -> PyJournals] /\ genom' \in [Sims -> Nat] /\ JournalIsWindow'
    BY EventRegistered DEF PyInv, SimsInv, AskSim
  <1>3. OwnAnswersStay'
    BY <1>1 DEF PyInv, SimsInv, OwnAnswersStay
  <1>4. StillToSpread'
    BY <1>1, SpreadStays DEF PyInv, SimsInv
  <1> QED BY <1>1, <1>2, <1>3, <1>4 DEF PyInv, SimsInv

\* Another limit.
LEMMA LimitKeeps ==
    ASSUME PyInv, NEW s \in Sims, NEW limit \in LogLimits, SetLimit(s, limit)
    PROVE  PyInv'
  <1>1. /\ formuly' = formuly /\ populyaciya' = populyaciya /\ roj' = roj /\ made' = made
        /\ atStart' = atStart /\ owned' = owned /\ znanija' = znanija /\ taught' = taught
        /\ genom' = genom
    BY DEF SetLimit
  <1>2. zhurnal \in [Sims -> PyJournals] /\ genom \in [Sims -> Nat] /\ JournalIsWindow
    BY DEF PyInv, SimsInv
  <1>3. PICK x \in PyJournals : x = zhurnal[s]
    BY <1>2
  <1>4. limit \in Nat
    BY SwarmAssumption
  <1>5. PICK z : z = [x EXCEPT !.limit = limit]
    OBVIOUS
  <1>6. z \in PyJournals /\ z.offset = x.offset /\ z.length = x.length
    BY <1>4, <1>5 DEF PyJournals
  <1>7. PICK y : y = Trimmed(z, 0)
    OBVIOUS
  <1>8. y \in PyJournals /\ y.offset + y.length = genom[s] + 0 - 1 /\ y.length <= y.limit
    BY <1>2, <1>3, <1>6, <1>7, WindowMoves
  <1>9. zhurnal' = [zhurnal EXCEPT ![s] = y]
    BY <1>3, <1>5, <1>7 DEF SetLimit
  <1>10. genom[s] \in Nat
    BY <1>2
  <1>11. zhurnal' \in [Sims -> PyJournals] /\ JournalIsWindow'
    BY <1>1, <1>2, <1>8, <1>9, <1>10 DEF JournalIsWindow
  <1>12. OwnAnswersStay'
    BY <1>1 DEF PyInv, SimsInv, OwnAnswersStay
  <1>13. StillToSpread'
    BY <1>1, SpreadStays DEF PyInv, SimsInv
  <1> QED BY <1>1, <1>2, <1>11, <1>12, <1>13 DEF PyInv, SimsInv

\* A formula made: its name, the number of formulas there will be, is new.
LEMMA EvolutionKeeps ==
    ASSUME PyInv, NEW s \in Sims, EvolveSim(s)
    PROVE  PyInv'
  <1>1. /\ roj' = roj /\ atStart' = atStart /\ znanija' = znanija /\ taught' = taught
    BY DEF EvolveSim
  <1>2. zhurnal' \in [Sims -> PyJournals] /\ genom' \in [Sims -> Nat] /\ JournalIsWindow'
    BY EventRegistered DEF PyInv, SimsInv, EvolveSim
  <1>3. PICK fs \in Seq(PyFormulas), names \in Seq(Seq(Nat)) : fs = formuly[s] /\ names = populyaciya[s]
    BY DEF PyInv, SimsInv
  <1>4. NamesDiffer(fs) /\ Selection(names, fs)
    BY <1>3 DEF PyInv, SimsInv
  <1>5. PICK l \in Nat : l = Len(fs) /\ DOMAIN fs = 1..l
    BY LenProperties
  <1>6. PICK name \in Seq(Nat) \ {<<>>} : name = <<l + 1>>
    <2>1. PICK n \in Nat : n = l + 1
      OBVIOUS
    <2>2. <<n>> \in Seq(Nat) /\ <<n>> # <<>>
      OBVIOUS
    <2> QED BY <2>1, <2>2
  <1>7. Len(name) = 1 /\ name[1] = l + 1
    BY <1>6
  <1>8. name \notin NamesIn(fs)
    <2> SUFFICES ASSUME NEW i \in DOMAIN fs, fs[i].name = name PROVE FALSE
      BY DEF NamesIn
    <2>1. name[1] <= l
      BY <1>4, <1>5, <1>7 DEF NamesDiffer
    <2> QED BY <1>5, <1>7, <2>1
  <1>9. PICK id \in Nat : id = made' /\ id = made + 1
    BY DEF PyInv, SimsInv, EvolveSim
  <1>10. PICK gs : gs = Put(fs, name, id)
    OBVIOUS
  <1>11. /\ gs \in Seq(PyFormulas) /\ Len(gs) = l + 1 /\ DOMAIN gs = 1..l + 1
         /\ NamesIn(gs) = NamesIn(fs) \cup {name} /\ Ids(gs) = Ids(fs) \cup {id}
         /\ \A i \in DOMAIN fs : gs[i] = fs[i]
         /\ gs[l + 1] = [name |-> name, id |-> id]
    BY <1>5, <1>8, <1>10, FormulaAppended
  <1>12. NamesDiffer(gs)
    <2>1. \A i : i \in DOMAIN gs <=> i \in DOMAIN fs \/ i = l + 1
      BY <1>5, <1>11
    <2>2. gs[l + 1].name = name /\ \A i \in DOMAIN fs : gs[i].name # name
      BY <1>8, <1>11 DEF NamesIn
    <2>3. \A i, j \in DOMAIN gs : gs[i].name = gs[j].name => i = j
      BY <1>4, <1>11, <2>1, <2>2 DEF NamesDiffer
    <2>4. ASSUME NEW i \in DOMAIN gs, Len(gs[i].name) = 1 PROVE gs[i].name[1] <= l + 1
      <3>1. CASE i = l + 1
        BY <1>5, <1>7, <2>2, <3>1
      <3>2. CASE i \in DOMAIN fs
        <4>1. gs[i] = fs[i] /\ fs[i] \in PyFormulas
          BY <1>5, <1>11, <3>2, ElementOfSeq
        <4>2. PICK other \in Seq(Nat) : other = fs[i].name /\ Len(other) = 1
          BY <2>4, <4>1 DEF PyFormulas
        <4>3. other[1] \in Nat
          BY <4>2, ElementOfSeq
        <4>4. other[1] <= l
          BY <1>4, <1>5, <3>2, <4>2 DEF NamesDiffer
        <4> QED BY <4>1, <4>2, <4>3, <4>4
      <3> QED BY <2>1, <3>1, <3>2
    <2> QED BY <1>11, <2>3, <2>4 DEF NamesDiffer
  <1>13. PICK more : more = Append(names, name)
    OBVIOUS
  <1>14. more \in Seq(Seq(Nat)) /\ Selection(more, gs)
    BY <1>4, <1>8, <1>11, <1>13, NameAppended
  <1>15. PICK last : last = LastOf(more)
    OBVIOUS
  <1>16. last \in Seq(Seq(Nat)) /\ Selection(last, gs) /\ Len(last) <= PopulationLimit
    BY <1>14, <1>15, PopulationCut
  <1>17. /\ formuly' = [formuly EXCEPT ![s] = gs] /\ populyaciya' = [populyaciya EXCEPT ![s] = last]
         /\ owned' = [owned EXCEPT ![s] = owned[s] \cup {id}]
    BY <1>3, <1>5, <1>6, <1>9, <1>10, <1>13, <1>15 DEF EvolveSim
  <1>18. formuly' \in [Sims -> Seq(PyFormulas)] /\ populyaciya' \in [Sims -> Seq(Seq(Nat))] /\ made' \in Nat
    BY <1>9, <1>11, <1>16, <1>17 DEF PyInv, SimsInv
  <1>19. \A p \in Sims : /\ formuly'[p] = IF p = s THEN gs ELSE formuly[p]
                         /\ populyaciya'[p] = IF p = s THEN last ELSE populyaciya[p]
    BY <1>17 DEF PyInv, SimsInv
  <1>20. \A p \in Sims : /\ NamesDiffer(formuly'[p]) /\ Selection(populyaciya'[p], formuly'[p])
                         /\ Len(populyaciya'[p]) <= PopulationLimit
    BY <1>12, <1>16, <1>19 DEF PyInv, SimsInv
  <1>21. \A p \in Sims : owned[p] = Ids(formuly[p])
    BY DEF PyInv, SimsInv
  <1>22. \A p \in Sims : owned'[p] = IF p = s THEN owned[s] \cup {id} ELSE owned[p]
    BY <1>17 DEF PyInv, SimsInv
  <1>23. owned' = [p \in Sims |-> Ids(formuly'[p])]
    <2>1. \A p \in Sims : owned'[p] = Ids(formuly'[p])
      BY <1>3, <1>11, <1>19, <1>21, <1>22
    <2>2. owned' = [p \in Sims |-> owned'[p]]
      BY <1>17 DEF PyInv, SimsInv
    <2> QED BY <2>1, <2>2
  <1>24. StillToSpread'
    <2>1. \A p \in Sims : owned[p] \subseteq owned'[p]
      BY <1>22
    <2> QED BY <1>1, <2>1, SpreadStays DEF PyInv, SimsInv
  <1>25. OwnAnswersStay'
    BY <1>1 DEF PyInv, SimsInv, OwnAnswersStay
  <1> QED BY <1>1, <1>2, <1>18, <1>20, <1>23, <1>24, <1>25 DEF PyInv, SimsInv

\* A swarm starts, and every pair is still to exchange.
LEMMA SwarmStartKeeps ==
    ASSUME PyInv, NEW order \in SetToSeqs(Sims), StartSwarm(order)
    PROVE  PyInv'
  <1>1. /\ znanija' = znanija /\ formuly' = formuly /\ populyaciya' = populyaciya /\ zhurnal' = zhurnal
        /\ genom' = genom /\ made' = made /\ taught' = taught /\ owned' = owned
    BY DEF StartSwarm
  <1>2. PICK pairs : pairs = Pairs(order) /\ roj' = pairs
    BY DEF StartSwarm
  <1>3. pairs \in Seq(PyExchanges)
    BY <1>2, AllPairs
  <1>4. \A s, t \in Sims : s # t => \E k \in DOMAIN pairs : pairs[k].source = s /\ pairs[k].target = t
    BY <1>2, AllPairs
  <1>5. Range(order) \subseteq Sims
    <2>1. order \in Seq(Sims)
      BY OrderIsAll
    <2> QED BY <2>1, LenProperties, ElementOfSeq DEF Range
  <1>6. /\ \A q \in atStart'.stimuli : \E s \in Sims : q \in Known(s)
        /\ \A id \in atStart'.ids : \E s \in Sims : id \in owned[s]
    <2>1. /\ atStart'.stimuli = UNION {Known(s) : s \in Range(order)}
          /\ atStart'.ids = UNION {Ids(formuly[s]) : s \in Range(order)}
      BY DEF StartSwarm
    <2>2. \A s \in Sims : owned[s] = Ids(formuly[s])
      BY DEF PyInv, SimsInv
    <2> QED BY <1>5, <2>1, <2>2
  <1>7. \A s \in Sims : Known(s)' = Known(s)
    BY <1>1 DEF Known
  <1>8. StillToSpread'
    <2>1. ASSUME NEW t \in Sims, NEW q \in atStart'.stimuli
          PROVE  q \in Known(t) \/ \E i \in DOMAIN pairs : pairs[i].target = t /\ q \in Known(pairs[i].source)
      <3>1. PICK s \in Sims : q \in Known(s)
        BY <1>6
      <3> QED BY <1>4, <3>1
    <2>2. ASSUME NEW t \in Sims, NEW id \in atStart'.ids
          PROVE  id \in owned[t] \/ \E i \in DOMAIN pairs : pairs[i].target = t /\ id \in owned[pairs[i].source]
      <3>1. PICK s \in Sims : id \in owned[s]
        BY <1>6
      <3> QED BY <1>4, <3>1
    <2> QED BY <1>1, <1>2, <2>1, <2>2 DEF StillToSpread, Known
  <1>9. OwnAnswersStay' /\ JournalIsWindow'
    BY <1>1 DEF PyInv, SimsInv, OwnAnswersStay, JournalIsWindow
  <1> QED BY <1>1, <1>2, <1>3, <1>8, <1>9 DEF PyInv, SimsInv

\* An import from a sim without formulas changes nothing.
LEMMA NothingImported ==
    ASSUME NEW base
    PROVE  FoldLeft(WithFormula, base, <<>>) = base
  <1>1. PICK iter : Gathering(iter, base, <<>>) /\ FoldLeft(WithFormula, base, <<>>) = iter[DOMAIN <<>>]
    <2>1. <<>> \in Seq(PyFormulas)
      OBVIOUS
    <2> QED BY <2>1, GatheringExists, FoldIs
  <1>2. DOMAIN <<>> = {} /\ {} \in SUBSET DOMAIN <<>>
    OBVIOUS
  <1>3. iter[{}] = base
    BY <1>1, <1>2 DEF Gathering
  <1> QED BY <1>1, <1>2, <1>3

\* What the target answers itself it goes on answering; the rest it has from the source.
LEMMA LessonsTaken ==
    ASSUME PyInv, NEW s \in Sims, NEW t \in Sims, znanija' = [znanija EXCEPT ![t] = WithLesson(s, t)],
           taught' = taught
    PROVE  /\ znanija' \in [Sims -> PyAnswers] /\ OwnAnswersStay'
           /\ \A p \in Sims, q \in Stimuli : znanija[p][q] # NoReply => znanija'[p][q] # NoReply
           /\ \A q \in Stimuli : znanija[s][q] # NoReply => znanija'[t][q] # NoReply
  <1>1. PICK x, y \in PyAnswers : x = znanija[s] /\ y = znanija[t]
    BY DEF PyInv, SimsInv
  <1>2. PICK z : z = [q \in Stimuli |-> IF y[q] # NoReply THEN y[q] ELSE x[q]]
    OBVIOUS
  <1>3. z \in PyAnswers
    BY <1>2 DEF PyAnswers
  <1>4. znanija' = [znanija EXCEPT ![t] = z]
    BY <1>1, <1>2 DEF WithLesson
  <1>5. znanija' \in [Sims -> PyAnswers] /\ znanija'[t] = z /\ \A p \in Sims : p # t => znanija'[p] = znanija[p]
    BY <1>3, <1>4 DEF PyInv, SimsInv
  <1>6. \A q \in Stimuli : z[q] = IF y[q] # NoReply THEN y[q] ELSE x[q]
    BY <1>2
  <1>7. \A p \in Sims, q \in Stimuli : znanija[p][q] # NoReply => znanija'[p][q] = znanija[p][q]
    BY <1>1, <1>5, <1>6
  <1>8. OwnAnswersStay'
    BY <1>7 DEF PyInv, SimsInv, OwnAnswersStay
  <1>9. \A q \in Stimuli : znanija[s][q] # NoReply => znanija'[t][q] # NoReply
    BY <1>1, <1>5, <1>6
  <1> QED BY <1>5, <1>7, <1>8, <1>9

\* One source and one target.
LEMMA ExchangeLeaves ==
    ASSUME PyInv, roj # <<>>, NEW events \in Nat, Exchanged(events)
    PROVE  /\ SimsInv' /\ roj[1] \in PyExchanges
           /\ \A p \in Sims, q \in Stimuli : znanija[p][q] # NoReply => znanija'[p][q] # NoReply
           /\ \A q \in Stimuli : znanija[roj[1].source][q] # NoReply => znanija'[roj[1].target][q] # NoReply
           /\ \A p \in Sims : owned[p] \subseteq owned'[p]
           /\ owned[roj[1].source] \subseteq owned'[roj[1].target]
  <1>1. roj[1] \in PyExchanges /\ Head(roj) = roj[1]
    BY HeadTailProperties DEF PyInv, SimsInv
  <1>2. PICK s, t \in Sims : s = roj[1].source /\ t = roj[1].target
    BY <1>1 DEF PyExchanges
  <1>3. /\ znanija' = [znanija EXCEPT ![t] = WithLesson(s, t)] /\ taught' = taught /\ made' = made
        /\ formuly' = [formuly EXCEPT ![t] = Imported(s, t).formuly]
        /\ populyaciya' = [populyaciya EXCEPT
              ![t] = IF formuly[s] = <<>> THEN populyaciya[t] ELSE LastOf(Imported(s, t).names)]
        /\ owned' = [owned EXCEPT ![t] = owned[t] \cup Ids(formuly[s])]
    BY <1>1, <1>2 DEF Exchanged
  <1>4. /\ znanija' \in [Sims -> PyAnswers] /\ OwnAnswersStay'
        /\ \A p \in Sims, q \in Stimuli : znanija[p][q] # NoReply => znanija'[p][q] # NoReply
        /\ \A q \in Stimuli : znanija[s][q] # NoReply => znanija'[t][q] # NoReply
    BY <1>3, LessonsTaken
  <1>5. PICK src, fs \in Seq(PyFormulas), names \in Seq(Seq(Nat)) :
            src = formuly[s] /\ fs = formuly[t] /\ names = populyaciya[t]
    BY DEF PyInv, SimsInv
  <1>6. PICK import : import = Imported(s, t)
    OBVIOUS
  <1>7. NamesDiffer(fs) /\ Selection(names, fs) /\ NamesDiffer(src) /\ Len(names) <= PopulationLimit
    BY <1>5 DEF PyInv, SimsInv
  <1>8. import = FoldLeft(WithFormula, [formuly |-> fs, names |-> names], src)
    BY <1>5, <1>6 DEF Imported
  <1>9. /\ import.formuly \in Seq(PyFormulas) /\ import.names \in Seq(Seq(Nat))
        /\ NamesDiffer(import.formuly) /\ Selection(import.names, import.formuly)
        /\ Ids(import.formuly) = Ids(fs) \cup Ids(src)
    BY <1>7, <1>8, ImportKeepsAll
  <1>10. PICK gs, last : gs = import.formuly /\ last = IF src = <<>> THEN names ELSE LastOf(import.names)
    OBVIOUS
  <1>11. last \in Seq(Seq(Nat)) /\ Selection(last, gs) /\ Len(last) <= PopulationLimit
    <2>1. CASE src = <<>>
      <3>1. import = [formuly |-> fs, names |-> names]
        BY <1>8, <2>1, NothingImported
      <3>2. gs = fs
        BY <1>10, <3>1
      <3> QED BY <1>7, <1>10, <2>1, <3>2
    <2>2. CASE src # <<>>
      BY <1>9, <1>10, <2>2, PopulationCut
    <2> QED BY <2>1, <2>2
  <1>12. /\ formuly' = [formuly EXCEPT ![t] = gs] /\ populyaciya' = [populyaciya EXCEPT ![t] = last]
         /\ owned' = [owned EXCEPT ![t] = owned[t] \cup Ids(src)]
    BY <1>3, <1>5, <1>6, <1>10
  <1>13. gs \in Seq(PyFormulas) /\ NamesDiffer(gs) /\ Ids(gs) = Ids(fs) \cup Ids(src)
    BY <1>9, <1>10
  <1>14. formuly' \in [Sims -> Seq(PyFormulas)] /\ populyaciya' \in [Sims -> Seq(Seq(Nat))]
    BY <1>11, <1>12, <1>13 DEF PyInv, SimsInv
  <1>15. \A p \in Sims : /\ formuly'[p] = IF p = t THEN gs ELSE formuly[p]
                         /\ populyaciya'[p] = IF p = t THEN last ELSE populyaciya[p]
    BY <1>12 DEF PyInv, SimsInv
  <1>16. \A p \in Sims : /\ NamesDiffer(formuly'[p]) /\ Selection(populyaciya'[p], formuly'[p])
                         /\ Len(populyaciya'[p]) <= PopulationLimit
    BY <1>11, <1>13, <1>15 DEF PyInv, SimsInv
  <1>17. \A p \in Sims : owned[p] = Ids(formuly[p])
    BY DEF PyInv, SimsInv
  <1>18. \A p \in Sims : owned'[p] = IF p = t THEN owned[t] \cup Ids(src) ELSE owned[p]
    BY <1>12 DEF PyInv, SimsInv
  <1>19. owned' = [p \in Sims |-> Ids(formuly'[p])]
    <2>1. \A p \in Sims : owned'[p] = Ids(formuly'[p])
      BY <1>5, <1>13, <1>15, <1>17, <1>18
    <2>2. owned' = [p \in Sims |-> owned'[p]]
      BY <1>12 DEF PyInv, SimsInv
    <2> QED BY <2>1, <2>2
  <1>20. zhurnal' \in [Sims -> PyJournals] /\ genom' \in [Sims -> Nat] /\ JournalIsWindow'
    <2>0. PICK logged : logged = [p \in Sims |-> (IF p = t THEN events ELSE 0)
                                    + (IF Len(roj) = 1 /\ p = Head(roj).by THEN 1 ELSE 0)]
      OBVIOUS
    <2>1. /\ zhurnal' = [p \in Sims |-> Trimmed(zhurnal[p], logged[p])]
          /\ genom' = [p \in Sims |-> genom[p] + logged[p]]
      BY <1>1, <1>2, <2>0 DEF Exchanged
    <2>2. \A p \in Sims : logged[p] \in Nat
      BY <2>0
    <2>3. zhurnal \in [Sims -> PyJournals] /\ genom \in [Sims -> Nat] /\ JournalIsWindow
      BY DEF PyInv, SimsInv
    <2>4. ASSUME NEW p \in Sims
          PROVE  /\ zhurnal'[p] \in PyJournals /\ genom'[p] \in Nat
                 /\ zhurnal'[p].offset + zhurnal'[p].length = genom'[p] - 1
                 /\ zhurnal'[p].length <= zhurnal'[p].limit
      <3>1. PICK z \in PyJournals, n \in Nat : z = zhurnal[p] /\ n = logged[p]
        BY <2>2, <2>3
      <3>2. zhurnal'[p] = Trimmed(z, n) /\ genom'[p] = genom[p] + n
        BY <2>1, <3>1
      <3>3. PICK y : y = Trimmed(z, n)
        OBVIOUS
      <3>4. /\ y \in PyJournals /\ genom[p] + n \in Nat
            /\ y.offset + y.length = genom[p] + n - 1 /\ y.length <= y.limit
        BY <2>3, <3>1, <3>3, WindowMoves
      <3>5. zhurnal'[p] = y
        BY <3>2, <3>3
      <3>6. PICK g : g = genom[p] + n
        OBVIOUS
      <3>7. g \in Nat
        BY <3>4, <3>6
      <3>8. genom'[p] = g
        BY <3>2, <3>6
      <3>9. y.offset + y.length = g - 1
        <4>1. PICK h \in Nat : h = genom[p]
          BY <2>3
        <4>2. g = h + n /\ y.offset + y.length = h + n - 1
          BY <3>4, <3>6, <4>1
        <4> QED BY <4>2
      <3> QED BY <3>4, <3>5, <3>7, <3>8, <3>9
    <2>5. zhurnal' \in [Sims -> PyJournals] /\ genom' \in [Sims -> Nat]
      BY <2>1, <2>4
    <2> QED BY <2>4, <2>5 DEF JournalIsWindow
  <1>21. taught' \in [Sims -> PyAnswers] /\ made' \in Nat
    BY <1>3 DEF PyInv, SimsInv
  <1>22. SimsInv'
    BY <1>4, <1>14, <1>16, <1>19, <1>20, <1>21 DEF SimsInv
  <1>23. (\A p \in Sims : owned[p] \subseteq owned'[p]) /\ owned[s] \subseteq owned'[t]
    BY <1>5, <1>17, <1>18
  <1> QED BY <1>1, <1>2, <1>4, <1>22, <1>23

\* What is still to spread once the first exchange of the plan is done.
LEMMA SpreadGoesOn ==
    ASSUME StillToSpread, roj \in Seq(PyExchanges), roj # <<>>, roj' = Tail(roj), atStart' = atStart,
           \A p \in Sims, q \in Stimuli : znanija[p][q] # NoReply => znanija'[p][q] # NoReply,
           \A q \in Stimuli : znanija[roj[1].source][q] # NoReply => znanija'[roj[1].target][q] # NoReply,
           \A p \in Sims : owned[p] \subseteq owned'[p],
           owned[roj[1].source] \subseteq owned'[roj[1].target]
    PROVE  StillToSpread'
  <1>1. PICK n \in Nat : n = Len(roj) /\ DOMAIN roj = 1..n
    BY LenProperties
  <1>2. PICK rest \in Seq(PyExchanges) : rest = Tail(roj) /\ roj' = rest
    BY HeadTailProperties
  <1>3. Len(rest) = n - 1 /\ \A i \in 1..Len(rest) : rest[i] = roj[i + 1]
    BY <1>1, <1>2, HeadTailProperties
  <1>4. DOMAIN rest = 1..n - 1
    BY <1>2, <1>3, LenProperties
  <1>5. \A i \in DOMAIN roj : i = 1 \/ (i - 1 \in DOMAIN rest /\ rest[i - 1] = roj[i])
    <2>1. \A i \in 1..n : i = 1 \/ (i - 1 \in 1..n - 1 /\ (i - 1) + 1 = i)
      BY <1>1
    <2> QED BY <1>1, <1>3, <1>4, <2>1
  <1>6. \A i \in DOMAIN roj : roj[i].source \in Sims /\ roj[i].target \in Sims
    <2>1. \A i \in DOMAIN roj : roj[i] \in PyExchanges
      BY LenProperties, ElementOfSeq
    <2> QED BY <2>1 DEF PyExchanges
  <1>7. \A p \in Sims : \A q : q \in Known(p) => q \in Known(p)'
    BY DEF Known
  <1>8. ASSUME NEW t \in Sims, NEW q \in atStart.stimuli
        PROVE  q \in Known(t)' \/ \E i \in DOMAIN rest : rest[i].target = t /\ q \in Known(rest[i].source)'
    <2>1. CASE q \in Known(t)
      BY <1>7, <2>1
    <2>2. CASE q \notin Known(t)
      <3>1. PICK i \in DOMAIN roj : roj[i].target = t /\ q \in Known(roj[i].source)
        BY <2>2 DEF StillToSpread
      <3>2. CASE i = 1
        BY <3>1, <3>2 DEF Known
      <3>3. CASE i # 1
        <4>1. PICK r \in DOMAIN rest : rest[r] = roj[i]
          BY <1>5, <3>3
        <4>2. PICK s \in Sims : s = roj[i].source /\ s = rest[r].source /\ rest[r].target = t
          BY <1>6, <3>1, <4>1
        <4>3. q \in Known(s)'
          BY <1>7, <3>1, <4>2
        <4>4. q \in Known(rest[r].source)'
          BY <4>2, <4>3
        <4> QED BY <4>2, <4>4
      <3> QED BY <3>2, <3>3
    <2> QED BY <2>1, <2>2
  <1>9. ASSUME NEW t \in Sims, NEW id \in atStart.ids
        PROVE  id \in owned'[t] \/ \E i \in DOMAIN rest : rest[i].target = t /\ id \in owned'[rest[i].source]
    <2>1. id \in owned[t] \/ \E i \in DOMAIN roj : roj[i].target = t /\ id \in owned[roj[i].source]
      BY DEF StillToSpread
    <2>2. CASE id \in owned[t]
      BY <2>2
    <2>3. ASSUME NEW i \in DOMAIN roj, roj[i].target = t, id \in owned[roj[i].source]
          PROVE  id \in owned'[t] \/ \E r \in DOMAIN rest : rest[r].target = t /\ id \in owned'[rest[r].source]
      <3>1. CASE i = 1
        BY <2>3, <3>1
      <3>2. CASE i # 1
        <4>1. PICK r \in DOMAIN rest : rest[r] = roj[i]
          BY <1>5, <3>2
        <4>2. id \in owned'[rest[r].source] /\ rest[r].target = t
          BY <1>6, <2>3, <4>1
        <4> QED BY <4>2
      <3> QED BY <3>1, <3>2
    <2> QED BY <2>1, <2>2, <2>3
  <1> QED BY <1>2, <1>8, <1>9 DEF StillToSpread, Known

\* An exchange; and one that raises, and ends the swarm.
LEMMA ExchangeKeeps ==
    ASSUME PyInv, Exchange \/ ExchangeRaises
    PROVE  PyInv'
  <1>1. roj \in Seq(PyExchanges) /\ StillToSpread
    BY DEF PyInv
  <1>2. roj # <<>>
    BY DEF Exchange, ExchangeRaises
  <1>3. CASE Exchange
    <2>1. PICK events \in Nat : Exchanged(events)
      BY <1>3 DEF Exchange
    <2>2. roj' = Tail(roj) /\ atStart' = atStart
      BY <1>3 DEF Exchange
    <2>3. SimsInv'
      BY <1>2, <2>1, ExchangeLeaves
    <2>4. StillToSpread'
      BY <1>1, <1>2, <2>1, <2>2, ExchangeLeaves, SpreadGoesOn
    <2>5. roj' \in Seq(PyExchanges)
      BY <1>1, <1>2, <2>2, HeadTailProperties
    <2> QED BY <2>3, <2>4, <2>5 DEF PyInv
  <1>4. CASE ExchangeRaises
    <2>1. Exchanged(2) /\ roj' = <<>> /\ atStart' = [stimuli |-> {}, ids |-> {}]
      BY <1>4 DEF ExchangeRaises
    <2>2. SimsInv'
      BY <1>2, <2>1, ExchangeLeaves
    <2>3. StillToSpread'
      BY <2>1 DEF StillToSpread
    <2> QED BY <2>1, <2>2, <2>3 DEF PyInv
  <1> QED BY <1>3, <1>4

\* The target has learned the answers only.
LEMMA SyncRaisesKeeps ==
    ASSUME PyInv, SyncRaises
    PROVE  PyInv'
  <1>1. roj \in Seq(PyExchanges) /\ roj # <<>>
    BY DEF PyInv, SyncRaises
  <1>2. Head(roj) \in PyExchanges
    BY <1>1, HeadTailProperties
  <1>3. PICK s, t \in Sims : s = Head(roj).source /\ t = Head(roj).target
    BY <1>2 DEF PyExchanges
  <1>4. /\ znanija' = [znanija EXCEPT ![t] = WithLesson(s, t)] /\ RegisterEvent(t, 1)
        /\ roj' = <<>> /\ atStart' = [stimuli |-> {}, ids |-> {}]
        /\ formuly' = formuly /\ populyaciya' = populyaciya /\ made' = made /\ taught' = taught
        /\ owned' = owned
    BY <1>3 DEF SyncRaises
  <1>5. znanija' \in [Sims -> PyAnswers] /\ OwnAnswersStay'
    BY <1>4, LessonsTaken
  <1>6. zhurnal' \in [Sims -> PyJournals] /\ genom' \in [Sims -> Nat] /\ JournalIsWindow'
    BY <1>4, EventRegistered DEF PyInv, SimsInv
  <1>7. SimsInv'
    BY <1>4, <1>5, <1>6 DEF PyInv, SimsInv
  <1>8. StillToSpread'
    BY <1>4 DEF StillToSpread
  <1> QED BY <1>4, <1>7, <1>8 DEF PyInv

\* Every step keeps the invariant.
LEMMA PyStep == PyInv /\ [PyNext]_pyVars => PyInv'
  <1> SUFFICES ASSUME PyInv, [PyNext]_pyVars PROVE PyInv'
    OBVIOUS
  <1>1. ASSUME NEW s \in Sims, NEW q \in Stimuli, NEW a \in Replies, TeachSim(s, q, a) PROVE PyInv'
    BY <1>1, LessonKeeps
  <1>2. ASSUME NEW s \in Sims, AskSim(s) PROVE PyInv'
    BY <1>2, QuestionKeeps
  <1>3. ASSUME NEW s \in Sims, EvolveSim(s) PROVE PyInv'
    BY <1>3, EvolutionKeeps
  <1>4. ASSUME NEW s \in Sims, NEW limit \in LogLimits, SetLimit(s, limit) PROVE PyInv'
    BY <1>4, LimitKeeps
  <1>5. ASSUME NEW order \in SetToSeqs(Sims), StartSwarm(order) PROVE PyInv'
    BY <1>5, SwarmStartKeeps
  <1>6. CASE Exchange \/ ExchangeRaises
    BY <1>6, ExchangeKeeps
  <1>7. CASE SyncRaises
    BY <1>7, SyncRaisesKeeps
  <1>8. CASE UNCHANGED pyVars
    <2>1. /\ znanija' = znanija /\ formuly' = formuly /\ populyaciya' = populyaciya /\ zhurnal' = zhurnal
          /\ genom' = genom /\ roj' = roj /\ made' = made /\ taught' = taught /\ atStart' = atStart
          /\ owned' = owned
      BY <1>8 DEF pyVars
    <2>2. OwnAnswersStay' /\ JournalIsWindow'
      BY <2>1 DEF PyInv, SimsInv, OwnAnswersStay, JournalIsWindow
    <2>3. StillToSpread'
      BY <2>1, SpreadStays DEF PyInv
    <2> QED BY <2>1, <2>2, <2>3 DEF PyInv, SimsInv
  <1> QED BY <1>1, <1>2, <1>3, <1>4, <1>5, <1>6, <1>7, <1>8 DEF PyNext

\* As many elements as a sequence without repetitions is long.
LEMMA Counted ==
    ASSUME NEW n \in Nat, NEW f, DOMAIN f = 1..n, NEW S, S = {f[i] : i \in 1..n},
           \A i, j \in 1..n : f[i] = f[j] => i = j
    PROVE  Cardinality(S) = n
  <1>1. PICK g : g = [i \in 1..n |-> f[i]]
    OBVIOUS
  <1>2. PICK D : D = 1..n
    OBVIOUS
  <1>3. g \in [D -> S] /\ (\A i, j \in D : g[i] = g[j] => i = j) /\ \A x \in S : \E i \in D : g[i] = x
    BY <1>1, <1>2
  <1>4. g \in Bijection(D, S)
    BY <1>3 DEF Bijection, Injection, IsInjective, Surjection
  <1>5. ExistsBijection(1..n, S)
    BY <1>2, <1>4 DEF ExistsBijection
  <1> QED BY <1>5, FS_CountingElements

\* What the invariant says of the formulas of each sim.
LEMMA NoneReplaced == PyInv => NoFormulaIsReplaced
  <1> SUFFICES ASSUME PyInv, NEW s \in Sims
               PROVE  /\ Ids(formuly[s]) = owned[s]
                      /\ Cardinality(NamesIn(formuly[s])) = Len(formuly[s])
                      /\ Range(populyaciya[s]) \subseteq NamesIn(formuly[s])
                      /\ Cardinality(Range(populyaciya[s])) = Len(populyaciya[s])
                      /\ Len(populyaciya[s]) <= PopulationLimit
    BY DEF NoFormulaIsReplaced
  <1>1. PICK fs \in Seq(PyFormulas), names \in Seq(Seq(Nat)) : fs = formuly[s] /\ names = populyaciya[s]
    BY DEF PyInv, SimsInv
  <1>2. NamesDiffer(fs) /\ Selection(names, fs) /\ Len(names) <= PopulationLimit /\ owned[s] = Ids(fs)
    BY <1>1 DEF PyInv, SimsInv
  <1>3. PICK l \in Nat : l = Len(fs) /\ DOMAIN fs = 1..l
    BY LenProperties
  <1>4. PICK m \in Nat : m = Len(names) /\ DOMAIN names = 1..m
    BY LenProperties
  <1>5. Cardinality(NamesIn(fs)) = l
    <2>1. PICK f : f = [i \in 1..l |-> fs[i].name]
      OBVIOUS
    <2>2. DOMAIN f = 1..l /\ \A i, j \in 1..l : f[i] = f[j] => i = j
      BY <1>2, <1>3, <2>1 DEF NamesDiffer
    <2>3. NamesIn(fs) = {f[i] : i \in 1..l}
      BY <1>3, <2>1 DEF NamesIn
    <2> QED BY <2>2, <2>3, Counted
  <1>6. Cardinality(Range(names)) = m
    <2>1. \A i, j \in 1..m : names[i] = names[j] => i = j
      BY <1>2, <1>4 DEF Selection
    <2>2. Range(names) = {names[i] : i \in 1..m}
      BY <1>4 DEF Range
    <2> QED BY <1>4, <2>1, <2>2, Counted
  <1>7. Range(names) \subseteq NamesIn(fs)
    BY <1>2 DEF Selection
  <1> QED BY <1>1, <1>2, <1>3, <1>4, <1>5, <1>6, <1>7

\* The inductive invariant of the Python swarm holds.
THEOREM SwarmInductive == PySpec => []PyInv
  BY SwarmStart, PyStep, PTL DEF PySpec

\* SwarmKeepsAndSpreads.
THEOREM SwarmKeeps == PySpec => []SwarmKeepsAndSpreads
  <1>1. PyInv => SwarmKeepsAndSpreads
    <2> SUFFICES ASSUME PyInv PROVE SwarmKeepsAndSpreads
      OBVIOUS
    <2>1. NoFormulaIsReplaced
      BY NoneReplaced
    <2>2. OwnAnswersStay /\ JournalIsWindow
      BY DEF PyInv, SimsInv
    <2>3. SwarmSpreadsAll
      <3> SUFFICES ASSUME roj = <<>> PROVE \A s \in Sims : atStart.stimuli \subseteq Known(s) /\ atStart.ids \subseteq owned[s]
        BY DEF SwarmSpreadsAll
      <3>1. DOMAIN roj = {}
        OBVIOUS
      <3> QED BY <3>1 DEF PyInv, StillToSpread
    <2> QED BY <2>1, <2>2, <2>3 DEF SwarmKeepsAndSpreads
  <1> QED BY SwarmInductive, <1>1, PTL

-----------------------------------------------------------------------------
(* KolibriScript: texts *)

\* A text is a sequence of what is in it, ...
LEMMA TextIs ==
    ASSUME NEW s, IsText(s)
    PROVE  Len(s) \in Nat /\ DOMAIN s = 1..Len(s)
  BY LenProperties DEF IsText

\* ... as any sequence is.
LEMMA SequenceIsText ==
    ASSUME NEW S, NEW s \in Seq(S)
    PROVE  IsText(s)
  <1>1. PICK n \in Nat : n = Len(s) /\ DOMAIN s = 1..n
    BY LenProperties
  <1>2. PICK T : T = {s[i] : i \in DOMAIN s}
    OBVIOUS
  <1>3. s \in [1..n -> S] /\ \A i \in 1..n : s[i] \in T
    BY <1>1, <1>2, LenProperties
  <1>4. s \in [1..n -> T]
    BY <1>3
  <1>5. s \in Seq(T)
    BY <1>4, SeqDef
  <1> QED BY <1>2, <1>5 DEF IsText

\* A word more.
LEMMA WordAppended ==
    ASSUME NEW s, NEW e, IsText(s)
    PROVE  /\ IsText(Append(s, e)) /\ Len(Append(s, e)) = Len(s) + 1
           /\ \A i \in DOMAIN s : Append(s, e)[i] = s[i]
           /\ Append(s, e)[Len(s) + 1] = e
           /\ DOMAIN Append(s, e) = 1..Len(s) + 1
  <1>1. PICK n \in Nat : n = Len(s) /\ DOMAIN s = 1..n
    BY TextIs
  <1>2. PICK S : S = {s[i] : i \in DOMAIN s} \cup {e}
    OBVIOUS
  <1>3. s \in Seq(S)
    <2>1. PICK T : T = {s[i] : i \in DOMAIN s}
      OBVIOUS
    <2>2. s \in Seq(T) /\ T \subseteq S
      BY <1>2, <2>1 DEF IsText
    <2> QED BY <2>2, SeqMonotonic
  <1>4. e \in S
    BY <1>2
  <1>5. PICK t : t = Append(s, e)
    OBVIOUS
  <1>6. t \in Seq(S) /\ Len(t) = n + 1 /\ (\A i \in 1..n : t[i] = s[i]) /\ t[n + 1] = e
    BY <1>1, <1>3, <1>4, <1>5, AppendProperties
  <1>7. IsText(t) /\ DOMAIN t = 1..n + 1
    BY <1>6, SequenceIsText, LenProperties
  <1> QED BY <1>1, <1>5, <1>6, <1>7

\* Two texts, one behind the other.
LEMMA TextsJoined ==
    ASSUME NEW a, NEW b, IsText(a), IsText(b)
    PROVE  /\ IsText(a \o b) /\ Len(a \o b) = Len(a) + Len(b)
           /\ \A i \in DOMAIN (a \o b) : (\E j \in DOMAIN a : (a \o b)[i] = a[j])
                                         \/ (\E j \in DOMAIN b : (a \o b)[i] = b[j])
  <1>1. PICK m, n \in Nat : m = Len(a) /\ DOMAIN a = 1..m /\ n = Len(b) /\ DOMAIN b = 1..n
    BY TextIs
  <1>2. PICK S : a \in Seq(S) /\ b \in Seq(S)
    <2>1. PICK A, B : A = {a[i] : i \in DOMAIN a} /\ B = {b[i] : i \in DOMAIN b}
      OBVIOUS
    <2>2. a \in Seq(A) /\ b \in Seq(B)
      BY <2>1 DEF IsText
    <2>3. a \in Seq(A \cup B) /\ b \in Seq(A \cup B)
      <3>1. A \subseteq A \cup B /\ B \subseteq A \cup B
        OBVIOUS
      <3> QED BY <2>2, <3>1, SeqMonotonic
    <2> QED BY <2>3
  <1>3. PICK c : c = a \o b
    OBVIOUS
  <1>4. c \in Seq(S) /\ Len(c) = m + n /\ \A i \in 1..m + n : c[i] = IF i <= m THEN a[i] ELSE b[i - m]
    BY <1>1, <1>2, <1>3, ConcatProperties
  <1>5. IsText(c) /\ DOMAIN c = 1..m + n
    BY <1>4, SequenceIsText, LenProperties
  <1>6. \A i \in 1..m + n : i \in 1..m \/ (~(i <= m) /\ i - m \in 1..n)
    BY <1>1
  <1>7. \A i \in 1..m + n : (\E j \in 1..m : c[i] = a[j]) \/ (\E j \in 1..n : c[i] = b[j])
    <2> SUFFICES ASSUME NEW i \in 1..m + n
                 PROVE  (\E j \in 1..m : c[i] = a[j]) \/ (\E j \in 1..n : c[i] = b[j])
      OBVIOUS
    <2>1. CASE i \in 1..m
      <3>1. i <= m
        BY <1>1, <2>1
      <3> QED BY <1>4, <2>1, <3>1
    <2>2. CASE i \notin 1..m
      BY <1>4, <1>6, <2>2
    <2> QED BY <2>1, <2>2
  <1>8. Len(c) = Len(a) + Len(b)
    BY <1>1, <1>4
  <1>9. \A i \in DOMAIN c : (\E j \in DOMAIN a : c[i] = a[j]) \/ (\E j \in DOMAIN b : c[i] = b[j])
    BY <1>1, <1>5, <1>7, Zenon
  <1> QED BY <1>3, <1>5, <1>8, <1>9, Zenon

\* A part of a text.
LEMMA TextCut ==
    ASSUME NEW s, IsText(s), NEW m \in Nat \ {0}, NEW n \in Int, n <= Len(s)
    PROVE  /\ IsText(SubSeq(s, m, n))
           /\ Len(SubSeq(s, m, n)) = IF m <= n THEN n - m + 1 ELSE 0
           /\ \A i \in DOMAIN SubSeq(s, m, n) : \E j \in DOMAIN s : SubSeq(s, m, n)[i] = s[j]
  <1>1. PICK l \in Nat : l = Len(s) /\ DOMAIN s = 1..l
    BY TextIs
  <1>2. PICK S : S = {s[i] : i \in DOMAIN s}
    OBVIOUS
  <1>3. \A i \in m..n : i \in 1..l
    BY <1>1
  <1>4. \A i \in m..n : s[i] \in S
    BY <1>1, <1>2, <1>3
  <1>5. PICK t : t = SubSeq(s, m, n)
    OBVIOUS
  <1>6. t \in Seq(S) /\ Len(t) = IF m <= n THEN n - m + 1 ELSE 0
    BY <1>4, <1>5, SubSeqProperties
  <1>7. IsText(t)
    BY <1>6, SequenceIsText
  <1>8. \A i \in DOMAIN t : t[i] \in S
    BY <1>6, LenProperties, ElementOfSeq
  <1> QED BY <1>2, <1>5, <1>6, <1>7, <1>8

\* What a word, a variable, a fitness or a number says is a text.
LEMMA ValueIsText ==
    ASSUME NEW words, IsText(words), \A x \in DOMAIN values : values[x].is = "text" => IsText(values[x].words)
    PROVE  IsText(AsText(Value(words))) /\ (Value(words).is = "text" => IsText(Value(words).words))
  <1>1. PICK v : v = Value(words)
    OBVIOUS
  <1>2. v.is = "text" => IsText(v.words)
    <2>1. \A n : Number(n).is = "number"
      BY DEF Number
    <2>2. Text(words).words = words
      BY DEF Text
    <2> QED BY <1>1, <2>1, <2>2 DEF Value
  <1>3. IsText(AsText(v))
    <2>1. CASE v.is = "text"
      BY <1>2, <2>1 DEF AsText
    <2>2. CASE v.is # "text"
      <3>1. PICK w : w = CHOOSE u \in DOMAIN Numerals : Numerals[u] = v.n
        OBVIOUS
      <3>2. AsText(v) = <<w>>
        BY <2>2, <3>1 DEF AsText
      <3>3. <<w>> \in Seq({w})
        OBVIOUS
      <3> QED BY <3>2, <3>3, SequenceIsText
    <2> QED BY <2>1, <2>2
  <1> QED BY <1>1, <1>2, <1>3

\* Squeezed, it is one.
LEMMA SqueezedIsText ==
    ASSUME NEW q, IsText(q)
    PROVE  IsText(Squeezed(q)) /\ Len(Squeezed(q)) = Len(q)
  <1>1. PICK l \in Nat : l = Len(q)
    BY TextIs
  <1>2. PICK s : s = [i \in 1..l |-> Unspaced(q[i])]
    OBVIOUS
  <1>3. s \in [1..l -> {s[i] : i \in 1..l}] /\ Squeezed(q) = s
    BY <1>1, <1>2 DEF Squeezed
  <1>4. s \in Seq({s[i] : i \in 1..l}) /\ Len(s) = l
    <2>1. PICK S : S = {s[i] : i \in 1..l}
      OBVIOUS
    <2>2. s \in [1..l -> S]
      BY <1>3, <2>1
    <2>3. s \in Seq(S)
      BY <2>2, SeqDef
    <2>4. Len(s) = l
      BY <2>2, <2>3, LenProperties
    <2> QED BY <2>1, <2>3, <2>4
  <1>5. IsText(s)
    BY <1>4, SequenceIsText
  <1> QED BY <1>1, <1>3, <1>4, <1>5

\* So are the words n-grams are made of.
LEMMA TokensAreText ==
    ASSUME NEW q, IsText(q)
    PROVE  IsText(Tokens(q))
  <1>1. PICK s : s = Squeezed(q)
    OBVIOUS
  <1>2. PICK l \in Nat : l = Len(q) /\ l = Len(s)
    BY <1>1, SqueezedIsText, TextIs
  <1>3. PICK n : n = IF l < TokenRoom THEN l ELSE TokenRoom
    OBVIOUS
  <1>4. n \in Int /\ n <= l /\ 1 \in Nat \ {0}
    BY <1>2, <1>3, ScriptAssumption
  <1>5. Tokens(q) = SubSeq(s, 1, n)
    BY <1>1, <1>2, <1>3 DEF Tokens
  <1>6. IsText(SubSeq(s, 1, n))
    BY <1>1, <1>2, <1>4, SqueezedIsText, TextCut
  <1> QED BY <1>5, <1>6

\* An answer is said as a text.
LEMMA SaidIsText ==
    ASSUME NEW words, IsText(words)
    PROVE  IsText(Said(words))
  <1>0. PICK bare : bare = Squeezed(words)
    OBVIOUS
  <1>1. PICK clean : clean = IF bare = <<>> \/ bare[Len(bare)] = "." THEN bare ELSE Append(bare, ".")
    OBVIOUS
  <1>2. IsText(clean)
    <2>1. IsText(bare)
      BY <1>0, SqueezedIsText
    <2> QED BY <1>1, <2>1, WordAppended
  <1>3. IsText(<<"Journal:">>)
    <2>1. <<"Journal:">> \in Seq({"Journal:"})
      OBVIOUS
    <2> QED BY <2>1, SequenceIsText
  <1>4. IsText(<<"Journal:">> \o clean)
    BY <1>2, <1>3, TextsJoined
  <1>5. Said(words) = IF mode = "journal" /\ clean # <<>> THEN <<"Journal:">> \o clean ELSE clean
    BY <1>0, <1>1 DEF Said
  <1> QED BY <1>2, <1>4, <1>5

\* p occurs in q, spaces and all.
Occurs(p, q) == \E i \in 1..Len(q) + 1 - Len(p) : SubSeq(q, i, i + Len(p) - 1) = p

\* What occurs in the beginning of a text occurs in it.
LEMMA OccursLonger ==
    ASSUME NEW p, NEW q, IsText(p), IsText(q), NEW n \in Nat, n <= Len(q), Occurs(p, SubSeq(q, 1, n))
    PROVE  Occurs(p, q)
  <1>1. PICK l, m \in Nat : l = Len(q) /\ m = Len(p) /\ DOMAIN q = 1..l
    BY TextIs
  <1>2. PICK t : t = SubSeq(q, 1, n)
    OBVIOUS
  <1>3. PICK S : q \in Seq(S)
    BY DEF IsText
  <1>4. Len(t) = n /\ t \in Seq(S) /\ \A i \in 1..n : t[i] = q[i]
    <2>1. \A i \in 1..n : i \in 1..l /\ q[i] \in S
      BY <1>1, <1>3, ElementOfSeq
    <2>2. t \in Seq(S) /\ (Len(t) = IF 1 <= n THEN n - 1 + 1 ELSE 0) /\ \A i \in 1..n - 1 + 1 : t[i] = q[1 + i - 1]
      BY <1>2, <2>1, SubSeqProperties
    <2>3. (IF 1 <= n THEN n - 1 + 1 ELSE 0) = n /\ n - 1 + 1 = n /\ \A i \in 1..n : 1 + i - 1 = i
      OBVIOUS
    <2> QED BY <2>2, <2>3
  <1>5. PICK i \in 1..n + 1 - m : SubSeq(t, i, i + m - 1) = p
    BY <1>1, <1>2, <1>4 DEF Occurs
  <1>6. i \in 1..l + 1 - m /\ i \in Nat \ {0} /\ i + m - 1 \in Int /\ i + m - 1 <= n
    BY <1>1, <1>5
  <1>7. SubSeq(q, i, i + m - 1) = SubSeq(t, i, i + m - 1)
    <2>1. PICK k : k = i + m - 1
      OBVIOUS
    <2>2. \A j \in i..k : j \in 1..n
      BY <1>6, <2>1
    <2>3. /\ \A j \in i..k : q[j] \in S /\ t[j] \in S
          /\ \A j \in 1..k - i + 1 : i + j - 1 \in i..k
      <3>1. \A j \in 1..n : t[j] \in S /\ t[j] = q[j]
        BY <1>4, ElementOfSeq
      <3> QED BY <1>6, <2>1, <2>2, <3>1
    <2>4. PICK a, b : a = SubSeq(q, i, k) /\ b = SubSeq(t, i, k)
      OBVIOUS
    <2>5. /\ a \in Seq(S) /\ Len(a) = (IF i <= k THEN k - i + 1 ELSE 0) /\ \A j \in 1..k - i + 1 : a[j] = q[i + j - 1]
          /\ b \in Seq(S) /\ Len(b) = (IF i <= k THEN k - i + 1 ELSE 0) /\ \A j \in 1..k - i + 1 : b[j] = t[i + j - 1]
      BY <1>6, <2>1, <2>3, <2>4, SubSeqProperties
    <2>6. \A j \in 1..k - i + 1 : a[j] = b[j]
      BY <1>4, <2>2, <2>3, <2>5
    <2>7. Len(a) = Len(b) /\ \A j \in 1..Len(a) : j \in 1..k - i + 1
      BY <1>6, <2>1, <2>5
    <2>8. a = b
      BY <2>5, <2>6, <2>7, SeqEqual
    <2> QED BY <2>1, <2>4, <2>8
  <1> QED BY <1>1, <1>5, <1>6, <1>7 DEF Occurs

\* The n-grams of a question are texts that occur in its words, as it does in itself.
LEMMA RunsOccur ==
    ASSUME NEW q, IsText(q), NEW n \in {2, 3}
    PROVE  IsText(Runs(q, n)) /\ \A k \in DOMAIN Runs(q, n) : IsText(Runs(q, n)[k]) /\ Occurs(Runs(q, n)[k], q)
  <1>1. PICK l \in Nat : l = Len(q) /\ DOMAIN q = 1..l
    BY TextIs
  <1>2. PICK m \in Nat : m = IF l < n THEN 0 ELSE l - n + 1
    <2>1. (IF l < n THEN 0 ELSE l - n + 1) \in Nat
      BY <1>1
    <2> QED BY <2>1
  <1>3. PICK runs : runs = [i \in 1..m |-> SubSeq(q, i, i + n - 1)]
    OBVIOUS
  <1>4. Runs(q, n) = runs
    BY <1>1, <1>2, <1>3 DEF Runs
  <1>5. runs \in Seq({runs[i] : i \in 1..m})
    <2>1. runs \in [1..m -> {runs[i] : i \in 1..m}]
      BY <1>3
    <2> QED BY <2>1, SeqDef
  <1>6. ASSUME NEW k \in 1..m PROVE IsText(runs[k]) /\ Occurs(runs[k], q)
    <2>1. PICK p : p = runs[k]
      OBVIOUS
    <2>2. p = SubSeq(q, k, k + n - 1)
      BY <1>3, <2>1
    <2>3. k \in Nat \ {0} /\ k + n - 1 \in Int /\ k + n - 1 <= l /\ k <= k + n - 1 /\ (k + n - 1) - k + 1 = n
      BY <1>2
    <2>4. IsText(p) /\ Len(p) = n
      BY <1>1, <2>2, <2>3, TextCut
    <2>5. k \in 1..l + 1 - n /\ k + n - 1 = k + n - 1
      BY <1>2
    <2>6. Occurs(p, q)
      BY <1>1, <2>2, <2>4, <2>5 DEF Occurs
    <2> QED BY <2>1, <2>4, <2>6
  <1>7. IsText(runs) /\ DOMAIN runs = 1..m
    BY <1>3, <1>5, SequenceIsText
  <1> QED BY <1>4, <1>6, <1>7

\* A question occurs in itself.
LEMMA OccursItself ==
    ASSUME NEW q, IsText(q)
    PROVE  Occurs(q, q)
  <1>1. PICK l \in Nat : l = Len(q)
    BY TextIs
  <1>2. PICK S : q \in Seq(S)
    BY DEF IsText
  <1>3. SubSeq(q, 1, l) = q
    BY <1>1, <1>2, SubSeqFull
  <1>4. 1 \in 1..l + 1 - l /\ 1 + l - 1 = l
    OBVIOUS
  <1> QED BY <1>1, <1>3, <1>4 DEF Occurs

\* So are the n-grams.
LEMMA NGramsAreText ==
    ASSUME NEW q, IsText(q)
    PROVE  IsText(NGrams(q)) /\ \A k \in DOMAIN NGrams(q) : IsText(NGrams(q)[k]) /\ Occurs(NGrams(q)[k], Tokens(q))
  <1>1. PICK grams, tokens : grams = NGrams(q) /\ tokens = Tokens(q)
    OBVIOUS
  <1>2. IsText(grams) /\ \A k \in DOMAIN grams : IsText(grams[k]) /\ Occurs(grams[k], tokens)
    <2>1. CASE Len(tokens) < 2
      <3>1. grams = <<>> /\ <<>> \in Seq({})
        BY <1>1, <2>1 DEF NGrams
      <3>2. IsText(grams)
        BY <3>1, SequenceIsText
      <3>3. Len(grams) = 0
        BY <3>1
      <3>4. DOMAIN grams = 1..0
        BY <3>2, <3>3, TextIs
      <3> QED BY <3>2, <3>4
    <2>2. CASE ~(Len(tokens) < 2)
      <3>1. PICK a, b : a = Runs(tokens, 2) /\ b = Runs(tokens, 3)
        OBVIOUS
      <3>2. /\ IsText(a) /\ \A k \in DOMAIN a : IsText(a[k]) /\ Occurs(a[k], tokens)
            /\ IsText(b) /\ \A k \in DOMAIN b : IsText(b[k]) /\ Occurs(b[k], tokens)
        BY <1>1, <3>1, TokensAreText, RunsOccur
      <3>3. grams = a \o b
        BY <1>1, <2>2, <3>1 DEF NGrams
      <3>4. /\ IsText(grams)
            /\ \A i \in DOMAIN grams : (\E j \in DOMAIN a : grams[i] = a[j]) \/ (\E j \in DOMAIN b : grams[i] = b[j])
        BY <3>2, <3>3, TextsJoined
      <3> QED BY <3>2, <3>4
    <2> QED BY <2>1, <2>2
  <1> QED BY <1>1, <1>2

\* Those of a question without doubled spaces occur in it.
LEMMA NGramsOccur ==
    ASSUME NEW q, IsText(q), q = Squeezed(q)
    PROVE  \A k \in DOMAIN NGrams(q) : Occurs(NGrams(q)[k], q)
  <1>1. PICK l \in Nat : l = Len(q)
    BY TextIs
  <1>2. PICK n : n = IF l < TokenRoom THEN l ELSE TokenRoom
    OBVIOUS
  <1>3. n \in Nat /\ n <= l
    BY <1>1, <1>2, ScriptAssumption
  <1>4. Tokens(q) = SubSeq(q, 1, n)
    BY <1>1, <1>2 DEF Tokens
  <1> QED BY <1>1, <1>3, <1>4, NGramsAreText, OccursLonger

\* All that a lesson is learned under.
AllOf(q) == <<q>> \o NGrams(q)

\* Each is a text, the question or an n-gram, and occurs in a question without doubled
\* spaces.
LEMMA AllOccur ==
    ASSUME NEW q, IsText(q)
    PROVE  /\ IsText(AllOf(q)) /\ \A k \in DOMAIN AllOf(q) : IsText(AllOf(q)[k])
           /\ q = Squeezed(q) => \A k \in DOMAIN AllOf(q) : Occurs(AllOf(q)[k], q)
           /\ \A k \in DOMAIN AllOf(q) : AllOf(q)[k] = q \/ \E j \in DOMAIN NGrams(q) : AllOf(q)[k] = NGrams(q)[j]
  <1>1. PICK grams : grams = NGrams(q)
    OBVIOUS
  <1>2. /\ IsText(grams) /\ \A k \in DOMAIN grams : IsText(grams[k])
        /\ q = Squeezed(q) => \A k \in DOMAIN grams : Occurs(grams[k], q)
    BY <1>1, NGramsAreText, NGramsOccur
  <1>3. PICK one : one = <<q>>
    OBVIOUS
  <1>4. IsText(one) /\ \A k \in DOMAIN one : one[k] = q
    <2>1. one \in Seq({q}) /\ DOMAIN one = {1} /\ one[1] = q
      BY <1>3
    <2> QED BY <2>1, SequenceIsText
  <1>5. PICK all : all = one \o grams
    OBVIOUS
  <1>6. /\ IsText(all)
        /\ \A i \in DOMAIN all : (\E j \in DOMAIN one : all[i] = one[j]) \/ (\E j \in DOMAIN grams : all[i] = grams[j])
    BY <1>2, <1>4, <1>5, TextsJoined
  <1>7. \A i \in DOMAIN all : all[i] = q \/ \E j \in DOMAIN grams : all[i] = grams[j]
    BY <1>4, <1>6
  <1>8. /\ \A i \in DOMAIN all : IsText(all[i])
        /\ q = Squeezed(q) => \A i \in DOMAIN all : Occurs(all[i], q)
    BY <1>2, <1>7, OccursItself
  <1>9. AllOf(q) = all
    BY <1>1, <1>3, <1>5 DEF AllOf
  <1> QED BY <1>1, <1>6, <1>7, <1>8, <1>9

-----------------------------------------------------------------------------
(* KolibriScript: what is learned *)

\* What there is is a for one, or was there under another question.
LEMMA OneIsLearned ==
    ASSUME NEW pool, NEW a, PoolIsFine(pool), IsEntry(a)
    PROVE  /\ PoolIsFine(Learned(pool, a))
           /\ \A i \in DOMAIN Learned(pool, a) :
                \/ Learned(pool, a)[i] = a
                \/ \E j \in DOMAIN pool : pool[j].question # a.question /\ Learned(pool, a)[i] = pool[j]
  <1>1. PICK n \in Nat : n = Len(pool) /\ DOMAIN pool = 1..n
    BY TextIs DEF PoolIsFine
  <1>2. IsText(pool) /\ \A i \in DOMAIN pool : IsEntry(pool[i])
    BY DEF PoolIsFine
  <1>3. PICK L : L = Learned(pool, a)
    OBVIOUS
  <1>4. /\ IsText(L)
        /\ \A i \in DOMAIN L : \/ L[i] = a
                               \/ \E j \in DOMAIN pool : pool[j].question # a.question /\ L[i] = pool[j]
    <2>1. CASE At(pool, a.question) # {}
      <3>1. L = [i \in 1..n |-> IF pool[i].question = a.question THEN a ELSE pool[i]]
        BY <1>1, <1>3, <2>1 DEF Learned
      <3>2. L \in Seq({L[i] : i \in 1..n})
        <4>1. L \in [1..n -> {L[i] : i \in 1..n}]
          BY <3>1
        <4> QED BY <4>1, SeqDef
      <3>3. IsText(L)
        BY <3>2, SequenceIsText
      <3> QED BY <1>1, <3>1, <3>3
    <2>2. CASE At(pool, a.question) = {}
      <3>1. \A j \in DOMAIN pool : pool[j].question # a.question
        BY <2>2 DEF At
      <3>2. CASE Len(pool) >= PoolRoom
        <4>1. n >= 1
          BY <1>1, <3>2, ScriptAssumption
        <4>2. PICK S : S = {pool[i] : i \in DOMAIN pool}
          OBVIOUS
        <4>3. pool \in Seq(S)
          BY <1>2, <4>2 DEF IsText
        <4>4. pool # <<>>
          BY <1>1, <4>1
        <4>5. PICK t : t = Tail(pool)
          OBVIOUS
        <4>6. t \in Seq(S)
          BY <4>3, <4>4, <4>5, HeadTailProperties
        <4>7. IsText(t) /\ \A i \in DOMAIN t : t[i] \in S
          BY <4>6, SequenceIsText, LenProperties, ElementOfSeq
        <4>8. L = Append(t, a)
          BY <1>3, <2>2, <3>2, <4>5 DEF Learned
        <4>9. PICK m \in Nat : m = Len(t) /\ DOMAIN t = 1..m
          BY <4>7, TextIs
        <4>10. /\ IsText(L) /\ DOMAIN L = 1..m + 1 /\ L[m + 1] = a
               /\ \A i \in 1..m : L[i] = t[i]
          BY <4>7, <4>8, <4>9, WordAppended
        <4>11. \A i \in 1..m + 1 : i \in 1..m \/ i = m + 1
          BY <4>9
        <4> QED BY <3>1, <4>2, <4>7, <4>9, <4>10, <4>11
      <3>3. CASE ~(Len(pool) >= PoolRoom)
        <4>1. L = Append(pool, a)
          BY <1>3, <2>2, <3>3 DEF Learned
        <4>2. /\ IsText(L) /\ DOMAIN L = 1..n + 1 /\ L[n + 1] = a
              /\ \A i \in 1..n : L[i] = pool[i]
          BY <1>1, <1>2, <4>1, WordAppended
        <4>3. \A i \in 1..n + 1 : i \in 1..n \/ i = n + 1
          BY <1>1
        <4> QED BY <1>1, <3>1, <4>2, <4>3
      <3> QED BY <3>2, <3>3
    <2> QED BY <2>1, <2>2
  <1>5. \A i \in DOMAIN L : IsEntry(L[i])
    BY <1>2, <1>4
  <1>6. PoolIsFine(L)
    BY <1>4, <1>5 DEF PoolIsFine
  <1> QED BY <1>3, <1>4, <1>6

\* The pools LearnedWithNGrams goes through.
LearnedAs(pool, q, answer, source) == Learned(pool, Entry(q, answer, source))

Lessons(upto, all, pool, answer, source) ==
    upto = [i \in 0..Len(all) |->
              IF i = 0 THEN pool ELSE LearnedAs(upto[i - 1], all[i], answer, source)]

\* Its result is the last of them.
LEMMA LearnedIs ==
    ASSUME NEW pool, NEW q, NEW answer, NEW source
    PROVE  LearnedWithNGrams(pool, q, answer, source)
             = (CHOOSE upto : Lessons(upto, AllOf(q), pool, answer, source))[Len(AllOf(q))]
  BY DEF LearnedWithNGrams, Lessons, LearnedAs, AllOf

\* There are such pools: up to the nth text, for every n.
LEMMA LessonsExist ==
    ASSUME NEW all, IsText(all), NEW pool, NEW answer, NEW source
    PROVE  \E upto : Lessons(upto, all, pool, answer, source)
  <1> DEFINE N == Len(all)
             Upto_(g, n) == /\ g = [k \in 0..N |-> g[k]]
                            /\ \A k \in 0..N : k <= n =>
                                  g[k] = IF k = 0 THEN pool ELSE LearnedAs(g[k - 1], all[k], answer, source)
             Short == {n \in Nat : ~\E g : Upto_(g, n)}
  <1>1. N \in Nat
    BY TextIs
  <1>2. Short = {}
    <2> SUFFICES ASSUME Short # {} PROVE FALSE
      OBVIOUS
    <2>1. PICK n \in Short : \A m \in Short : n <= m
      <3>1. Short \in SUBSET Nat
        OBVIOUS
      <3> HIDE DEF Short
      <3> QED BY <3>1, LeastExists
    <2>2. n \in Nat /\ ~\E g : Upto_(g, n)
      OBVIOUS
    <2>3. CASE n = 0
      <3>1. PICK g : g = [k \in 0..N |-> pool]
        OBVIOUS
      <3>2. \A k \in 0..N : k <= 0 => k = 0 /\ g[k] = pool
        BY <1>1, <3>1
      <3>3. Upto_(g, 0)
        BY <3>1, <3>2
      <3> QED BY <2>2, <2>3, <3>3
    <2>4. CASE n # 0
      <3>1. n - 1 \in Nat /\ ~(n <= n - 1)
        BY <2>2, <2>4
      <3>2. n - 1 \notin Short
        BY <2>1, <3>1
      <3>3. PICK g : Upto_(g, n - 1)
        BY <3>1, <3>2
      <3>4. PICK h : h = [k \in 0..N |-> IF k = n THEN LearnedAs(g[k - 1], all[k], answer, source) ELSE g[k]]
        OBVIOUS
      <3>5. \A k \in 0..N : h[k] = IF k = n THEN LearnedAs(g[k - 1], all[k], answer, source) ELSE g[k]
        BY <3>4
      <3>6. ASSUME NEW k \in 0..N, k <= n
            PROVE  h[k] = IF k = 0 THEN pool ELSE LearnedAs(h[k - 1], all[k], answer, source)
        <4>1. CASE k = 0
          <5>1. k # n /\ k <= n - 1
            BY <2>4, <3>1, <4>1
          <5>2. h[k] = g[k] /\ g[k] = pool
            BY <3>3, <3>5, <4>1, <5>1
          <5> QED BY <4>1, <5>2
        <4>2. CASE k # 0
          <5>1. k - 1 \in 0..N /\ k - 1 # n
            BY <1>1, <2>2, <3>6, <4>2
          <5>2. h[k - 1] = g[k - 1]
            BY <3>5, <5>1
          <5>3. CASE k = n
            BY <3>5, <4>2, <5>2, <5>3
          <5>4. CASE k # n
            <6>1. k <= n - 1
              BY <2>2, <3>6, <5>4
            <6>2. g[k] = LearnedAs(g[k - 1], all[k], answer, source)
              BY <3>3, <4>2, <6>1
            <6> QED BY <3>5, <4>2, <5>2, <5>4, <6>2
          <5> QED BY <5>3, <5>4
        <4> QED BY <4>1, <4>2
      <3>7. h = [k \in 0..N |-> h[k]]
        BY <3>4
      <3>8. Upto_(h, n)
        BY <3>6, <3>7
      <3> QED BY <2>2, <3>8
    <2> QED BY <2>3, <2>4
  <1>3. PICK g : Upto_(g, N)
    BY <1>1, <1>2
  <1>4. \A k \in 0..N : g[k] = IF k = 0 THEN pool ELSE LearnedAs(g[k - 1], all[k], answer, source)
    <2>1. \A k \in 0..N : k <= N
      BY <1>1
    <2> QED BY <1>3, <2>1
  <1>5. g = [k \in 0..N |-> IF k = 0 THEN pool ELSE LearnedAs(g[k - 1], all[k], answer, source)]
    BY <1>3, <1>4
  <1> QED BY <1>5 DEF Lessons

\* Of a lesson, or older and under no question of it.
FromLesson(e, n, all, pool, answer, source) ==
    \/ \E k \in 1..n : e = Entry(all[k], answer, source)
    \/ \E j \in DOMAIN pool : e = pool[j] /\ \A k \in 1..n : pool[j].question # all[k]

\* What there is when all is learned is of the lesson, or was there under a question the
\* lesson has not.
LEMMA LessonIsLearned ==
    ASSUME NEW pool, NEW q, NEW answer, NEW source, PoolIsFine(pool), IsText(q), IsText(answer)
    PROVE  /\ PoolIsFine(LearnedWithNGrams(pool, q, answer, source))
           /\ \A i \in DOMAIN LearnedWithNGrams(pool, q, answer, source) :
                FromLesson(LearnedWithNGrams(pool, q, answer, source)[i], Len(AllOf(q)), AllOf(q), pool, answer, source)
  <1>1. PICK all : all = AllOf(q)
    OBVIOUS
  <1>2. IsText(all) /\ \A k \in DOMAIN all : IsText(all[k])
    BY <1>1, AllOccur
  <1>3. PICK N \in Nat : N = Len(all) /\ DOMAIN all = 1..N
    BY <1>2, TextIs
  <1>4. PICK upto : /\ Lessons(upto, all, pool, answer, source)
                    /\ upto = CHOOSE u : Lessons(u, all, pool, answer, source)
    BY <1>2, LessonsExist
  <1>5. LearnedWithNGrams(pool, q, answer, source) = upto[N]
    BY <1>1, <1>3, <1>4, LearnedIs
  <1>6. \A i \in 0..N : upto[i] = IF i = 0 THEN pool ELSE LearnedAs(upto[i - 1], all[i], answer, source)
    BY <1>3, <1>4 DEF Lessons
  <1> DEFINE Good(n) == PoolIsFine(upto[n]) /\ \A i \in DOMAIN upto[n] : FromLesson(upto[n][i], n, all, pool, answer, source)
             Bad == {n \in 0..N : ~Good(n)}
  <1>7. Bad = {}
    <2> SUFFICES ASSUME Bad # {} PROVE FALSE
      OBVIOUS
    <2>1. PICK n \in Bad : \A m \in Bad : n <= m
      <3>1. Bad \in SUBSET Nat
        BY <1>3
      <3> HIDE DEF Bad
      <3> QED BY <3>1, LeastExists
    <2>2. n \in 0..N /\ ~Good(n)
      OBVIOUS
    <2>3. CASE n = 0
      <3>1. upto[0] = pool
        BY <1>6, <2>2, <2>3
      <3>2. \A k \in 1..0 : FALSE
        OBVIOUS
      <3>3. \A i \in DOMAIN pool : FromLesson(pool[i], 0, all, pool, answer, source)
        BY <3>2 DEF FromLesson
      <3> QED BY <2>2, <2>3, <3>1, <3>3
    <2>4. CASE n # 0
      <3>1. n - 1 \in 0..N /\ ~(n <= n - 1) /\ n \in 1..N /\ n \in 1..n
        BY <1>3, <2>2, <2>4
      <3>2. Good(n - 1)
        BY <2>1, <3>1
      <3>3. PICK old, e : old = upto[n - 1] /\ e = Entry(all[n], answer, source)
        OBVIOUS
      <3>4. upto[n] = Learned(old, e)
        BY <1>6, <2>2, <2>4, <3>3 DEF LearnedAs
      <3>5. PoolIsFine(old) /\ \A i \in DOMAIN old : FromLesson(old[i], n - 1, all, pool, answer, source)
        BY <3>2, <3>3
      <3>6. IsEntry(e) /\ e.question = all[n]
        BY <1>2, <1>3, <3>1, <3>3 DEF IsEntry, Entry
      <3>7. PICK new : new = upto[n]
        OBVIOUS
      <3>8. /\ PoolIsFine(new)
            /\ \A i \in DOMAIN new : \/ new[i] = e
                                     \/ \E j \in DOMAIN old : old[j].question # e.question /\ new[i] = old[j]
        BY <3>4, <3>5, <3>6, <3>7, OneIsLearned
      <3>9. \A k \in 1..n : k \in 1..n - 1 \/ k = n
        BY <3>1
      <3>10. \A k \in 1..n - 1 : k \in 1..n
        BY <3>1
      <3>11. ASSUME NEW i \in DOMAIN new PROVE FromLesson(new[i], n, all, pool, answer, source)
        <4>1. CASE new[i] = e
          BY <3>1, <3>3, <4>1 DEF FromLesson
        <4>2. ASSUME NEW j \in DOMAIN old, old[j].question # e.question, new[i] = old[j]
              PROVE  FromLesson(new[i], n, all, pool, answer, source)
          <5>1. PICK x : x = new[i]
            OBVIOUS
          <5>2. x.question # all[n] /\ FromLesson(x, n - 1, all, pool, answer, source)
            BY <3>5, <3>6, <4>2, <5>1
          <5>3. FromLesson(x, n, all, pool, answer, source)
            BY <3>9, <3>10, <5>2 DEF FromLesson
          <5> QED BY <5>1, <5>3
        <4> QED BY <3>8, <4>1, <4>2
      <3>12. Good(n)
        BY <3>7, <3>8, <3>11
      <3> QED BY <2>2, <3>12
    <2> QED BY <2>3, <2>4
  <1>8. Good(N)
    <2>1. N \in 0..N
      BY <1>3
    <2> QED BY <1>7, <2>1
  <1> QED BY <1>1, <1>3, <1>5, <1>8

-----------------------------------------------------------------------------
(* KolibriScript: answers *)

\* Among the first n of the pool, i is the longest that is near, and of those the first.
Nearest(pool, q, n, i) ==
    /\ i \in 1..n /\ i \in Near(pool, q)
    /\ \A j \in 1..n : j \in Near(pool, q) =>
         \/ Len(pool[j].question) < Len(pool[i].question)
         \/ Len(pool[j].question) = Len(pool[i].question) /\ j >= i

\* Where anything is near something is found.
LEMMA NearIsFound ==
    ASSUME NEW pool, NEW q, PoolIsFine(pool), Near(pool, q) # {}
    PROVE  Partial(pool, q) # {}
  <1>1. PICK N \in Nat : N = Len(pool) /\ DOMAIN pool = 1..N
    BY TextIs DEF PoolIsFine
  <1>2. \A i \in 1..N : Len(pool[i].question) \in Nat
    BY <1>1, TextIs DEF PoolIsFine, IsEntry
  <1>3. PICK near : near = Near(pool, q) /\ near \subseteq 1..N
    BY <1>1 DEF Near
  <1> DEFINE Bad == {n \in 0..N : (\E j \in 1..n : j \in near) /\ ~\E i : Nearest(pool, q, n, i)}
  <1>4. Bad = {}
    <2> SUFFICES ASSUME Bad # {} PROVE FALSE
      OBVIOUS
    <2>1. PICK n \in Bad : \A m \in Bad : n <= m
      <3>1. Bad \in SUBSET Nat
        BY <1>1
      <3> HIDE DEF Bad
      <3> QED BY <3>1, LeastExists
    <2>2. n \in 0..N /\ (\E j \in 1..n : j \in near) /\ ~\E i : Nearest(pool, q, n, i)
      OBVIOUS
    <2>3. n \in 1..N /\ n - 1 \in 0..N /\ ~(n <= n - 1) /\ n \in 1..n
      BY <1>1, <2>2
    <2>4. \A j \in 1..n : j \in 1..n - 1 \/ j = n
      BY <2>3
    <2>5. \A j \in 1..n - 1 : j \in 1..n /\ j < n /\ j \in 1..N
      BY <1>1, <2>3
    <2>6. n - 1 \notin Bad
      BY <2>1, <2>3
    <2>7. CASE ~\E j \in 1..n - 1 : j \in near
      <3>1. n \in near /\ \A j \in 1..n : j \in near => j = n
        BY <2>2, <2>4, <2>7
      <3>2. Len(pool[n].question) = Len(pool[n].question) /\ n >= n
        BY <2>3
      <3>3. Nearest(pool, q, n, n)
        BY <1>3, <2>3, <3>1, <3>2 DEF Nearest
      <3> QED BY <2>2, <3>3
    <2>8. CASE \E j \in 1..n - 1 : j \in near
      <3>1. PICK b : Nearest(pool, q, n - 1, b)
        BY <2>3, <2>6, <2>8
      <3>2. /\ b \in 1..n - 1 /\ b \in near
            /\ \A j \in 1..n - 1 : j \in near =>
                 \/ Len(pool[j].question) < Len(pool[b].question)
                 \/ Len(pool[j].question) = Len(pool[b].question) /\ j >= b
        BY <1>3, <3>1 DEF Nearest
      <3>3. b \in 1..n /\ b < n /\ b \in 1..N
        BY <2>5, <3>2
      <3>4. PICK l, m \in Nat : l = Len(pool[b].question) /\ m = Len(pool[n].question)
        BY <1>2, <2>3, <3>3
      <3>5. CASE n \notin near
        <4>1. Nearest(pool, q, n, b)
          BY <1>3, <2>4, <3>2, <3>3, <3>5 DEF Nearest
        <4> QED BY <2>2, <4>1
      <3>6. CASE n \in near /\ m <= l
        <4>1. m < l \/ (m = l /\ n >= b)
          <5>1. m \in Nat /\ l \in Nat /\ m <= l /\ b \in Nat /\ n \in Nat /\ b < n
            BY <1>1, <2>3, <3>3, <3>4, <3>6
          <5> QED BY <5>1
        <4>2. Nearest(pool, q, n, b)
          BY <1>3, <2>4, <3>2, <3>3, <3>4, <4>1 DEF Nearest
        <4> QED BY <2>2, <4>2
      <3>7. CASE n \in near /\ ~(m <= l)
        <4>1. ASSUME NEW j \in 1..n, j \in near
              PROVE  Len(pool[j].question) < m \/ (Len(pool[j].question) = m /\ j >= n)
          <5>1. CASE j = n
            BY <2>3, <3>4, <5>1
          <5>2. CASE j # n
            <6>1. PICK k \in Nat : k = Len(pool[j].question)
              BY <1>2, <2>4, <2>5, <4>1, <5>2
            <6>2. k < l \/ k = l
              BY <2>4, <3>2, <3>4, <4>1, <5>2, <6>1
            <6>3. k < m
              <7>1. k \in Nat /\ l \in Nat /\ m \in Nat /\ ~(m <= l) /\ (k < l \/ k = l)
                BY <3>4, <3>7, <6>1, <6>2, Zenon
              <7> QED BY <7>1
            <6> QED BY <6>1, <6>3
          <5> QED BY <5>1, <5>2
        <4>2. Nearest(pool, q, n, n)
          BY <1>3, <2>3, <3>4, <3>7, <4>1 DEF Nearest
        <4> QED BY <2>2, <4>2
      <3> QED BY <3>5, <3>6, <3>7, <3>4
    <2> QED BY <2>7, <2>8
  <1>5. N \in 0..N /\ \E j \in 1..N : j \in near
    BY <1>1, <1>3
  <1>6. PICK i : Nearest(pool, q, N, i)
    BY <1>4, <1>5
  <1>7. i \in Partial(pool, q)
    BY <1>3, <1>6 DEF Nearest, Partial
  <1> QED BY <1>7

\* What formulas copy is a pool.
LEMMA CopyIsFine ==
    ASSUME NEW pool, PoolIsFine(pool)
    PROVE  PoolIsFine(Copy(pool))
  <1>1. PICK l \in Nat : l = Len(pool)
    BY TextIs DEF PoolIsFine
  <1>2. PICK n : n = IF l < CopyRoom THEN l ELSE CopyRoom
    OBVIOUS
  <1>3. n \in Int /\ n <= l /\ 1 \in Nat \ {0}
    BY <1>1, <1>2, ScriptAssumption
  <1>4. Copy(pool) = SubSeq(pool, 1, n)
    BY <1>1, <1>2 DEF Copy
  <1>5. PICK c : c = SubSeq(pool, 1, n)
    OBVIOUS
  <1>6. IsText(c) /\ \A i \in DOMAIN c : \E j \in DOMAIN pool : c[i] = pool[j]
    BY <1>1, <1>3, <1>5, TextCut DEF PoolIsFine
  <1>7. PoolIsFine(c)
    BY <1>6 DEF PoolIsFine
  <1> QED BY <1>4, <1>5, <1>7

\* Every answer is a text, and one is made up only if nothing near was taught.
LEMMA AnswerIs ==
    ASSUME NEW q, PoolIsFine(known), PoolIsFine(best)
    PROVE  IsText(Answer(q).words) /\ (Answer(q).made => Near(known, q) = {}) /\ Answer(q).made \in BOOLEAN
  <1>1. CASE At(best, q) # {}
    <2>1. PICK i : i = CHOOSE k \in At(best, q) : TRUE
      OBVIOUS
    <2>2. i \in DOMAIN best
      BY <1>1, <2>1 DEF At
    <2>3. Answer(q) = [words |-> best[i].answer, made |-> FALSE]
      BY <1>1, <2>1 DEF Answer
    <2>4. IsText(best[i].answer)
      BY <2>2 DEF PoolIsFine, IsEntry
    <2> QED BY <2>3, <2>4
  <1>2. CASE At(best, q) = {} /\ Partial(known, q) # {}
    <2>1. PICK i : i = CHOOSE k \in Partial(known, q) : TRUE
      OBVIOUS
    <2>2. i \in DOMAIN known
      BY <1>2, <2>1 DEF Partial, Near
    <2>3. Answer(q) = [words |-> known[i].answer, made |-> FALSE]
      BY <1>2, <2>1 DEF Answer
    <2>4. IsText(known[i].answer)
      BY <2>2 DEF PoolIsFine, IsEntry
    <2> QED BY <2>3, <2>4
  <1>3. CASE At(best, q) = {} /\ Partial(known, q) = {} /\ q \in DOMAIN Sums
    <2>1. Answer(q) = [words |-> Sums[q], made |-> FALSE]
      BY <1>3 DEF Answer
    <2> QED BY <1>3, <2>1, ScriptAssumption
  <1>4. CASE At(best, q) = {} /\ Partial(known, q) = {} /\ q \notin DOMAIN Sums
    <2>1. Answer(q) = [words |-> Generated, made |-> TRUE]
      BY <1>4 DEF Answer
    <2>2. Near(known, q) = {}
      BY <1>4, NearIsFound
    <2>3. IsText(Generated)
      BY ScriptAssumption
    <2> QED BY <2>1, <2>2, <2>3
  <1> QED BY <1>1, <1>2, <1>3, <1>4

\* After a lesson of either source the pool is as it should be, if what is made up has
\* nothing near, and the n-grams of its question count as misread where that has doubled
\* spaces.
LEMMA PoolLearns ==
    ASSUME NEW q, NEW answer, NEW source, NEW lessonsNow, IsText(q), IsText(answer),
           PoolInv, known' = LearnedWithNGrams(known, q, answer, source),
           copies' = copies, best' = best, lessons' = lessonsNow \cap QuestionsOf(known)',
           \/ /\ source = "teach"
              /\ \A x \in lessonsNow : x \in lessons \/ \E k \in DOMAIN AllOf(q) : x = AllOf(q)[k]
              /\ \A x \in misread : x \in misread' \/ \E k \in DOMAIN AllOf(q) : x = AllOf(q)[k]
           \/ /\ lessonsNow = lessons /\ Near(known, q) = {} /\ misread \subseteq misread'
              /\ q # Squeezed(q) => \A j \in DOMAIN NGrams(q) : NGrams(q)[j] \in misread'
    PROVE  PoolInv'
  <1>1. PICK pool, new, all : pool = known /\ new = known' /\ all = AllOf(q)
    OBVIOUS
  <1>2. PoolIsFine(pool) /\ new = LearnedWithNGrams(pool, q, answer, source)
    BY <1>1 DEF PoolInv
  <1>3. PICK N \in Nat : N = Len(all) /\ DOMAIN all = 1..N
    BY <1>1, AllOccur, TextIs
  <1>4. /\ PoolIsFine(new)
        /\ \A i \in DOMAIN new : FromLesson(new[i], N, all, pool, answer, source)
    BY <1>1, <1>2, <1>3, LessonIsLearned
  <1>5. /\ q = Squeezed(q) => \A k \in 1..N : Occurs(all[k], q)
        /\ \A k \in 1..N : all[k] = q \/ \E j \in DOMAIN NGrams(q) : all[k] = NGrams(q)[j]
    BY <1>1, <1>3, AllOccur
  <1>6. ASSUME NEW i \in DOMAIN new, new[i].question \in lessons' \ misread'
        PROVE  new[i].source = "teach"
    <2>1. PICK e : e = new[i]
      OBVIOUS
    <2>2. e.question \in lessonsNow /\ e.question \notin misread' /\ FromLesson(e, N, all, pool, answer, source)
      BY <1>4, <1>6, <2>1
    <2>3. \A j \in DOMAIN pool : pool[j].question \in lessons \ misread => pool[j].source = "teach"
      BY <1>1 DEF PoolInv, OnlySpacingLosesLessons
    <2>4. ASSUME NEW k \in 1..N, e = Entry(all[k], answer, source)
          PROVE  e.source = "teach"
      <3>1. e.question = all[k] /\ e.source = source
        BY <2>4 DEF Entry
      <3>2. CASE source = "teach"
        BY <3>1, <3>2
      <3>3. CASE /\ lessonsNow = lessons /\ Near(known, q) = {}
                 /\ q # Squeezed(q) => \A j \in DOMAIN NGrams(q) : NGrams(q)[j] \in misread'
        <4>1. e.question \in QuestionsOf(pool)
          BY <1>1, <2>2, <3>3 DEF PoolInv
        <4>2. PICK j \in DOMAIN pool : pool[j].question = e.question
          BY <4>1 DEF QuestionsOf
        <4>3. Occurs(e.question, q)
          <5>1. CASE q = Squeezed(q)
            BY <1>5, <3>1, <5>1
          <5>2. CASE q # Squeezed(q)
            <6>1. e.question = q
              BY <1>5, <2>2, <3>1, <3>3, <5>2
            <6> QED BY <6>1, OccursItself
          <5> QED BY <5>1, <5>2
        <4>4. Inside(pool[j].question, q)
          BY <4>2, <4>3 DEF Inside, Occurs
        <4>5. j \in Near(known, q)
          BY <1>1, <4>4 DEF Near
        <4> QED BY <3>3, <4>5
      <3> QED BY <3>2, <3>3
    <2>5. ASSUME NEW j \in DOMAIN pool, e = pool[j], \A k \in 1..N : pool[j].question # all[k]
          PROVE  e.source = "teach"
      <3>1. e.question \in lessons \ misread
        BY <1>1, <1>3, <2>2, <2>5
      <3> QED BY <2>3, <2>5, <3>1
    <2>6. e.source = "teach"
      BY <2>2, <2>4, <2>5 DEF FromLesson
    <2> QED BY <2>1, <2>6
  <1>7. OnlySpacingLosesLessons'
    BY <1>1, <1>6 DEF OnlySpacingLosesLessons
  <1>8. PoolIsFine(known)'
    BY <1>1, <1>4 DEF PoolIsFine
  <1>9. (best \in copies /\ \A c \in copies : PoolIsFine(c))'
    BY DEF PoolInv
  <1>10. (lessons \subseteq QuestionsOf(known))'
    OBVIOUS
  <1> QED BY <1>7, <1>8, <1>9, <1>10 DEF PoolInv

-----------------------------------------------------------------------------
(* KolibriScript: the chain of events *)

\* An event more changes no lesson before it.
LEMMA LessonStays ==
    ASSUME NEW events, NEW e, IsText(events), NEW i \in 1..Len(events) + 1
    PROVE  LessonBefore(Append(events, e), i) = LessonBefore(events, i)
  <1>1. PICK n \in Nat : n = Len(events) /\ DOMAIN events = 1..n
    BY TextIs
  <1>2. PICK new : new = Append(events, e)
    OBVIOUS
  <1>3. \A j \in 1..n : new[j] = events[j]
    BY <1>1, <1>2, WordAppended
  <1>4. \A j \in 1..i - 1 : j \in 1..n
    BY <1>1
  <1>5. \A j \in 1..i - 1 : new[j] = events[j]
    BY <1>3, <1>4
  <1>6. PICK before : before = {j \in 1..i - 1 : events[j].stage # "evaluate"}
    OBVIOUS
  <1>7. before = {j \in 1..i - 1 : new[j].stage # "evaluate"}
    BY <1>5, <1>6
  <1>8. PICK last : last = CHOOSE j \in before : \A k \in before : k <= j
    OBVIOUS
  <1>9. LessonBefore(events, i) = IF before = {} \/ events[last].stage = "verify" THEN NoHash ELSE events[last].hash
    BY <1>6, <1>8 DEF LessonBefore
  <1>10. LessonBefore(new, i) = IF before = {} \/ new[last].stage = "verify" THEN NoHash ELSE new[last].hash
    BY <1>7, <1>8 DEF LessonBefore
  <1>11. before # {} => new[last] = events[last]
    <2>1. ASSUME before # {} PROVE last \in before
      <3>1. i - 1 \in Nat /\ before \in SUBSET (0..i - 1)
        BY <1>1, <1>6
      <3>2. PICK j \in before : \A k \in before : j >= k
        BY <2>1, <3>1, GreatestExists
      <3>3. \A k \in before : k <= j
        BY <3>1, <3>2
      <3> QED BY <1>8, <3>3
    <2> QED BY <1>5, <1>6, <2>1
  <1>12. LessonBefore(new, i) = LessonBefore(events, i)
    BY <1>9, <1>10, <1>11
  <1> QED BY <1>2, <1>12

\* A lesson or a verification is the last one; an evaluation leaves it as it was.
LEMMA LessonNow ==
    ASSUME NEW events, NEW e, IsText(events)
    PROVE  LessonBefore(Append(events, e), Len(events) + 2)
             = IF e.stage = "evaluate" THEN LessonBefore(events, Len(events) + 1)
               ELSE IF e.stage = "verify" THEN NoHash ELSE e.hash
  <1>1. PICK n \in Nat : n = Len(events) /\ DOMAIN events = 1..n
    BY TextIs
  <1>2. PICK new : new = Append(events, e)
    OBVIOUS
  <1>3. new[n + 1] = e /\ \A j \in 1..n : new[j] = events[j]
    BY <1>1, <1>2, WordAppended
  <1>4. (n + 2) - 1 = n + 1 /\ (n + 1) - 1 = n
    BY <1>1
  <1>5. PICK before : before = {j \in 1..n + 1 : new[j].stage # "evaluate"}
    OBVIOUS
  <1>6. PICK last : last = CHOOSE j \in before : \A k \in before : k <= j
    OBVIOUS
  <1>7. LessonBefore(new, n + 2) = IF before = {} \/ new[last].stage = "verify" THEN NoHash ELSE new[last].hash
    BY <1>4, <1>5, <1>6 DEF LessonBefore
  <1>8. \A j \in 1..n + 1 : j \in 1..n \/ j = n + 1
    BY <1>1
  <1>9. \A j \in 1..n : j \in 1..n + 1
    BY <1>1
  <1>10. CASE e.stage = "evaluate"
    <2>1. PICK earlier : earlier = {j \in 1..n : events[j].stage # "evaluate"}
      OBVIOUS
    <2>2. before = earlier
      BY <1>3, <1>5, <1>8, <1>9, <1>10, <2>1
    <2>3. LessonBefore(events, n + 1)
            = IF before = {} \/ events[last].stage = "verify" THEN NoHash ELSE events[last].hash
      BY <1>4, <1>6, <2>1, <2>2 DEF LessonBefore
    <2>4. ASSUME before # {} PROVE new[last] = events[last]
      <3>1. before \in SUBSET (0..n)
        BY <1>1, <2>1, <2>2
      <3>2. PICK j \in before : \A k \in before : j >= k
        BY <1>1, <2>4, <3>1, GreatestExists
      <3>3. \A k \in before : k <= j
        BY <3>1, <3>2
      <3>4. last \in before
        BY <1>6, <3>3
      <3> QED BY <1>3, <2>1, <2>2, <3>4
    <2> QED BY <1>1, <1>2, <1>7, <1>10, <2>3, <2>4
  <1>11. CASE e.stage # "evaluate"
    <2>1. n + 1 \in before /\ n + 1 \in Nat
      BY <1>1, <1>3, <1>5, <1>11
    <2>2. \A k \in before : k \in Nat /\ k <= n + 1
      BY <1>1, <1>5
    <2>3. \A j \in before : n + 1 <= j => j = n + 1
      BY <2>1, <2>2
    <2>4. last = n + 1
      BY <1>6, <2>1, <2>2, <2>3
    <2> QED BY <1>1, <1>2, <1>3, <1>7, <1>11, <2>1, <2>4
  <1> QED BY <1>10, <1>11

\* What CrystalIsLinked asks of event i.
Linked(events, i) ==
    CASE events[i].stage = "verify" ->
            /\ i > 1 /\ events[i - 1].stage = "evaluate"
            /\ events[i].hash = events[i - 1].hash
            /\ events[i].ok <=> events[i].said = events[i].hash[4]
      [] events[i].stage = "evaluate" -> events[i].hash[2] = LessonBefore(events, i)
      [] OTHER -> TRUE

\* An event more leaves the links of the earlier ones.
LEMMA LinksStay ==
    ASSUME NEW events, NEW e, IsText(events), \A i \in DOMAIN events : Linked(events, i)
    PROVE  \A i \in DOMAIN events : Linked(Append(events, e), i)
  <1>1. PICK n \in Nat : n = Len(events) /\ DOMAIN events = 1..n
    BY TextIs
  <1>2. PICK new : new = Append(events, e)
    OBVIOUS
  <1>3. \A j \in 1..n : new[j] = events[j]
    BY <1>1, <1>2, WordAppended
  <1>4. ASSUME NEW i \in 1..n PROVE Linked(new, i)
    <2>1. i \in 1..n + 1 /\ (i > 1 => i - 1 \in 1..n)
      BY <1>1
    <2>2. LessonBefore(new, i) = LessonBefore(events, i)
      BY <1>1, <1>2, <2>1, LessonStays
    <2>3. new[i] = events[i] /\ (i > 1 => new[i - 1] = events[i - 1])
      BY <1>3, <2>1
    <2>4. Linked(events, i)
      BY <1>1
    <2>5. CASE events[i].stage = "verify"
      BY <2>3, <2>4, <2>5 DEF Linked
    <2>6. CASE events[i].stage = "evaluate"
      BY <2>2, <2>3, <2>4, <2>6 DEF Linked
    <2>7. CASE events[i].stage # "verify" /\ events[i].stage # "evaluate"
      BY <2>3, <2>7 DEF Linked
    <2> QED BY <2>5, <2>6, <2>7
  <1> QED BY <1>1, <1>2, <1>4

\* The links hold when the new one does.
LEMMA ChainGrows ==
    ASSUME NEW e, IsText(chain), CrystalIsLinked, chain' = Append(chain, e),
           Linked(Append(chain, e), Len(chain) + 1)
    PROVE  IsText(chain)' /\ CrystalIsLinked'
  <1>1. PICK n \in Nat : n = Len(chain) /\ DOMAIN chain = 1..n
    BY TextIs
  <1>2. PICK new : new = chain'
    OBVIOUS
  <1>3. IsText(new) /\ DOMAIN new = 1..n + 1
    BY <1>1, <1>2, WordAppended
  <1>4. \A i \in DOMAIN chain : Linked(chain, i)
    BY DEF CrystalIsLinked, Linked
  <1>5. \A i \in 1..n : Linked(new, i)
    BY <1>1, <1>2, <1>4, LinksStay
  <1>6. Linked(new, n + 1)
    BY <1>1, <1>2
  <1>7. \A i \in 1..n + 1 : i \in 1..n \/ i = n + 1
    BY <1>1
  <1>8. \A i \in DOMAIN new : Linked(new, i)
    BY <1>3, <1>5, <1>6, <1>7
  <1>9. CrystalIsLinked'
    BY <1>2, <1>8 DEF CrystalIsLinked, Linked
  <1>10. IsText(chain)'
    BY <1>2, <1>3 DEF IsText
  <1> QED BY <1>9, <1>10

-----------------------------------------------------------------------------
(* KolibriScript: the steps *)

\* What leaves the pool alone, the events, or the variables.
LEMMA PoolStays ==
    ASSUME PoolInv, UNCHANGED ofPool
    PROVE  PoolInv'
  <1>1. known' = known /\ copies' = copies /\ best' = best /\ lessons' = lessons /\ misread' = misread
    BY DEF ofPool
  <1>2. PoolIsFine(known)' /\ (\A c \in copies : PoolIsFine(c))'
    BY <1>1 DEF PoolInv, PoolIsFine
  <1>3. OnlySpacingLosesLessons' /\ (lessons \subseteq QuestionsOf(known))'
    BY <1>1 DEF PoolInv, QuestionsOf, OnlySpacingLosesLessons
  <1> QED BY <1>1, <1>2, <1>3 DEF PoolInv

\* The events, as long as no script is begun.
LEMMA CrystalStays ==
    ASSUME CrystalInv, crystal' = crystal, chain' = chain, status' = "running" => status = "running"
    PROVE  CrystalInv'
  <1>1. IsText(chain)' /\ CrystalIsLinked'
    <2>1. IsText(chain)'
      BY DEF CrystalInv, IsText
    <2>2. PICK new : new = chain'
      OBVIOUS
    <2>3. \A i \in DOMAIN new : Linked(new, i)
      BY <2>2 DEF CrystalInv, CrystalIsLinked, Linked
    <2>4. CrystalIsLinked'
      BY <2>2, <2>3 DEF CrystalIsLinked, Linked
    <2> QED BY <2>1, <2>4
  <1>2. CrystalOfScript'
    BY DEF CrystalInv, CrystalOfScript, LessonBefore
  <1> QED BY <1>1, <1>2 DEF CrystalInv

\* The variables, whatever is left to do.
LEMMA TextsStay ==
    ASSUME TextsInv, todo' \in Seq(AllStatements), values' = values
    PROVE  TextsInv'
  BY DEF TextsInv, IsText

\* A variable is set.
LEMMA TextSet ==
    ASSUME NEW x, NEW v, v.is = "text" => IsText(v.words),
           TextsInv, todo' \in Seq(AllStatements), values' = With(values, x, v)
    PROVE  TextsInv'
  <1>1. PICK new : new = values'
    OBVIOUS
  <1>2. \A y \in DOMAIN new : new[y].is = "text" => IsText(new[y].words)
    BY <1>1 DEF TextsInv, With
  <1>3. (\A y \in DOMAIN values : values[y].is = "text" => IsText(values[y].words))'
    BY <1>1, <1>2 DEF IsText
  <1> QED BY <1>3 DEF TextsInv

\* What is left to do after a statement.
LEMMA RestIs ==
    ASSUME todo \in Seq(AllStatements)
    PROVE  /\ Rest \in Seq(AllStatements)
           /\ (Goes => todo' \in Seq(AllStatements))
           /\ (Fails => todo' \in Seq(AllStatements))
  <1>1. <<>> \in Seq(AllStatements)
    OBVIOUS
  <1>2. Rest \in Seq(AllStatements)
    BY <1>1, HeadTailProperties DEF Rest
  <1> QED BY <1>1, <1>2 DEF Goes, Fails

\* A verification is linked to the evaluation just before it.
LEMMA VerifyIsLinked ==
    ASSUME NEW e, CrystalInv, status = "running", e.stage = "verify", crystal.evaluated # NoHash,
           e.hash = crystal.evaluated, e.ok <=> e.said = crystal.answer
    PROVE  Linked(Append(chain, e), Len(chain) + 1)
  <1>1. PICK n \in Nat : n = Len(chain) /\ DOMAIN chain = 1..n
    BY TextIs DEF CrystalInv
  <1>2. PICK new : new = Append(chain, e)
    OBVIOUS
  <1>3. new[n + 1] = e /\ \A i \in 1..n : new[i] = chain[i]
    BY <1>1, <1>2, WordAppended DEF CrystalInv
  <1>4. /\ chain # <<>> /\ chain[n].stage = "evaluate"
        /\ chain[n].hash = crystal.evaluated /\ crystal.answer = crystal.evaluated[4]
    BY <1>1 DEF CrystalInv, CrystalOfScript
  <1>5. n # 0
    <2>1. PICK S : chain \in Seq(S)
      BY DEF CrystalInv, IsText
    <2> QED BY <1>1, <1>4, <2>1, EmptySeq
  <1>6. n \in 1..n /\ (n + 1) - 1 = n /\ n + 1 > 1
    BY <1>1, <1>5
  <1>7. e.ok <=> e.said = e.hash[4]
    BY <1>4, Zenon
  <1>8. Linked(new, n + 1)
    BY <1>3, <1>4, <1>6, <1>7 DEF Linked
  <1> QED BY <1>1, <1>2, <1>8

\* A lesson, an evaluation or a verification that confirms is recorded, the crystal with it.
LEMMA EventRecorded ==
    ASSUME NEW e, CrystalInv, status = "running", status' = "running", chain' = Append(chain, e),
           crystal' = [taught |-> crystal'.taught, evaluated |-> crystal'.evaluated, answer |-> crystal'.answer],
           \/ /\ e.stage = "teach" /\ crystal'.taught = e.hash /\ crystal'.evaluated = NoHash
           \/ /\ e.stage = "evaluate" /\ crystal'.taught = crystal.taught /\ crystal'.evaluated = e.hash
              /\ e.hash[2] = crystal.taught /\ e.hash[4] = crystal'.answer
           \/ /\ e.stage = "verify" /\ crystal.evaluated # NoHash /\ e.hash = crystal.evaluated
              /\ e.ok <=> e.said = crystal.answer
              /\ crystal'.taught = NoHash /\ crystal'.evaluated = NoHash
    PROVE  CrystalInv'
  <1>1. PICK n \in Nat : n = Len(chain) /\ DOMAIN chain = 1..n
    BY TextIs DEF CrystalInv
  <1>2. PICK new : new = chain' /\ new = Append(chain, e)
    OBVIOUS
  <1>3. Len(new) = n + 1 /\ new[n + 1] = e /\ \A i \in 1..n : new[i] = chain[i]
    BY <1>1, <1>2, WordAppended DEF CrystalInv
  <1>4. LessonBefore(new, n + 1) = LessonBefore(chain, n + 1)
    <2>1. n + 1 \in 1..n + 1
      BY <1>1
    <2> QED BY <1>1, <1>2, <2>1, LessonStays DEF CrystalInv
  <1>5. LessonBefore(new, n + 2)
          = IF e.stage = "evaluate" THEN LessonBefore(chain, n + 1)
            ELSE IF e.stage = "verify" THEN NoHash ELSE e.hash
    BY <1>1, <1>2, LessonNow DEF CrystalInv
  <1>6. crystal.taught = LessonBefore(chain, n + 1)
    BY <1>1 DEF CrystalInv, CrystalOfScript
  <1>7. Linked(new, n + 1)
    <2>1. CASE e.stage = "teach"
      BY <1>3, <2>1 DEF Linked
    <2>2. CASE e.stage = "evaluate"
      <3>1. e.hash[2] = LessonBefore(new, n + 1)
        BY <1>4, <1>6, <2>2
      <3> QED BY <1>3, <2>2, <3>1 DEF Linked
    <2>3. CASE e.stage = "verify"
      BY <1>1, <1>2, <2>3, VerifyIsLinked
    <2> QED BY <2>1, <2>2, <2>3
  <1>8. IsText(chain)' /\ CrystalIsLinked'
    BY <1>1, <1>2, <1>7, ChainGrows DEF CrystalInv
  <1>9. CrystalOfScript'
    <2>1. PICK c : c = crystal'
      OBVIOUS
    <2>2. c.taught = LessonBefore(new, n + 2)
      BY <1>5, <1>6, <2>1
    <2>3. c.evaluated # NoHash => e.stage = "evaluate" /\ e.hash = c.evaluated /\ c.answer = c.evaluated[4]
      BY <2>1
    <2>4. new # <<>> /\ Len(new) + 1 = n + 2
      <3>1. (n + 1) + 1 = n + 2 /\ n + 1 # 0
        BY <1>1
      <3> QED BY <1>3, <3>1
    <2>5. c = [taught |-> c.taught, evaluated |-> c.evaluated, answer |-> c.answer]
      BY <2>1
    <2>6. /\ c.taught = LessonBefore(new, Len(new) + 1)
          /\ c.evaluated # NoHash =>
               /\ new # <<>> /\ new[Len(new)].stage = "evaluate"
               /\ new[Len(new)].hash = c.evaluated /\ c.answer = c.evaluated[4]
      BY <1>3, <2>2, <2>3, <2>4
    <2>7. c.taught = LessonBefore(chain', Len(chain') + 1)
      BY <1>2, <2>6
    <2>8. c.evaluated # NoHash =>
            /\ chain' # <<>> /\ chain'[Len(chain')].stage = "evaluate"
            /\ chain'[Len(chain')].hash = c.evaluated /\ c.answer = c.evaluated[4]
      BY <1>2, <2>6
    <2>9. LessonBefore(chain, Len(chain) + 1)' = LessonBefore(chain', Len(chain') + 1)
      BY DEF LessonBefore
    <2> QED BY <2>1, <2>5, <2>7, <2>8, <2>9 DEF CrystalOfScript
  <1> QED BY <1>8, <1>9 DEF CrystalInv

\* Every n-gram is among what a lesson is learned under, and so is the question.
LEMMA AllAreThere ==
    ASSUME NEW q, IsText(q)
    PROVE  /\ \E k \in DOMAIN AllOf(q) : AllOf(q)[k] = q
           /\ \A j \in DOMAIN NGrams(q) : \E k \in DOMAIN AllOf(q) : AllOf(q)[k] = NGrams(q)[j]
  <1>1. PICK grams, one, all : grams = NGrams(q) /\ one = <<q>> /\ all = one \o grams
    OBVIOUS
  <1>2. IsText(grams)
    BY <1>1, NGramsAreText
  <1>3. PICK n \in Nat : n = Len(grams) /\ DOMAIN grams = 1..n
    BY <1>2, TextIs
  <1>4. PICK S : one \in Seq(S) /\ grams \in Seq(S)
    <2>1. PICK T : grams \in Seq(T)
      BY <1>2 DEF IsText
    <2>2. T \subseteq T \cup {q} /\ {q} \subseteq T \cup {q} /\ one \in Seq({q})
      BY <1>1
    <2>3. one \in Seq(T \cup {q}) /\ grams \in Seq(T \cup {q})
      BY <2>1, <2>2, SeqMonotonic
    <2> QED BY <2>3
  <1>5. Len(one) = 1 /\ one[1] = q
    BY <1>1
  <1>6. all \in Seq(S) /\ Len(all) = n + 1 /\ \A i \in 1..1 + n : all[i] = IF i <= 1 THEN one[i] ELSE grams[i - 1]
    BY <1>1, <1>3, <1>4, <1>5, ConcatProperties
  <1>7. DOMAIN all = 1..n + 1
    BY <1>6, LenProperties
  <1>8. 1 \in 1..n + 1 /\ 1 \in 1..1 + n /\ \A j \in 1..n : j + 1 \in 1..n + 1 /\ j + 1 \in 1..1 + n /\ ~(j + 1 <= 1) /\ (j + 1) - 1 = j
    BY <1>3
  <1>9. all[1] = q /\ \A j \in 1..n : all[j + 1] = grams[j]
    BY <1>5, <1>6, <1>8
  <1>10. AllOf(q) = all
    BY <1>1 DEF AllOf
  <1> QED BY <1>1, <1>3, <1>7, <1>8, <1>9, <1>10

\* A script is begun.
LEMMA StartScriptKeeps ==
    ASSUME ScriptInv, StartScript
    PROVE  ScriptInv'
  <1>1. /\ values' = None /\ crystal' = Blank /\ chain' = <<>> /\ todo' = todo /\ ofPool' = ofPool
    BY DEF StartScript
  <1>2. PoolInv'
    BY <1>1, PoolStays DEF ScriptInv
  <1>3. TextsInv'
    BY <1>1 DEF ScriptInv, TextsInv, None
  <1>4. PICK none : none = <<>>
    OBVIOUS
  <1>5. IsText(none) /\ DOMAIN none = {} /\ Len(none) = 0
    <2>1. none \in Seq({}) /\ Len(none) = 0
      BY <1>4
    <2>2. IsText(none)
      BY <2>1, SequenceIsText
    <2>3. DOMAIN none = 1..0
      BY <2>1, <2>2, TextIs
    <2> QED BY <2>1, <2>2, <2>3
  <1>6. LessonBefore(none, 1) = NoHash
    <2>1. \A j \in 1..1 - 1 : FALSE
      OBVIOUS
    <2>2. {j \in 1..1 - 1 : none[j].stage # "evaluate"} = {}
      BY <2>1
    <2> QED BY <2>2 DEF LessonBefore
  <1>7. (IsText(chain) /\ CrystalIsLinked)'
    BY <1>1, <1>4, <1>5 DEF IsText, CrystalIsLinked
  <1>8. CrystalOfScript'
    <2>1. PICK c : c = crystal'
      OBVIOUS
    <2>2. c.taught = NoHash /\ c.evaluated = NoHash /\ c = [taught |-> c.taught, evaluated |-> c.evaluated, answer |-> c.answer]
      BY <1>1, <2>1 DEF Blank
    <2>3. c.taught = LessonBefore(none, Len(none) + 1)
      BY <1>5, <1>6, <2>2
    <2> QED BY <1>1, <1>4, <2>1, <2>2, <2>3 DEF CrystalOfScript, LessonBefore
  <1> QED BY <1>2, <1>3, <1>7, <1>8 DEF ScriptInv, CrystalInv

\* A lesson.
LEMMA TeachLinkKeeps ==
    ASSUME ScriptInv, NEW s, WellFormed(s), TeachLink(s)
    PROVE  ScriptInv'
  <1>1. PICK q, a : q = AsText(Value(s.left)) /\ a = AsText(Value(s.right))
    OBVIOUS
  <1>2. IsText(q) /\ IsText(a)
    BY <1>1, ValueIsText DEF TeachLink, WellFormed, ScriptInv, TextsInv
  <1>3. PICK hash : hash = <<"teach", q, a>>
    OBVIOUS
  <1>4. /\ s.do = "teach" /\ ComesUp(s) /\ Goes
        /\ crystal' = AfterLesson(hash)
        /\ chain' = Append(chain, [stage |-> "teach", hash |-> hash, recorded |-> HasRoom("teach")])
        /\ known' = LearnedWithNGrams(known, q, a, "teach")
        /\ lessons' = (lessons \cup {q} \cup Grams(q)) \cap QuestionsOf(known')
        /\ misread' = misread \ ({q} \cup Grams(q))
        /\ UNCHANGED <<values, bound, mode, copies, best, fit>>
    BY <1>1, <1>3 DEF TeachLink
  <1>5. TextsInv'
    BY <1>4, RestIs, TextsStay DEF ScriptInv, TextsInv
  <1>6. PoolInv'
    <2>1. PICK lessonsNow : lessonsNow = lessons \cup {q} \cup Grams(q)
      OBVIOUS
    <2>2. \A x \in {q} \cup Grams(q) : \E k \in DOMAIN AllOf(q) : x = AllOf(q)[k]
      BY <1>2, AllAreThere DEF Grams
    <2>3. /\ \A x \in lessonsNow : x \in lessons \/ \E k \in DOMAIN AllOf(q) : x = AllOf(q)[k]
          /\ \A x \in misread : x \in misread' \/ \E k \in DOMAIN AllOf(q) : x = AllOf(q)[k]
      BY <1>4, <2>1, <2>2
    <2>4. lessons' = lessonsNow \cap QuestionsOf(known)'
      BY <1>4, <2>1 DEF QuestionsOf
    <2> QED BY <1>2, <1>4, <2>3, <2>4, PoolLearns DEF ScriptInv
  <1>7. CrystalInv'
    <2>1. PICK e : e = [stage |-> "teach", hash |-> hash, recorded |-> HasRoom("teach")]
      OBVIOUS
    <2>2. e.stage = "teach" /\ e.hash = hash /\ chain' = Append(chain, e)
      BY <1>4, <2>1
    <2>3. crystal = [taught |-> crystal.taught, evaluated |-> crystal.evaluated, answer |-> crystal.answer]
      BY DEF ScriptInv, CrystalInv, CrystalOfScript
    <2>4. crystal' = [taught |-> hash, evaluated |-> NoHash, answer |-> crystal.answer]
      BY <1>4, <2>3 DEF AfterLesson
    <2>5. PICK c : c = crystal'
      OBVIOUS
    <2>6. c.taught = hash /\ c.evaluated = NoHash /\ c = [taught |-> c.taught, evaluated |-> c.evaluated, answer |-> c.answer]
      BY <2>4, <2>5
    <2>7. status = "running" /\ status' = "running"
      BY <1>4 DEF ComesUp, Goes
    <2> QED BY <2>2, <2>5, <2>6, <2>7, EventRecorded DEF ScriptInv
  <1> QED BY <1>5, <1>6, <1>7 DEF ScriptInv

\* An evaluation.
LEMMA EvaluateFormulaKeeps ==
    ASSUME ScriptInv, NEW s, WellFormed(s), EvaluateFormula(s)
    PROVE  ScriptInv'
  <1>1. PICK q, a : q = AsText(Value(s.value)) /\ a = Answer(q)
    OBVIOUS
  <1>2. IsText(q)
    BY <1>1, ValueIsText DEF EvaluateFormula, WellFormed, ScriptInv, TextsInv
  <1>3. PICK said : said = Said(a.words)
    OBVIOUS
  <1>4. PICK hash : hash = <<"evaluate", crystal.taught, q, said>>
    OBVIOUS
  <1>5. /\ ComesUp(s) /\ Goes
        /\ known' = IF a.made THEN LearnedWithNGrams(known, q, a.words, "auto") ELSE known
        /\ lessons' = lessons \cap QuestionsOf(known')
        /\ misread' = IF a.made /\ q # Squeezed(q) THEN misread \cup Grams(q) ELSE misread
        /\ crystal' = [crystal EXCEPT !.evaluated = hash, !.answer = said]
        /\ chain' = Append(chain, [stage |-> "evaluate", hash |-> hash, recorded |-> HasRoom("evaluate")])
        /\ values' = With(values, "itog", Text(said))
        /\ UNCHANGED <<mode, copies, best, fit>>
    BY <1>1, <1>3, <1>4 DEF EvaluateFormula
  <1>6. IsText(a.words) /\ (a.made => Near(known, q) = {}) /\ a.made \in BOOLEAN
    BY <1>1, AnswerIs DEF ScriptInv, PoolInv
  <1>7. IsText(said)
    BY <1>3, <1>6, SaidIsText
  <1>8. TextsInv'
    <2>1. PICK v : v = Text(said)
      OBVIOUS
    <2>2. v.is = "text" => IsText(v.words)
      BY <1>7, <2>1 DEF Text
    <2> QED BY <1>5, <2>1, <2>2, RestIs, TextSet DEF ScriptInv, TextsInv
  <1>9. PoolInv'
    <2>1. lessons' = lessons \cap QuestionsOf(known)'
      BY <1>5 DEF QuestionsOf
    <2>2. CASE a.made
      <3>1. known' = LearnedWithNGrams(known, q, a.words, "auto")
        BY <1>5, <2>2
      <3>2. misread \subseteq misread' /\ (q # Squeezed(q) => \A j \in DOMAIN NGrams(q) : NGrams(q)[j] \in misread')
        BY <1>5, <2>2 DEF Grams
      <3> QED BY <1>2, <1>5, <1>6, <2>1, <2>2, <3>1, <3>2, PoolLearns DEF ScriptInv
    <2>3. CASE ~a.made
      <3>1. known' = known
        BY <1>5, <2>3
      <3>2. lessons' = lessons
        BY <2>1, <3>1 DEF ScriptInv, PoolInv, QuestionsOf
      <3>3. misread' = misread
        BY <1>5, <2>3
      <3> QED BY <1>5, <3>1, <3>2, <3>3, PoolStays DEF ScriptInv, ofPool
    <2> QED BY <2>2, <2>3
  <1>10. CrystalInv'
    <2>1. PICK e : e = [stage |-> "evaluate", hash |-> hash, recorded |-> HasRoom("evaluate")]
      OBVIOUS
    <2>2. e.stage = "evaluate" /\ e.hash = hash /\ chain' = Append(chain, e)
      BY <1>5, <2>1
    <2>3. crystal = [taught |-> crystal.taught, evaluated |-> crystal.evaluated, answer |-> crystal.answer]
      BY DEF ScriptInv, CrystalInv, CrystalOfScript
    <2>4. crystal' = [taught |-> crystal.taught, evaluated |-> hash, answer |-> said]
      BY <1>5, <2>3
    <2>5. PICK c : c = crystal'
      OBVIOUS
    <2>6. /\ c.taught = crystal.taught /\ c.evaluated = hash /\ c.answer = said
          /\ c = [taught |-> c.taught, evaluated |-> c.evaluated, answer |-> c.answer]
      BY <2>4, <2>5
    <2>7. hash[2] = crystal.taught /\ hash[4] = said
      BY <1>4
    <2>8. status = "running" /\ status' = "running"
      BY <1>5 DEF ComesUp, Goes
    <2> QED BY <2>2, <2>5, <2>6, <2>7, <2>8, EventRecorded DEF ScriptInv
  <1> QED BY <1>8, <1>9, <1>10 DEF ScriptInv

\* A verification, whether the answer is right or not.
LEMMA VerifyAnswerKeeps ==
    ASSUME ScriptInv, NEW s, WellFormed(s), VerifyAnswer(s)
    PROVE  ScriptInv'
  <1>1. PICK said : said = AsText(Value(s.value))
    OBVIOUS
  <1>2. PICK ok \in BOOLEAN : ok = (said = crystal.answer)
    OBVIOUS
  <1>3. PICK e : e = [stage |-> "verify", ok |-> ok, hash |-> crystal.evaluated, said |-> said,
                     recorded |-> HasRoom("verify")]
    OBVIOUS
  <1>4. e.stage = "verify" /\ e.hash = crystal.evaluated /\ e.said = said /\ e.ok = ok
    BY <1>3
  <1>5. Verified(s) = ok
    BY <1>1, <1>2 DEF Verified
  <1>6. /\ crystal.evaluated # NoHash /\ ComesUp(s) /\ chain' = Append(chain, e)
        /\ IF ok THEN Goes /\ crystal' = Blank ELSE Fails /\ UNCHANGED crystal
        /\ UNCHANGED <<values, bound, mode, ofPool>>
    BY <1>1, <1>3, <1>5, Zenon DEF VerifyAnswer
  <1>7. TextsInv'
    BY <1>6, RestIs, TextsStay DEF ScriptInv, TextsInv
  <1>8. PoolInv'
    BY <1>6, PoolStays DEF ScriptInv
  <1>9. CrystalInv'
    <2>1. status = "running" /\ (e.ok <=> e.said = crystal.answer)
      <3>1. e.ok <=> e.said = crystal.answer
        BY <1>2, <1>4, Zenon
      <3> QED BY <1>6, <3>1 DEF ComesUp
    <2>2. CASE ok
      <3>1. crystal' = Blank /\ status' = "running"
        BY <1>6, <2>1, <2>2 DEF Goes
      <3>2. PICK c : c = crystal'
        OBVIOUS
      <3>3. c.taught = NoHash /\ c.evaluated = NoHash /\ c = [taught |-> c.taught, evaluated |-> c.evaluated, answer |-> c.answer]
        BY <3>1, <3>2 DEF Blank
      <3> QED BY <1>4, <1>6, <2>1, <3>1, <3>2, <3>3, EventRecorded DEF ScriptInv
    <2>3. CASE ~ok
      <3>1. crystal' = crystal /\ status' = "failed"
        BY <1>6, <2>3 DEF Fails
      <3>2. CrystalOfScript'
        BY <3>1 DEF ScriptInv, CrystalInv, CrystalOfScript
      <3>3. Linked(Append(chain, e), Len(chain) + 1)
        BY <1>4, <1>6, <2>1, VerifyIsLinked DEF ScriptInv
      <3>4. IsText(chain)' /\ CrystalIsLinked'
        BY <1>6, <3>3, ChainGrows DEF ScriptInv, CrystalInv
      <3> QED BY <3>2, <3>4 DEF CrystalInv
    <2> QED BY <2>2, <2>3
  <1> QED BY <1>7, <1>8, <1>9 DEF ScriptInv

\* Evolution, whatever it selects.
LEMMA CallEvolutionKeeps ==
    ASSUME ScriptInv, NEW s, CallEvolution(s)
    PROVE  ScriptInv'
  <1>1. /\ ComesUp(s) /\ Goes /\ best' \in copies'
        /\ copies' = IF known = <<>> THEN copies ELSE copies \cup {Copy(known)}
        /\ known' = known /\ lessons' = lessons /\ misread' = misread /\ values' = values /\ crystal' = crystal /\ chain' = chain
    BY DEF CallEvolution, ofRun
  <1>2. TextsInv'
    BY <1>1, RestIs, TextsStay DEF ScriptInv, TextsInv
  <1>3. CrystalInv'
    <2>1. status' = status
      BY <1>1 DEF Goes
    <2> QED BY <1>1, <2>1, CrystalStays DEF ScriptInv
  <1>4. PoolInv'
    <2>1. PICK new : new = copies'
      OBVIOUS
    <2>2. PoolIsFine(Copy(known))
      BY CopyIsFine DEF ScriptInv, PoolInv
    <2>3. \A c \in new : PoolIsFine(c)
      BY <1>1, <2>1, <2>2 DEF ScriptInv, PoolInv
    <2>4. (\A c \in copies : PoolIsFine(c))'
      BY <2>1, <2>3 DEF PoolIsFine
    <2>5. PoolIsFine(known)'
      BY <1>1 DEF ScriptInv, PoolInv, PoolIsFine
    <2>6. OnlySpacingLosesLessons' /\ (lessons \subseteq QuestionsOf(known))'
      BY <1>1 DEF ScriptInv, PoolInv, QuestionsOf, OnlySpacingLosesLessons
    <2> QED BY <1>1, <2>4, <2>5, <2>6 DEF PoolInv
  <1> QED BY <1>2, <1>3, <1>4 DEF ScriptInv

\* What changes neither pool nor crystal.
LEMMA QuietStep ==
    ASSUME ScriptInv, UNCHANGED ofPool, UNCHANGED <<crystal, chain>>, TextsInv',
           status' = "running" => status = "running"
    PROVE  ScriptInv'
  <1>1. PoolInv'
    BY PoolStays DEF ScriptInv
  <1>2. CrystalInv'
    BY CrystalStays DEF ScriptInv
  <1> QED BY <1>1, <1>2 DEF ScriptInv

\* Every statement.
LEMMA ExecuteKeeps ==
    ASSUME ScriptInv, NEW s, WellFormed(s), Execute(s)
    PROVE  ScriptInv'
  <1>1. ASSUME ofRun' = ofRun PROVE values' = values /\ crystal' = crystal /\ chain' = chain
    BY <1>1 DEF ofRun
  <1>2. ASSUME Goes \/ Fails PROVE todo' \in Seq(AllStatements) /\ (status' = "running" => status = "running")
    BY <1>2, RestIs DEF ScriptInv, TextsInv, Goes, Fails
  <1>3. ASSUME Goes \/ Fails, UNCHANGED <<ofRun, ofPool>> PROVE ScriptInv'
    <2>1. values' = values /\ crystal' = crystal /\ chain' = chain /\ ofPool' = ofPool
      BY <1>1, <1>3
    <2>2. TextsInv'
      BY <1>2, <1>3, <2>1, TextsStay DEF ScriptInv
    <2> QED BY <1>2, <1>3, <2>1, <2>2, QuietStep
  <1>4. ASSUME Goes, UNCHANGED <<values, crystal, chain, ofPool>> PROVE ScriptInv'
    <2>1. TextsInv'
      BY <1>2, <1>4, TextsStay DEF ScriptInv
    <2> QED BY <1>2, <1>4, <2>1, QuietStep
  <1>5. ASSUME todo' \in Seq(AllStatements), UNCHANGED <<status, ofRun, ofPool>> PROVE ScriptInv'
    <2>1. values' = values /\ crystal' = crystal /\ chain' = chain /\ ofPool' = ofPool /\ status' = status
      BY <1>1, <1>5
    <2>2. TextsInv'
      BY <1>5, <2>1, TextsStay DEF ScriptInv
    <2> QED BY <2>1, <2>2, QuietStep
  <1>6. CASE Say(s)
    BY <1>3, <1>6 DEF Say
  <1>7. CASE SetVariable(s)
    <2>1. PICK v : v = Value(s.value)
      OBVIOUS
    <2>2. v.is = "text" => IsText(v.words)
      BY <1>7, <2>1, ValueIsText DEF SetVariable, WellFormed, ScriptInv, TextsInv
    <2>3. Goes /\ values' = With(values, s.name, v) /\ crystal' = crystal /\ chain' = chain /\ ofPool' = ofPool
      BY <1>7, <2>1 DEF SetVariable
    <2>4. TextsInv'
      BY <1>2, <2>2, <2>3, TextSet DEF ScriptInv
    <2> QED BY <1>2, <2>3, <2>4, QuietStep
  <1>8. CASE SetMode(s)
    BY <1>4, <1>8 DEF SetMode
  <1>9. CASE TeachLink(s)
    BY <1>9, TeachLinkKeeps
  <1>10. CASE CreateFormula(s)
    BY <1>4, <1>10 DEF CreateFormula
  <1>11. CASE EvaluateFormula(s)
    BY <1>11, EvaluateFormulaKeeps
  <1>12. CASE SaveFormula(s)
    BY <1>3, <1>12 DEF SaveFormula
  <1>13. CASE DropFormula(s)
    BY <1>4, <1>13 DEF DropFormula
  <1>14. CASE UnknownFormula(s)
    BY <1>3, <1>14 DEF UnknownFormula
  <1>15. CASE CallEvolution(s)
    BY <1>15, CallEvolutionKeeps
  <1>16. CASE VerifyAnswer(s)
    BY <1>16, VerifyAnswerKeeps
  <1>17. CASE NothingToVerify(s)
    BY <1>3, <1>17 DEF NothingToVerify
  <1>18. CASE Branch(s)
    <2>1. Rest \in Seq(AllStatements) /\ s.then \in Seq(AllStatements) /\ s.else \in Seq(AllStatements)
      BY <1>18, RestIs DEF Branch, WellFormed, ScriptInv, TextsInv
    <2>2. s.then \o Rest \in Seq(AllStatements) /\ s.else \o Rest \in Seq(AllStatements)
      BY <2>1
    <2>3. todo' \in Seq(AllStatements) /\ UNCHANGED <<status, ofRun, ofPool>>
      BY <1>18, <2>2 DEF Branch
    <2> QED BY <1>5, <2>3
  <1>19. CASE Loop(s)
    <2>1. PICK again : again = [s EXCEPT !.times = @ + 1]
      OBVIOUS
    <2>2. Rest \in Seq(AllStatements) /\ s.body \in Seq(AllStatements) /\ again \in AllStatements
      BY <1>19, <2>1, RestIs DEF Loop, WellFormed, ScriptInv, TextsInv
    <2>3. s.body \o <<again>> \o Rest \in Seq(AllStatements)
      BY <2>2
    <2>4. todo' \in Seq(AllStatements) /\ UNCHANGED <<status, ofRun, ofPool>>
      BY <1>19, <2>1, <2>2, <2>3 DEF Loop
    <2> QED BY <1>5, <2>4
  <1>20. CASE TooManyLoops(s)
    BY <1>3, <1>20 DEF TooManyLoops
  <1>21. CASE NoTruth(s)
    BY <1>3, <1>21 DEF NoTruth
  <1> QED BY <1>6, <1>7, <1>8, <1>9, <1>10, <1>11, <1>12, <1>13, <1>14, <1>15, <1>16, <1>17, <1>18,
             <1>19, <1>20, <1>21 DEF Execute

\* Whatever scripts there are and however often they run: the pool and the events are as
\* ScriptInv says.
THEOREM ScriptInductive == ScriptSpec => []ScriptInv
  <1>1. ScriptInit => ScriptInv
    <2> SUFFICES ASSUME ScriptInit PROVE ScriptInv
      OBVIOUS
    <2>1. PICK none : none = <<>>
      OBVIOUS
    <2>2. IsText(none) /\ DOMAIN none = {} /\ Len(none) = 0
      <3>1. none \in Seq({}) /\ Len(none) = 0
        BY <2>1
      <3>2. IsText(none)
        BY <3>1, SequenceIsText
      <3>3. DOMAIN none = 1..0
        BY <3>1, <3>2, TextIs
      <3> QED BY <3>1, <3>2, <3>3
    <2>3. TextsInv
      BY <2>1 DEF ScriptInit, TextsInv, None
    <2>4. PoolInv
      BY <2>1, <2>2 DEF ScriptInit, PoolInv, PoolIsFine, OnlySpacingLosesLessons
    <2>5. CrystalInv
      <3>1. CrystalIsLinked /\ IsText(chain)
        BY <2>1, <2>2 DEF ScriptInit, CrystalIsLinked
      <3>2. CrystalOfScript
        BY DEF ScriptInit, CrystalOfScript, Blank
      <3> QED BY <3>1, <3>2 DEF CrystalInv
    <2> QED BY <2>3, <2>4, <2>5 DEF ScriptInv
  <1>2. ScriptInv /\ [ScriptNext]_scriptVars => ScriptInv'
    <2> SUFFICES ASSUME ScriptInv, [ScriptNext]_scriptVars PROVE ScriptInv'
      OBVIOUS
    <2>1. CASE StartScript
      BY <2>1, StartScriptKeeps
    <2>2. CASE EndScript
      <3>1. todo' = todo /\ status' = "done" /\ ofRun' = ofRun /\ ofPool' = ofPool
        BY <2>2 DEF EndScript
      <3>2. values' = values /\ crystal' = crystal /\ chain' = chain
        BY <3>1 DEF ofRun
      <3>3. TextsInv'
        BY <3>1, <3>2, TextsStay DEF ScriptInv, TextsInv
      <3> QED BY <3>1, <3>2, <3>3, QuietStep
    <2>3. ASSUME NEW s \in Statements \cup {todo[i] : i \in DOMAIN todo}, Execute(s)
          PROVE  ScriptInv'
      <3>1. todo \in Seq(AllStatements)
        BY DEF ScriptInv, TextsInv
      <3>2. s \in AllStatements
        BY <2>3, <3>1, ScriptAssumption, LenProperties, ElementOfSeq
      <3> QED BY <2>3, <3>2, ExecuteKeeps, ScriptAssumption
    <2>4. CASE UNCHANGED scriptVars
      <3>1. todo' = todo /\ status' = status /\ values' = values /\ crystal' = crystal /\ chain' = chain /\ ofPool' = ofPool
        BY <2>4 DEF scriptVars, ofPool
      <3>2. TextsInv'
        BY <3>1, TextsStay DEF ScriptInv, TextsInv
      <3> QED BY <3>1, <3>2, QuietStep
    <2> QED BY <2>1, <2>2, <2>3, <2>4 DEF ScriptNext
  <1> QED BY <1>1, <1>2, PTL DEF ScriptSpec

\* The journal of a script confirms no answer but the one it has just recorded, links each
\* evaluation to its lesson, and guesses take the place of lessons
\* only in questions with doubled spaces.
THEOREM ScriptsFaithful == ScriptSpec => []ScriptsKeepFaith
  <1>1. ScriptInv => ScriptsKeepFaith
    BY DEF ScriptInv, PoolInv, CrystalInv, ScriptsKeepFaith
  <1> QED BY <1>1, ScriptInductive, PTL
=============================================================================
