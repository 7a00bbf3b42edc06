----------------------------- MODULE CloudStorage -----------------------------
(***************************************************************************)
(* cloud-storage/server.js.  Users, their quota and the records of their    *)
(* files are one JSON file; each request reads it, does its work, and       *)
(* writes it back whole.  Node runs other requests wherever a request       *)
(* awaits, so that requests overlap and write over each other's records.    *)
(*                                                                         *)
(* Reading is one step.  Writing is two, since writeFile empties the file    *)
(* first: who reads in between finds no JSON and goes on with an empty       *)
(* database, and of two that write at once the file may keep parts of both.  *)
(* Each file operation may fail, the write of data.json when it is emptied   *)
(* already.  Requests that only read, or fail before they change anything,   *)
(* are left out, and so is the uploaded original, which no other request     *)
(* sees.                                                                     *)
(***************************************************************************)
EXTENDS Integers, FiniteSets, FiniteSetsExt

CONSTANTS
    Names,          \* user names
    Workers,        \* requests that may be at work at once
    Sizes,          \* sizes of compressed files
    Limit,          \* storage.limit
    Torn,           \* a data.json that does not parse, or is not there
    NoUser,
    MaxRequests     \* bound: requests

UserIds == [name : Names, nth : Nat]
UserEntries == [id : UserIds, used : Nat]
FileEntries(n) == [id : 1..n, userId : UserIds, size : Sizes]
Databases(n) == [users : [Names -> UserEntries \cup {NoUser}], files : SUBSET FileEntries(n)]

ASSUME CloudAssumption ==
    /\ Sizes \subseteq Nat /\ Limit \in Nat /\ MaxRequests \in Nat
    /\ NoUser \notin UserEntries
    /\ Torn \notin Databases(MaxRequests)

VARIABLES
    db,             \* data.json: Torn, or what it holds
    request,        \* request[w]: where the request stands, and its copy of it
    compressed,     \* files in COMPRESSED_DIR
    logins,         \* tokens given out: user ids, [name, nth]
    requests,       \* requests so far; numbers users and files
    confirmed,      \* history: files whose upload was answered, and their deletion was not
    lost,           \* history: those that requests which failed have taken with them
    emptied,        \* history: a failed write has left data.json empty
    disturbed       \* history: requests have overlapped, or the server died

histories == <<confirmed, lost, emptied>>
cloudVars == <<db, request, compressed, logins, requests, histories, disturbed>>

EmptyDatabase == [users |-> [n \in Names |-> NoUser], files |-> {}]
Idle == [at |-> "idle"]

\* getDatabase.
Database == IF db = Torn THEN EmptyDatabase ELSE db

CloudInit ==
    /\ db = Torn
    /\ request = [w \in Workers |-> Idle]
    /\ compressed = {} /\ logins = {} /\ confirmed = {} /\ lost = {}
    /\ requests = 0
    /\ emptied = FALSE /\ disturbed = FALSE

\* A request comes to worker w, and reads the database.
Begin(w, state) ==
    /\ request[w] = Idle
    /\ requests < MaxRequests
    /\ requests' = requests + 1
    /\ request' = [request EXCEPT ![w] = state]
    /\ disturbed' = (disturbed \/ \E v \in Workers : request[v] # Idle)
    /\ UNCHANGED <<db, compressed, logins, histories>>

WithUser(d, n, id) == [d EXCEPT !.users[n] = [id |-> id, used |-> 0]]

\* register: the name must be free, in what this request has read.
RegisterUser(w, n) ==
    LET id == [name |-> n, nth |-> requests + 1] IN
    /\ Database.users[n] = NoUser
    /\ Begin(w, [at |-> "save", kind |-> "register", about |-> id,
                 db |-> WithUser(Database, n, id)])

\* upload: the user is looked up by the name in the token, the record is under its id.
Upload(w, id, size) ==
    LET user == Database.users[id.name]
    IN  /\ id \in logins
        /\ user # NoUser
        /\ size <= Limit - user.used
        /\ Begin(w, [at |-> "store", kind |-> "upload", db |-> Database,
                     about |-> [id |-> requests + 1, userId |-> id, size |-> size]])

\* A request whose copy is ready to be saved.
ToSave(r, copy) == [r EXCEPT !.at = "save", !.db = copy]

WithFile(d, file) ==
    [d EXCEPT !.files = @ \cup {file}, !.users[file.userId.name].used = @ + file.size]

\* The compressed file is written, then the record goes into the copy.
Store(w) ==
    LET r == request[w] IN
    /\ r.at = "store"
    /\ compressed' = compressed \cup {r.about.id}
    /\ request' = [request EXCEPT ![w] = ToSave(r, WithFile(r.db, r.about))]
    /\ UNCHANGED <<db, logins, requests, histories, disturbed>>

\* It cannot be written whole, or the original behind it not removed: the upload is
\* answered 500, and the file may stay.
StoreFails(w) ==
    /\ request[w].at = "store"
    /\ compressed' \in {compressed, compressed \cup {request[w].about.id}}
    /\ request' = [request EXCEPT ![w] = Idle]
    /\ UNCHANGED <<db, logins, requests, histories, disturbed>>

Delete(w, file) ==
    /\ file \in Database.files
    /\ file.userId \in logins
    /\ Begin(w, [at |-> "unlink", kind |-> "delete", about |-> file, db |-> Database])

\* Mutant of Freed: the record goes, what it used stays.
MutFreed(d, file) == [d EXCEPT !.files = @ \ {file}]

Freed(d, file) ==
    [d EXCEPT !.files = @ \ {file}, !.users[file.userId.name].used = @ - file.size]

\* The file whose data a request removes.
Going(r) == IF r.kind = "delete" THEN {r.about} ELSE {}

\* The file is removed, if it can be, then its record in any case.
Unlink(w) ==
    LET r == request[w] IN
    /\ r.at = "unlink"
    /\ compressed' \in {compressed, compressed \ {r.about.id}}
    /\ request' = [request EXCEPT ![w] = ToSave(r, Freed(r.db, r.about))]
    /\ UNCHANGED <<db, logins, requests, histories, disturbed>>

\* saveDatabase: the file is emptied,
StartSave(w) ==
    /\ request[w].at = "save"
    /\ request' = [request EXCEPT ![w].at = "saving"]
    /\ db' = Torn
    /\ UNCHANGED <<compressed, logins, requests, histories, disturbed>>

\* What the answer to a request tells the user he has.
FilesAnswered(r) ==
    CASE r.kind = "upload" -> confirmed \cup {r.about}
      [] r.kind = "delete" -> confirmed \ {r.about}
      [] OTHER -> confirmed

LoginsAnswered(r) == IF r.kind = "register" THEN logins \cup {r.about} ELSE logins

\* w is done; who writes at the same time writes over what it has left.
SaveIsOver(w) ==
    request' = [v \in Workers |->
        IF v = w THEN Idle
        ELSE IF request[v].at = "saving" /\ request[w].at # "save"
        THEN [request[v] EXCEPT !.at = "mixed"]
        ELSE request[v]]

\* written, and the request is answered.
EndSave(w) ==
    LET r == request[w] IN
    /\ r.at \in {"saving", "mixed"}
    /\ db' = r.db \/ (r.at = "mixed" /\ db' = Torn)
    /\ SaveIsOver(w)
    /\ logins' = LoginsAnswered(r)
    /\ confirmed' = FilesAnswered(r)
    /\ UNCHANGED <<compressed, requests, lost, emptied, disturbed>>

\* What data.json may hold when the requests of these end.
MayBeLeft(workers) ==
    {db} \cup {request[w].db : w \in {v \in workers : request[v].at \in {"saving", "mixed"}}}

\* The file cannot be opened, or cannot be written whole, a disk that is full: an upload
\* or a deletion is answered 500; in a registration nobody catches the error, and the
\* server ends.
SaveFails(w) ==
    LET r == request[w]
        cutOff == IF r.at = "save" THEN {} ELSE {Torn}
        empties == db' \in cutOff
    IN  /\ r.at \in {"save", "saving", "mixed"}
        /\ \/ r.kind # "register" /\ SaveIsOver(w) /\ db' \in {db} \cup cutOff
           \/ /\ r.kind = "register"
              /\ request' = [v \in Workers |-> Idle]
              /\ db' \in MayBeLeft(Workers \ {w}) \cup cutOff
        /\ emptied' = (emptied \/ empties)
        /\ lost' = lost \cup (IF empties THEN confirmed ELSE {}) \cup Going(r)
        /\ UNCHANGED <<compressed, logins, requests, confirmed, disturbed>>

\* login: the id that the database has now.
Login(n) ==
    /\ Database.users[n] # NoUser
    /\ logins' = logins \cup {Database.users[n].id}
    /\ logins' # logins
    /\ UNCHANGED <<db, request, compressed, requests, histories, disturbed>>

\* The server dies, perhaps with a save just done and not answered, and is started
\* again; tokens stay valid.
Die ==
    /\ \E w \in Workers : request[w] # Idle
    /\ db' \in MayBeLeft(Workers)
    /\ request' = [w \in Workers |-> Idle]
    /\ disturbed' = TRUE
    /\ UNCHANGED <<compressed, logins, requests, histories>>

CloudNext ==
    \/ \E w \in Workers :
        \/ \E n \in Names : RegisterUser(w, n)
        \/ \E id \in logins, size \in Sizes : Upload(w, id, size)
        \/ \E file \in Database.files : Delete(w, file)
        \/ Store(w) \/ StoreFails(w) \/ Unlink(w)
        \/ StartSave(w) \/ EndSave(w) \/ SaveFails(w)
    \/ \E n \in Names : Login(n)
    \/ Die

CloudSpec == CloudInit /\ [][CloudNext]_cloudVars

-----------------------------------------------------------------------------
Copies == {Database} \cup {request[w].db : w \in {v \in Workers : request[v] # Idle}}

\* A user's files, and what they amount to.
FilesOf(files, n) == {f \in files : f.userId.name = n}
Amount(files) == FoldSet(LAMBDA f, sum : sum + f.size, 0, files)

\* Requests may overlap, lose each other's records and even the whole database: each
\* copy of it still charges a user exactly for the files it lists under his name, and
\* no one for more than the limit.
QuotaIsSum ==
    \A d \in Copies, n \in Names :
        LET used == IF d.users[n] = NoUser THEN 0 ELSE d.users[n].used
        IN  used = Amount(FilesOf(d.files, n)) /\ used <= Limit

\* Without overlap and crash, whatever fails: only confirmed files are on record, and
\* a confirmed file is on record and on disk unless a failed write has left data.json
\* empty since, which takes all of them, or its own deletion failed after its data were
\* gone.  While data.json was never left empty, each file is under its user's present id.
ConfirmedAreKept ==
    ~disturbed /\ (\A w \in Workers : request[w] = Idle) =>
        /\ Database.files \subseteq confirmed
        /\ \A f \in confirmed \ lost : f \in Database.files /\ f.id \in compressed
        /\ ~emptied => \A f \in Database.files : Database.users[f.userId.name].id = f.userId

CloudKeepsBooks == QuotaIsSum /\ ConfirmedAreKept

-----------------------------------------------------------------------------
(* Why: the inductive invariant *)

\* A copy of the database that keeps its books, up to the nth request.
BookOK(d, n) ==
    /\ d \in Databases(n) /\ IsFiniteSet(d.files)
    /\ \A f, g \in d.files : f.id = g.id => f = g
    /\ \A f \in d.files : d.users[f.userId.name] # NoUser
    /\ \A m \in Names : d.users[m] # NoUser =>
            /\ d.users[m].used = Amount(FilesOf(d.files, m)) /\ d.users[m].used <= Limit
            /\ d.users[m].id.name = m

\* A request under way: an upload has room for its file, a deletion has its file.
RequestOK(r, n) ==
    /\ r = [at |-> r.at, kind |-> r.kind, about |-> r.about, db |-> r.db]
    /\ BookOK(r.db, n)
    /\ \/ /\ r.at = "store" /\ r.kind = "upload"
          /\ r.about \in FileEntries(n)
          /\ \A f \in r.db.files : f.id # r.about.id
          /\ r.db.users[r.about.userId.name] # NoUser
          /\ r.about.size <= Limit - r.db.users[r.about.userId.name].used
       \/ r.at = "unlink" /\ r.kind = "delete" /\ r.about \in r.db.files
       \/ /\ r.at \in {"save", "saving", "mixed"}
          /\ \/ r.kind \in {"upload", "delete"}
             \/ r.kind = "register" /\ r.about \in UserIds

\* Only files said to be there are on record; those not lost are, and on disk but for
\* those that have gone; and every token is that of a user on record.
OnRecord(d, files, tokens, gone) ==
    /\ d.files \subseteq files
    /\ \A f \in files \ lost : f \in d.files /\ (f.id \in compressed \/ f \in gone)
    /\ ~emptied =>
        /\ \A f \in d.files : d.users[f.userId.name].id = f.userId
        /\ \A id \in tokens : d.users[id.name] # NoUser /\ d.users[id.name].id = id

\* The one request under way has every user in its copy, what its answer will say is
\* what its copy says by the time it is saved, and until then data.json says what the
\* answers before it did.
WorksAlone(r) ==
    /\ \A n \in Names : Database.users[n] # NoUser =>
            r.db.users[n] # NoUser /\ r.db.users[n].id = Database.users[n].id
    /\ \/ /\ r.at \in {"store", "unlink"} /\ OnRecord(r.db, confirmed, logins, {})
          /\ r.at = "store" => r.about.userId \in logins
       \/ r.at \in {"save", "saving"} /\ OnRecord(r.db, FilesAnswered(r), LoginsAnswered(r), {})
    /\ IF r.at = "saving" THEN db = Torn ELSE OnRecord(Database, confirmed, logins, Going(r))

OneAtATime ==
    \/ (\A w \in Workers : request[w] = Idle) /\ OnRecord(Database, confirmed, logins, {})
    \/ \E w \in Workers :
        /\ request[w] # Idle /\ \A v \in Workers : request[v] # Idle => v = w
        /\ WorksAlone(request[w])

CloudInv ==
    /\ requests \in 0..MaxRequests /\ logins \subseteq UserIds
    /\ db = Torn \/ BookOK(db, requests)
    /\ request = [w \in Workers |-> request[w]]
    /\ \A w \in Workers : request[w] # Idle => RequestOK(request[w], requests)
    /\ ~disturbed => OneAtATime
=============================================================================
