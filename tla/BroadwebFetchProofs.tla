------------------------- MODULE BroadwebFetchProofs -------------------------
(***************************************************************************)
(* What TLAPS proves of BroadwebFetch, for any number of threads,          *)
(* gateways, file names and fetches.  The inductive invariant adds what a  *)
(* thread relies on between two of its steps: the file it writes is its    *)
(* own (Owned), the cached gateway is left only after the first one failed *)
(* (FallsBack), and the fetch that the status names is still trying        *)
(* gateways (Tries).  For the list of the downloads it adds what every     *)
(* write to the index names (IndexInv).                                    *)
(***************************************************************************)
EXTENDS BroadwebFetch, SequenceTheorems, WellFoundedInduction, TLAPS

Trying(t) == pc[t] \in {"attempt", "request", "failed"} /\ job[t].request.ipfs

(* Only fetches through gateways come to an attempt, or to giving up. *)
Routed == \A t \in Threads : pc[t] \in {"attempt", "failed"} => job[t].request.ipfs

Owned ==
    \A t \in Threads :
       /\ pc[t] \in {"write", "record"} =>
             files[job[t].file] # None /\ files[job[t].file].by = job[t].id
       /\ pc[t] = "record" => files[job[t].file].whole

FallsBack ==
    \A t \in Threads :
       /\ active[t] # 1 => firstFailed[t]
       /\ Trying(t) => /\ job[t].start = active[t]
                       /\ job[t].tried > 0 /\ job[t].start = 1 => firstFailed[t]

Tries ==
    status.kind \in InProgress /\ status.valid =>
       \E t \in Threads : Trying(t) /\ job[t].id = status.target

IInv == /\ TypeOK
        /\ Routed
        /\ Owned
        /\ DownloadsKeepTheirFiles
        /\ FallsBack
        /\ Tries

-----------------------------------------------------------------------------

(* The constants are what FetchAssumption says. *)
LEMMA Constants ==
    /\ Gateways \in Nat /\ Gateways > 0
    /\ Candidates \in Nat /\ Candidates > 0
    /\ Parts \in Nat /\ Parts > 0
    /\ MaxFetches \in Nat /\ MaxFailures \in Nat
    /\ Taken \subseteq Name
    /\ \A r \in Requests : r.ipfs \in BOOLEAN /\ r.valid \in BOOLEAN /\ r.navigation \in BOOLEAN
  BY FetchAssumption DEF Name

(* A thread without a fetch has a job of the right type. *)
LEMMA NoJobType == NoJob \in Job
  BY Constants DEF NoJob, NewJob, Job, Gateway, Name

(* The gateway attempted is one of the gateways, and at first the cached. *)
LEMMA AttemptedType ==
    ASSUME TypeOK, NEW t \in Threads
    PROVE  /\ Attempted(t) \in Gateway
           /\ job[t].tried = 0 => Attempted(t) = job[t].start
  <1>1. job[t].start \in Gateway /\ job[t].tried \in Nat
    BY DEF TypeOK, Job
  <1>2. job[t].start + job[t].tried - 1 \in Nat
    BY <1>1, Constants DEF Gateway
  <1>3. (job[t].start + job[t].tried - 1) % Gateways \in 0..(Gateways - 1)
    BY <1>2, Constants
  <1>4. job[t].tried = 0 => (job[t].start + job[t].tried - 1) % Gateways = job[t].start - 1
    BY <1>1, Constants DEF Gateway
  <1> QED BY <1>1, <1>3, <1>4, Constants DEF Attempted, Gateway

-----------------------------------------------------------------------------
(* Each step moves one thread t to a label l and a job j. *)

Labels == {"idle", "attempt", "request", "failed", "respond", "create", "write", "record"}

Moves(t, l, j) ==
    /\ pc' = [pc EXCEPT ![t] = l]
    /\ job' = [job EXCEPT ![t] = j]

(* Such a step is well typed when the job fits the label. *)
Fits(l, j) ==
    /\ l \in Labels /\ j \in Job
    /\ IF l = "idle" THEN j = NoJob ELSE j.id \in 1..fetches' /\ j.request \in Requests
    /\ l \in {"attempt", "request"} => j.tried < Gateways

(* The other threads stay where they are. *)
LEMMA OthersStay ==
    ASSUME TypeOK, NEW t \in Threads, NEW l, NEW j, Moves(t, l, j)
    PROVE  /\ pc'[t] = l /\ job'[t] = j
           /\ \A u \in Threads : u # t => pc'[u] = pc[u] /\ job'[u] = job[u]
  BY DEF TypeOK, Moves

(* The types of labels and jobs are kept. *)
LEMMA MoveKeepsTypes ==
    ASSUME TypeOK, NEW t \in Threads, NEW l, NEW j, Moves(t, l, j), Fits(l, j),
           fetches' \in {fetches, fetches + 1}
    PROVE  /\ pc' \in [Threads -> Labels]
           /\ job' \in [Threads -> Job]
           /\ \A u \in Threads :
                 /\ IF pc'[u] = "idle" THEN job'[u] = NoJob
                    ELSE job'[u].id \in 1..fetches' /\ job'[u].request \in Requests
                 /\ pc'[u] \in {"attempt", "request"} => job'[u].tried < Gateways
  <1>1. fetches \in Nat /\ 1..fetches \subseteq 1..fetches'
    BY Constants DEF TypeOK
  <1>2. pc' \in [Threads -> Labels] /\ job' \in [Threads -> Job]
    BY DEF Moves, Fits, TypeOK, Labels
  <1>3. ASSUME NEW u \in Threads
        PROVE  /\ IF pc'[u] = "idle" THEN job'[u] = NoJob
                  ELSE job'[u].id \in 1..fetches' /\ job'[u].request \in Requests
               /\ pc'[u] \in {"attempt", "request"} => job'[u].tried < Gateways
    <2>1. CASE u = t
      BY <2>1, OthersStay DEF Fits
    <2>2. CASE u # t
      BY <2>2, <1>1, OthersStay DEF TypeOK
    <2> QED BY <2>1, <2>2
  <1> QED BY <1>2, <1>3

(* A step that leaves the disk alone. *)
LEMMA DiskStays ==
    ASSUME IInv, NEW t \in Threads, NEW l, NEW j, Moves(t, l, j),
           UNCHANGED <<files, index, returned>>, l \notin {"write", "record"}
    PROVE  Owned' /\ DownloadsKeepTheirFiles'
  <1>1. Owned'
    BY OthersStay DEF IInv, Owned
  <1>2. DownloadsKeepTheirFiles'
    BY DEF IInv, DownloadsKeepTheirFiles
  <1> QED BY <1>1, <1>2

(* A step that leaves gateways and status alone, of a thread that does not *)
(* try gateways, or begins to.                                             *)
LEMMA ReportStays ==
    ASSUME IInv, NEW t \in Threads, NEW l, NEW j, Moves(t, l, j),
           UNCHANGED <<active, status, firstFailed>>, ~Trying(t),
           \/ ~(l \in {"attempt", "request", "failed"} /\ j.request.ipfs)
           \/ j.start = active[t] /\ j.tried = 0
    PROVE  FallsBack' /\ Tries'
  <1>1. FallsBack'
    <2> SUFFICES ASSUME NEW u \in Threads
                 PROVE /\ active[u] # 1 => firstFailed[u]
                       /\ Trying(u)' => /\ job'[u].start = active[u]
                                        /\ job'[u].tried > 0 /\ job'[u].start = 1 => firstFailed[u]
      BY DEF FallsBack
    <2>1. CASE u = t
      BY <2>1, OthersStay DEF IInv, FallsBack, Trying
    <2>2. CASE u # t
      BY <2>2, OthersStay DEF IInv, FallsBack, Trying
    <2> QED BY <2>1, <2>2
  <1>2. Tries'
    <2> SUFFICES ASSUME status.kind \in InProgress, status.valid
                 PROVE  \E u \in Threads : Trying(u)' /\ job'[u].id = status.target
      BY DEF Tries
    <2>1. PICK u \in Threads : Trying(u) /\ job[u].id = status.target
      BY DEF IInv, Tries
    <2>2. u # t
      BY <2>1
    <2> QED BY <2>1, <2>2, OthersStay DEF IInv, Trying
  <1> QED BY <1>1, <1>2

-----------------------------------------------------------------------------
(* The steps. *)

StatusType(n) == [kind : {"idle", "fetching", "switching", "complete", "error"},
                  target : 0..n, valid : BOOLEAN]
FilesType(n) == [Name -> {None} \cup [by : 0..n, whole : BOOLEAN]]
IndexType == Seq([file : 0..Candidates, part : 0..Parts])

(* The types of a move and of the rest make up those of the state. *)
LEMMA TypeOfParts ==
    ASSUME TypeOK, NEW t \in Threads, NEW l, NEW j, Moves(t, l, j), Fits(l, j),
           fetches' \in {fetches, fetches + 1},
           active' \in [Threads -> Gateway], firstFailed' \in [Threads -> BOOLEAN],
           status' \in StatusType(fetches'), files' \in FilesType(fetches'),
           index' \in IndexType, returned' \subseteq [by : 1..fetches', file : Name],
           fetches' \in 0..MaxFetches, failures' \in 0..MaxFailures
    PROVE  TypeOK'
  BY MoveKeepsTypes DEF TypeOK, StatusType, FilesType, IndexType, Labels

(* The same for a step that leaves the disk and the fetches alone. *)
LEMMA TypeOfReport ==
    ASSUME TypeOK, NEW t \in Threads, NEW l, NEW j, Moves(t, l, j), Fits(l, j),
           active' \in [Threads -> Gateway], firstFailed' \in [Threads -> BOOLEAN],
           status' \in StatusType(fetches), UNCHANGED <<Disk, fetches>>
    PROVE  TypeOK'
  <1>1. /\ fetches' \in 0..MaxFetches /\ failures' \in 0..MaxFailures
        /\ files' \in FilesType(fetches') /\ index' \in IndexType
        /\ returned' \subseteq [by : 1..fetches', file : Name]
        /\ fetches' = fetches
    BY DEF TypeOK, Disk, FilesType, IndexType
  <1> QED BY <1>1, TypeOfParts DEF StatusType

(* A status that a thread sets has its type. *)
LEMMA StatusTyped ==
    ASSUME TypeOK, NEW t \in Threads, pc[t] # "idle",
           NEW k \in {"fetching", "switching", "complete", "error"}, SetStatus(t, k)
    PROVE  status' \in StatusType(fetches)
  <1>1. job[t].id \in 0..fetches /\ job[t].request.valid \in BOOLEAN
    BY Constants DEF TypeOK
  <1> QED BY <1>1 DEF SetStatus, StatusType

(* Moving keeps Routed when the job fits. *)
LEMMA MoveKeepsRouted ==
    ASSUME IInv, NEW t \in Threads, NEW l, NEW j, Moves(t, l, j),
           l \in {"attempt", "failed"} => j.request.ipfs
    PROVE  Routed'
  BY OthersStay DEF IInv, Routed

(* The thread that sets the status and goes on trying is the one it names. *)
LEMMA TriesOn ==
    ASSUME IInv, NEW t \in Threads, NEW l, NEW j, Moves(t, l, j), NEW k, SetStatus(t, k),
           l \in {"attempt", "request", "failed"}, j.request.ipfs, j.id = job[t].id
    PROVE  Tries'
  <1>1. Trying(t)' /\ job'[t].id = status'.target
    BY OthersStay DEF IInv, Trying, SetStatus
  <1> QED BY <1>1 DEF Tries

(* The cache and what is known of the first gateway, for one thread that   *)
(* moves.                                                                  *)
LEMMA FallsBackOn ==
    ASSUME IInv, NEW t \in Threads, NEW l, NEW j, Moves(t, l, j), NEW a, NEW f,
           active' = [active EXCEPT ![t] = a], firstFailed' = [firstFailed EXCEPT ![t] = f],
           a # 1 => f,
           l \in {"attempt", "request", "failed"} /\ j.request.ipfs =>
              j.start = a /\ (j.tried > 0 /\ j.start = 1 => f)
    PROVE  FallsBack'
  <1> SUFFICES ASSUME NEW u \in Threads
               PROVE /\ active'[u] # 1 => firstFailed'[u]
                     /\ Trying(u)' => /\ job'[u].start = active'[u]
                                      /\ job'[u].tried > 0 /\ job'[u].start = 1 => firstFailed'[u]
    BY DEF FallsBack
  <1>1. CASE u = t
    <2>1. active'[u] = a /\ firstFailed'[u] = f /\ pc'[u] = l /\ job'[u] = j
      BY <1>1, OthersStay DEF IInv, TypeOK
    <2> QED BY <2>1 DEF Trying
  <1>2. CASE u # t
    <2>1. active'[u] = active[u] /\ firstFailed'[u] = firstFailed[u]
      BY <1>2 DEF IInv, TypeOK
    <2> QED BY <1>2, <2>1, OthersStay DEF IInv, FallsBack, Trying
  <1> QED BY <1>1, <1>2

(* A thread that fetches has a job. *)
LEMMA JobTyped ==
    ASSUME TypeOK, NEW t \in Threads, pc[t] # "idle"
    PROVE  /\ job[t] \in Job /\ job[t].id \in 1..fetches /\ job[t].request \in Requests
           /\ pc[t] \in Labels
           /\ pc[t] \in {"attempt", "request"} => job[t].tried < Gateways
  BY DEF TypeOK, Labels

(* Returning is a move that fits. *)
LEMMA Returns ==
    ASSUME NEW t \in Threads, Return(t)
    PROVE  Moves(t, "idle", NoJob) /\ Fits("idle", NoJob)
  BY NoJobType DEF Return, Goto, Moves, Fits, Labels

(* A thread that returns after it set the status to its end. *)
LEMMA EndOfProgress ==
    ASSUME NEW t \in Threads, NEW k \in {"complete", "error"}, SetStatus(t, k)
    PROVE  Tries'
  BY DEF SetStatus, Tries, InProgress

(* The cache, for a thread that is done with the gateways. *)
LEMMA FallsBackDone ==
    ASSUME IInv, NEW t \in Threads, NEW l, NEW j, Moves(t, l, j), NEW a, NEW f,
           active' = [active EXCEPT ![t] = a], firstFailed' = [firstFailed EXCEPT ![t] = f],
           a # 1 => f,
           l \notin {"attempt", "request", "failed"}
    PROVE  FallsBack'
  BY FallsBackOn

(* A new fetch keeps IInv. *)
LEMMA FetchHttpKeeps ==
    ASSUME IInv, NEW t \in Threads, NEW r \in Requests, FetchHttp(t, r)
    PROVE  IInv'
  <1> DEFINE l == IF r.ipfs THEN "attempt" ELSE "request"
             j == NewJob(fetches + 1, r, active[t])
  <1>1. Moves(t, l, j)
    BY DEF FetchHttp, Goto, Moves
  <1>2. /\ j.id = fetches + 1 /\ j.request = r /\ j.start = active[t] /\ j.tried = 0
        /\ l \in {"attempt", "request"} /\ (l = "attempt" => r.ipfs)
    BY DEF NewJob
  <1>3. fetches' = fetches + 1 /\ fetches \in Nat /\ fetches' \in 0..MaxFetches
    BY Constants DEF FetchHttp, IInv, TypeOK
  <1>4. active[t] \in Gateway
    BY DEF IInv, TypeOK
  <1>5. j \in Job
    BY <1>3, <1>4, Constants DEF NewJob, Job, Name
  <1> HIDE DEF l, j
  <1>6. Fits(l, j)
    BY <1>2, <1>3, <1>5, Constants DEF Fits, Labels
  <1>7. /\ active' \in [Threads -> Gateway] /\ firstFailed' \in [Threads -> BOOLEAN]
        /\ index' \in IndexType /\ failures' \in 0..MaxFailures
    BY DEF FetchHttp, Report, Disk, IInv, TypeOK, IndexType
  <1>8. status' \in StatusType(fetches') /\ files' \in FilesType(fetches')
    <2>1. 0..fetches \subseteq 0..fetches'
      BY <1>3
    <2>2. status \in StatusType(fetches) /\ files \in FilesType(fetches)
      BY DEF IInv, TypeOK, StatusType, FilesType
    <2>3. StatusType(fetches) \subseteq StatusType(fetches')
      BY <2>1 DEF StatusType
    <2>4. FilesType(fetches) \subseteq FilesType(fetches')
      BY <2>1 DEF FilesType
    <2> QED BY <2>2, <2>3, <2>4 DEF FetchHttp, Report, Disk
  <1>9. returned' \subseteq [by : 1..fetches', file : Name]
    BY <1>3 DEF FetchHttp, Disk, IInv, TypeOK
  <1>10. TypeOK'
    BY <1>1, <1>3, <1>6, <1>7, <1>8, <1>9, TypeOfParts DEF IInv
  <1>11. Routed'
    BY <1>1, <1>2, MoveKeepsRouted
  <1>12. Owned' /\ DownloadsKeepTheirFiles'
    BY <1>1, <1>2, DiskStays DEF FetchHttp, Disk
  <1>13. FallsBack' /\ Tries'
    BY <1>1, <1>2, ReportStays DEF FetchHttp, Report, Trying
  <1> QED BY <1>10, <1>11, <1>12, <1>13 DEF IInv

(* Announcing an attempt keeps IInv. *)
LEMMA AttemptGatewayKeeps ==
    ASSUME IInv, NEW t \in Threads, AttemptGateway(t)
    PROVE  IInv'
  <1>1. pc[t] = "attempt" /\ job[t].request.ipfs /\ job[t] \in Job
    BY JobTyped DEF AttemptGateway, IInv, Routed
  <1>2. PICK k \in {"fetching", "switching"} : SetStatus(t, k)
    BY DEF AttemptGateway
  <1>3. /\ active' = active /\ firstFailed' = firstFailed
        /\ UNCHANGED <<Disk, fetches>>
    BY DEF AttemptGateway
  <1>4. /\ active' \in [Threads -> Gateway] /\ firstFailed' \in [Threads -> BOOLEAN]
        /\ status' \in StatusType(fetches)
    BY <1>1, <1>2, <1>3, StatusTyped DEF IInv, TypeOK
  <1>5. CASE job[t].request.valid
    <2>1. Moves(t, "request", job[t])
      BY <1>5 DEF AttemptGateway, Goto, Moves, IInv, TypeOK
    <2>2. Fits("request", job[t])
      BY <1>1, <1>3, JobTyped DEF Fits, Labels, IInv
    <2>3. TypeOK'
      BY <1>3, <1>4, <2>1, <2>2, TypeOfReport DEF IInv
    <2>4. Routed' /\ Owned' /\ DownloadsKeepTheirFiles'
      BY <1>3, <2>1, MoveKeepsRouted, DiskStays DEF Disk
    <2>5. FallsBack'
      <3>1. /\ active' = [active EXCEPT ![t] = active[t]]
            /\ firstFailed' = [firstFailed EXCEPT ![t] = firstFailed[t]]
        BY <1>3 DEF IInv, TypeOK
      <3>2. /\ active[t] # 1 => firstFailed[t]
            /\ job[t].start = active[t]
            /\ job[t].tried > 0 /\ job[t].start = 1 => firstFailed[t]
        BY <1>1 DEF IInv, FallsBack, Trying
      <3> QED BY <2>1, <3>1, <3>2, FallsBackOn
    <2>6. Tries'
      BY <1>1, <1>2, <2>1, TriesOn
    <2> QED BY <2>3, <2>4, <2>5, <2>6 DEF IInv
  <1>6. CASE ~job[t].request.valid
    <2>1. Moves(t, "idle", NoJob) /\ Fits("idle", NoJob)
      BY <1>6, Returns DEF AttemptGateway
    <2>2. TypeOK'
      BY <1>3, <1>4, <2>1, TypeOfReport DEF IInv
    <2>3. Routed' /\ Owned' /\ DownloadsKeepTheirFiles'
      BY <1>3, <2>1, MoveKeepsRouted, DiskStays DEF Disk
    <2>4. FallsBack'
      <3>1. /\ active' = [active EXCEPT ![t] = active[t]]
            /\ firstFailed' = [firstFailed EXCEPT ![t] = firstFailed[t]]
            /\ active[t] # 1 => firstFailed[t]
        BY <1>3 DEF IInv, TypeOK, FallsBack
      <3>2. "idle" \notin {"attempt", "request", "failed"}
        OBVIOUS
      <3> QED BY <2>1, <3>1, <3>2, FallsBackDone
    <2>5. Tries'
      BY <1>2, <1>6 DEF SetStatus, Tries
    <2> QED BY <2>2, <2>3, <2>4, <2>5 DEF IInv
  <1> QED BY <1>5, <1>6

(* A usable response keeps IInv. *)
LEMMA UsableResponseKeeps ==
    ASSUME IInv, NEW t \in Threads, UsableResponse(t)
    PROVE  IInv'
  <1> DEFINE j == [job[t] EXCEPT !.last = "ok"]
  <1>1. Moves(t, "respond", j)
    BY DEF UsableResponse, Goto, Moves, IInv, TypeOK
  <1>2. pc[t] = "request" /\ job[t].request.ipfs /\ SetStatus(t, "complete")
    BY DEF UsableResponse
  <1>3. UNCHANGED <<firstFailed, fetches, Disk>>
    BY DEF UsableResponse
  <1>4. Fits("respond", j)
    <2>1. /\ job[t] \in Job /\ job[t].id \in 1..fetches /\ job[t].request \in Requests
      BY <1>2, JobTyped DEF IInv
    <2>2. j \in Job /\ j.id = job[t].id /\ j.request = job[t].request
      BY <2>1 DEF Job
    <2> QED BY <1>3, <2>1, <2>2 DEF Fits, Labels
  <1> HIDE DEF j
  <1>5. Attempted(t) \in Gateway /\ (job[t].tried = 0 => Attempted(t) = job[t].start)
    BY AttemptedType DEF IInv
  <1>6. active' = [active EXCEPT ![t] = Attempted(t)]
    BY DEF UsableResponse
  <1>7. TypeOK'
    <2>1. active' \in [Threads -> Gateway] /\ firstFailed' \in [Threads -> BOOLEAN]
      BY <1>3, <1>5, <1>6 DEF IInv, TypeOK
    <2>2. status' \in StatusType(fetches)
      BY <1>2, StatusTyped DEF IInv
    <2> QED BY <1>1, <1>3, <1>4, <2>1, <2>2, TypeOfReport DEF IInv
  <1>8. Routed' /\ Owned' /\ DownloadsKeepTheirFiles'
    BY <1>1, <1>3, MoveKeepsRouted, DiskStays DEF Disk
  <1>9. FallsBack'
    <2>1. Attempted(t) # 1 => firstFailed[t]
      <3>1. /\ active[t] # 1 => firstFailed[t]
            /\ job[t].start = active[t]
            /\ job[t].tried > 0 /\ job[t].start = 1 => firstFailed[t]
        BY <1>2 DEF IInv, FallsBack, Trying
      <3>2. job[t].tried \in Nat
        BY DEF IInv, TypeOK, Job
      <3> QED BY <1>5, <3>1, <3>2
    <2>2. firstFailed' = [firstFailed EXCEPT ![t] = firstFailed[t]]
      BY <1>3 DEF IInv, TypeOK
    <2>3. "respond" \notin {"attempt", "request", "failed"}
      OBVIOUS
    <2> QED BY <1>1, <1>6, <2>1, <2>2, <2>3, FallsBackDone
  <1>10. Tries'
    BY <1>2, EndOfProgress
  <1> QED BY <1>7, <1>8, <1>9, <1>10 DEF IInv

(* An unusable response keeps IInv. *)
LEMMA UnusableResponseKeeps ==
    ASSUME IInv, NEW t \in Threads, NEW response \in {None, "ok", "failure"},
           UnusableResponse(t, response)
    PROVE  IInv'
  <1> DEFINE last == IF response = None THEN job[t].last ELSE response
             j == [job[t] EXCEPT !.tried = @ + 1, !.last = last]
             l == IF job[t].tried + 1 = Gateways THEN "failed" ELSE "attempt"
             f == firstFailed[t] \/ Attempted(t) = 1
  <1>1. Moves(t, l, j)
    BY DEF UnusableResponse, Goto, Moves, IInv, TypeOK
  <1>2. pc[t] = "request" /\ job[t].request.ipfs /\ SetStatus(t, "switching")
    BY DEF UnusableResponse
  <1>3. UNCHANGED <<active, fetches, Disk>>
    BY DEF UnusableResponse
  <1>4. /\ job[t] \in Job /\ job[t].id \in 1..fetches /\ job[t].request \in Requests
        /\ job[t].tried < Gateways
    BY <1>2, JobTyped DEF IInv
  <1>5. last \in {None, "ok", "failure"} /\ job[t].tried \in Nat
    BY <1>4 DEF Job
  <1>6. /\ j \in Job /\ j.id = job[t].id /\ j.request = job[t].request
        /\ j.start = job[t].start /\ j.tried = job[t].tried + 1
    <2>1. job[t].tried + 1 \in 0..Gateways
      BY <1>4, <1>5, Constants
    <2> HIDE DEF last, l, f
    <2> QED BY <1>4, <1>5, <2>1 DEF Job
  <1>7. l \in {"attempt", "failed"} /\ (l = "attempt" => j.tried < Gateways)
    BY <1>4, <1>5, <1>6, Constants
  <1>8. firstFailed' = [firstFailed EXCEPT ![t] = f] /\ f \in BOOLEAN
    BY DEF UnusableResponse, IInv, TypeOK
  <1>9. Attempted(t) \in Gateway /\ (job[t].tried = 0 => Attempted(t) = job[t].start)
    BY AttemptedType DEF IInv
  <1>10. /\ active[t] # 1 => f
         /\ j.start = active[t]
         /\ j.start = 1 => f
    <2>1. /\ active[t] # 1 => firstFailed[t]
          /\ job[t].start = active[t]
          /\ job[t].tried > 0 /\ job[t].start = 1 => firstFailed[t]
      BY <1>2 DEF IInv, FallsBack, Trying
    <2> QED BY <1>5, <1>6, <1>9, <2>1
  <1> HIDE DEF last, j, l, f
  <1>11. Fits(l, j)
    BY <1>3, <1>4, <1>6, <1>7 DEF Fits, Labels
  <1>12. TypeOK'
    <2>1. active' \in [Threads -> Gateway] /\ firstFailed' \in [Threads -> BOOLEAN]
      BY <1>3, <1>8 DEF IInv, TypeOK
    <2>2. status' \in StatusType(fetches)
      BY <1>2, StatusTyped DEF IInv
    <2> QED BY <1>1, <1>3, <1>11, <2>1, <2>2, TypeOfReport DEF IInv
  <1>13. Routed' /\ Owned' /\ DownloadsKeepTheirFiles'
    BY <1>1, <1>2, <1>3, <1>6, <1>7, MoveKeepsRouted, DiskStays DEF Disk
  <1>14. FallsBack'
    <2>1. active' = [active EXCEPT ![t] = active[t]]
      BY <1>3 DEF IInv, TypeOK
    <2> QED BY <1>1, <1>8, <1>10, <2>1, FallsBackOn
  <1>15. Tries'
    BY <1>1, <1>2, <1>6, <1>7, TriesOn
  <1> QED BY <1>12, <1>13, <1>14, <1>15 DEF IInv

(* Giving up keeps IInv. *)
LEMMA GatewaysFailKeeps ==
    ASSUME IInv, NEW t \in Threads, GatewaysFail(t)
    PROVE  IInv'
  <1>1. pc[t] = "failed" /\ SetStatus(t, "error") /\ UNCHANGED <<fetches, Disk>>
    BY DEF GatewaysFail
  <1>2. /\ active' = [active EXCEPT ![t] = 1]
        /\ firstFailed' = [firstFailed EXCEPT ![t] = FALSE]
    BY DEF GatewaysFail
  <1>3. /\ active' \in [Threads -> Gateway] /\ firstFailed' \in [Threads -> BOOLEAN]
        /\ status' \in StatusType(fetches)
    <2>1. 1 \in Gateway
      BY Constants DEF Gateway
    <2> QED BY <1>1, <1>2, <2>1, StatusTyped DEF IInv, TypeOK
  <1>4. PICK l \in {"idle", "respond"}, j \in {NoJob, job[t]} : Moves(t, l, j) /\ Fits(l, j)
    <2>1. CASE job[t].last = None
      <3>1. Moves(t, "idle", NoJob) /\ Fits("idle", NoJob)
        BY <2>1, Returns DEF GatewaysFail
      <3> QED BY <3>1
    <2>2. CASE job[t].last # None
      <3>1. Moves(t, "respond", job[t])
        BY <2>2 DEF GatewaysFail, Goto, Moves, IInv, TypeOK
      <3>2. Fits("respond", job[t])
        BY <1>1, JobTyped DEF Fits, Labels, IInv
      <3> QED BY <3>1, <3>2
    <2> QED BY <2>1, <2>2
  <1>5. l \notin {"attempt", "request", "failed"} /\ l \notin {"write", "record"}
    BY <1>4
  <1>6. TypeOK'
    BY <1>1, <1>3, <1>4, TypeOfReport DEF IInv
  <1>7. Routed' /\ Owned' /\ DownloadsKeepTheirFiles'
    BY <1>1, <1>4, <1>5, MoveKeepsRouted, DiskStays DEF Disk
  <1>8. FallsBack'
    BY <1>2, <1>4, <1>5, FallsBackDone
  <1>9. Tries'
    BY <1>1, EndOfProgress
  <1> QED BY <1>6, <1>7, <1>8, <1>9 DEF IInv

-----------------------------------------------------------------------------
(* The steps that leave gateways and status alone. *)

(* Of such a step only the disk is left to look at. *)
LEMMA QuietKeeps ==
    ASSUME IInv, NEW t \in Threads, NEW l, NEW j, Moves(t, l, j), Fits(l, j),
           UNCHANGED <<Report, fetches>>, ~Trying(t),
           l \notin {"attempt", "request", "failed"},
           files' \in FilesType(fetches), index' \in IndexType,
           returned' \subseteq [by : 1..fetches, file : Name], failures' \in 0..MaxFailures,
           Owned', DownloadsKeepTheirFiles'
    PROVE  IInv'
  <1>1. TypeOK'
    <2>1. /\ fetches' = fetches /\ fetches' \in 0..MaxFetches
          /\ active' \in [Threads -> Gateway] /\ firstFailed' \in [Threads -> BOOLEAN]
          /\ status' \in StatusType(fetches')
      BY DEF IInv, TypeOK, Report, StatusType
    <2> QED BY <2>1, TypeOfParts DEF IInv, FilesType
  <1>2. Routed'
    BY MoveKeepsRouted
  <1>3. FallsBack' /\ Tries'
    BY ReportStays DEF Report
  <1> QED BY <1>1, <1>2, <1>3 DEF IInv

(* When the disk is left alone too, nothing is. *)
LEMMA QuietDiskKeeps ==
    ASSUME IInv, NEW t \in Threads, NEW l, NEW j, Moves(t, l, j), Fits(l, j),
           UNCHANGED <<Report, fetches, files, index, returned>>, ~Trying(t),
           l \notin {"attempt", "request", "failed"}, l \notin {"write", "record"},
           failures' \in 0..MaxFailures
    PROVE  IInv'
  <1>1. /\ files' \in FilesType(fetches) /\ index' \in IndexType
        /\ returned' \subseteq [by : 1..fetches, file : Name]
    BY DEF IInv, TypeOK, FilesType, IndexType
  <1>2. Owned' /\ DownloadsKeepTheirFiles'
    BY DiskStays
  <1> QED BY <1>1, <1>2, QuietKeeps

(* A direct response keeps IInv. *)
LEMMA DirectResponseKeeps ==
    ASSUME IInv, NEW t \in Threads, NEW response \in {None, "ok", "failure"},
           DirectResponse(t, response)
    PROVE  IInv'
  <1>1. /\ pc[t] = "request" /\ ~Trying(t)
        /\ UNCHANGED <<Report, fetches, files, index, returned>> /\ failures' \in 0..MaxFailures
    BY DEF DirectResponse, Trying, Disk, IInv, TypeOK
  <1>2. CASE response = None
    <2>1. Moves(t, "idle", NoJob) /\ Fits("idle", NoJob)
      BY <1>2, Returns DEF DirectResponse
    <2>2. "idle" \notin {"attempt", "request", "failed"} /\ "idle" \notin {"write", "record"}
      OBVIOUS
    <2> QED BY <1>1, <2>1, <2>2, QuietDiskKeeps
  <1>3. CASE response # None
    <2> DEFINE j == [job[t] EXCEPT !.last = response]
    <2>1. Moves(t, "respond", j)
      BY <1>3 DEF DirectResponse, Goto, Moves, IInv, TypeOK
    <2>2. Fits("respond", j)
      <3>1. job[t] \in Job /\ job[t].id \in 1..fetches /\ job[t].request \in Requests
        BY <1>1, JobTyped DEF IInv
      <3>2. j \in Job /\ j.id = job[t].id /\ j.request = job[t].request
        BY <3>1 DEF Job
      <3> QED BY <1>1, <3>1, <3>2 DEF Fits, Labels
    <2>3. "respond" \notin {"attempt", "request", "failed"} /\ "respond" \notin {"write", "record"}
      OBVIOUS
    <2> HIDE DEF j
    <2> QED BY <1>1, <2>1, <2>2, <2>3, QuietDiskKeeps
  <1> QED BY <1>2, <1>3

(* Responding keeps IInv. *)
LEMMA RespondKeeps ==
    ASSUME IInv, NEW t \in Threads, NEW download \in BOOLEAN, Respond(t, download)
    PROVE  IInv'
  <1>1. /\ pc[t] = "respond" /\ ~Trying(t)
        /\ UNCHANGED <<Report, fetches, files, index, returned>> /\ failures' \in 0..MaxFailures
    BY DEF Respond, Trying, Disk, IInv, TypeOK
  <1>2. PICK l \in {"idle", "create"}, j \in {NoJob, job[t]} : Moves(t, l, j) /\ Fits(l, j)
    <2>1. CASE ~download
      <3>1. Moves(t, "idle", NoJob) /\ Fits("idle", NoJob)
        BY <2>1, Returns DEF Respond
      <3> QED BY <3>1
    <2>2. CASE download
      <3>1. Moves(t, "create", job[t])
        BY <2>2 DEF Respond, Goto, Moves, IInv, TypeOK
      <3>2. Fits("create", job[t])
        BY <1>1, JobTyped DEF Fits, Labels, IInv
      <3> QED BY <3>1, <3>2
    <2> QED BY <2>1, <2>2
  <1>3. l \notin {"attempt", "request", "failed"} /\ l \notin {"write", "record"}
    BY <1>2
  <1> QED BY <1>1, <1>2, <1>3, QuietDiskKeeps

(* A failing write keeps IInv. *)
LEMMA WriteFailsKeeps ==
    ASSUME IInv, NEW t \in Threads, WriteFails(t)
    PROVE  IInv'
  <1>1. /\ ~Trying(t)
        /\ UNCHANGED <<Report, fetches, files, index, returned>>
    BY DEF WriteFails, Trying
  <1>2. failures' \in 0..MaxFailures
    BY Constants DEF WriteFails, IInv, TypeOK
  <1>3. Moves(t, "idle", NoJob) /\ Fits("idle", NoJob)
    BY Returns DEF WriteFails
  <1>4. "idle" \notin {"attempt", "request", "failed"} /\ "idle" \notin {"write", "record"}
    OBVIOUS
  <1> QED BY <1>1, <1>2, <1>3, <1>4, QuietDiskKeeps

-----------------------------------------------------------------------------
(* The steps that write to the disk. *)

(* A file is there, and says whose it is. *)
LEMMA FileIsThere ==
    ASSUME NEW m \in Nat, NEW n \in 0..m, NEW w \in BOOLEAN,
           NEW file, file = [by |-> n, whole |-> w]
    PROVE  /\ file # None
           /\ file.by = n /\ file.whole = w
           /\ file \in [by : 0..m, whole : BOOLEAN]
  <1>1. file \in [by : 0..m, whole : BOOLEAN] /\ file \in [by : Nat, whole : BOOLEAN]
    OBVIOUS
  <1>2. file # None
    BY <1>1, NoneAssumption
  <1>3. file.by = n /\ file.whole = w
    OBVIOUS
  <1> QED BY <1>1, <1>2, <1>3

(* The file of a returned download is there. *)
LEMMA ReturnedIsThere ==
    ASSUME IInv, NEW d \in returned
    PROVE  /\ files[d.file] # None /\ files[d.file].by = d.by
           /\ files[d.file] = [by |-> d.by, whole |-> TRUE]
           /\ d.file \in Name
  <1>1. d.file \in Name /\ d.by \in 0..fetches /\ fetches \in Nat
    BY DEF IInv, TypeOK
  <1>2. files[d.file] = [by |-> d.by, whole |-> TRUE]
    BY DEF IInv, DownloadsKeepTheirFiles
  <1>3. \A m \in Nat : \A n \in 0..m :
           [by |-> n, whole |-> TRUE] # None /\ [by |-> n, whole |-> TRUE].by = n
    BY FileIsThere
  <1>4. [by |-> d.by, whole |-> TRUE] # None /\ [by |-> d.by, whole |-> TRUE].by = d.by
    BY <1>1, <1>3
  <1> QED BY <1>1, <1>2, <1>4

(* The file of one fetch is written to: those of the others stay as they   *)
(* are.                                                                    *)
LEMMA FileWritten ==
    ASSUME IInv, NEW t \in Threads, NEW l, NEW j, Moves(t, l, j), NEW k \in Name, NEW file,
           files' = [files EXCEPT ![k] = file], file # None, UNCHANGED returned,
           file.by = job[t].id, j.id = job[t].id, j.file = k,
           l = "record" => file.whole,
           \/ files[k] = None
           \/ files[k] # Foreign /\ files[k].by = job[t].id /\ file = [by |-> job[t].id, whole |-> TRUE]
    PROVE  Owned' /\ DownloadsKeepTheirFiles'
  <1>1. files'[k] = file /\ \A m \in Name : m # k => files'[m] = files[m]
    BY DEF IInv, TypeOK
  <1>2. Owned'
    <2> SUFFICES ASSUME NEW u \in Threads
                 PROVE /\ pc'[u] \in {"write", "record"} =>
                             files'[job'[u].file] # None /\ files'[job'[u].file].by = job'[u].id
                       /\ pc'[u] = "record" => files'[job'[u].file].whole
      BY DEF Owned
    <2>1. CASE u = t
      BY <1>1, <2>1, OthersStay DEF IInv
    <2>2. CASE u # t
      <3>1. pc'[u] = pc[u] /\ job'[u] = job[u] /\ job[u].file \in Name
        BY <2>2, OthersStay DEF IInv, TypeOK, Job
      <3>2. CASE job[u].file # k
        BY <1>1, <3>1, <3>2 DEF IInv, Owned
      <3>3. CASE job[u].file = k
        BY <1>1, <3>1, <3>3 DEF IInv, Owned
      <3> QED BY <3>2, <3>3
    <2> QED BY <2>1, <2>2
  <1>3. DownloadsKeepTheirFiles'
    <2>1. ASSUME NEW d \in returned
          PROVE  files'[d.file] = [by |-> d.by, whole |-> TRUE]
      <3>1. /\ files[d.file] # None /\ files[d.file].by = d.by
            /\ files[d.file] = [by |-> d.by, whole |-> TRUE]
            /\ d.file \in Name
        BY ReturnedIsThere
      <3>3. CASE d.file # k
        BY <1>1, <3>1, <3>3
      <3>4. CASE d.file = k
        BY <1>1, <3>1, <3>4
      <3> QED BY <3>3, <3>4
    <2>2. ASSUME NEW m \in Taken
          PROVE  files'[m] = Foreign
      <3>1. files[m] = Foreign /\ m \in Name
        BY Constants DEF IInv, DownloadsKeepTheirFiles
      <3>2. 0 \in 0..0 /\ 0 \in Nat
        OBVIOUS
      <3>3. Foreign # None
        BY <3>2, FileIsThere DEF Foreign
      <3> QED BY <1>1, <3>1, <3>3
    <2> QED BY <2>1, <2>2 DEF DownloadsKeepTheirFiles
  <1> QED BY <1>2, <1>3

(* Trying a file name keeps IInv. *)
LEMMA CreateDownloadKeeps ==
    ASSUME IInv, NEW t \in Threads, CreateDownload(t)
    PROVE  IInv'
  <1> DEFINE k == job[t].file
  <1>1. /\ pc[t] = "create" /\ ~Trying(t)
        /\ UNCHANGED <<Report, fetches, index, returned, failures>>
    BY DEF CreateDownload, Trying
  <1>2. /\ job[t] \in Job /\ job[t].id \in 1..fetches /\ job[t].request \in Requests
        /\ k \in Name
    BY <1>1, JobTyped DEF IInv, Job
  <1>3. /\ index' \in IndexType /\ failures' \in 0..MaxFailures /\ fetches \in Nat
        /\ returned' \subseteq [by : 1..fetches, file : Name]
    BY <1>1 DEF IInv, TypeOK, IndexType
  <1>4. CASE NameIsFree(k)
    <2> DEFINE file == [by |-> job[t].id, whole |-> FALSE]
    <2>1. files' = [files EXCEPT ![k] = file]
      BY <1>4 DEF CreateDownload
    <2>2. Moves(t, "write", job[t])
      BY <1>4 DEF CreateDownload, Goto, Moves, IInv, TypeOK
    <2>3. Fits("write", job[t])
      BY <1>1, <1>2 DEF Fits, Labels
    <2>4. file # None /\ file.by = job[t].id /\ file \in [by : 0..fetches, whole : BOOLEAN]
      <3>1. job[t].id \in 0..fetches
        BY <1>2, <1>3
      <3> QED BY <1>3, <3>1, FileIsThere
    <2>5. files' \in FilesType(fetches)
      <3> HIDE DEF file
      <3> QED BY <1>2, <2>1, <2>4 DEF IInv, TypeOK, FilesType
    <2>6. files[k] = None
      BY <1>4 DEF NameIsFree
    <2> HIDE DEF file, k
    <2>7. Owned' /\ DownloadsKeepTheirFiles'
      <3>1. job[t].file = k /\ k \in Name /\ UNCHANGED returned
        BY <1>1, <1>2 DEF k
      <3>2. "write" = "record" => file.whole
        OBVIOUS
      <3>3. ASSUME NEW l, NEW j, l = "write", j = job[t]
            PROVE  Owned' /\ DownloadsKeepTheirFiles'
        <4>1. Moves(t, l, j) /\ j.id = job[t].id /\ j.file = k /\ (l = "record" => file.whole)
          BY <2>2, <3>1, <3>2, <3>3
        <4> QED BY <2>1, <2>4, <2>6, <3>1, <4>1, FileWritten
      <3> QED BY <3>3
    <2>8. "write" \notin {"attempt", "request", "failed"}
      OBVIOUS
    <2> QED BY <1>1, <1>3, <2>2, <2>3, <2>5, <2>7, <2>8, QuietKeeps
  <1>5. CASE ~NameIsFree(k) /\ k = Candidates
    <2>1. Moves(t, "idle", NoJob) /\ Fits("idle", NoJob) /\ UNCHANGED files
      BY <1>5, Returns DEF CreateDownload
    <2>2. "idle" \notin {"attempt", "request", "failed"} /\ "idle" \notin {"write", "record"}
      OBVIOUS
    <2> QED BY <1>1, <1>3, <2>1, <2>2, QuietDiskKeeps
  <1>6. CASE ~NameIsFree(k) /\ k # Candidates
    <2> DEFINE j == [job[t] EXCEPT !.file = k + 1]
    <2>1. Moves(t, "create", j) /\ UNCHANGED files
      BY <1>1, <1>6 DEF CreateDownload, Moves, IInv, TypeOK
    <2>2. k + 1 \in Name
      BY <1>2, <1>6, Constants DEF Name
    <2>3. j \in Job /\ j.id = job[t].id /\ j.request = job[t].request
      <3> HIDE DEF k
      <3> QED BY <1>2, <2>2 DEF Job
    <2> HIDE DEF j
    <2>4. Fits("create", j)
      BY <1>1, <1>2, <2>3 DEF Fits, Labels
    <2>5. "create" \notin {"attempt", "request", "failed"} /\ "create" \notin {"write", "record"}
      OBVIOUS
    <2> QED BY <1>1, <1>3, <2>1, <2>4, <2>5, QuietDiskKeeps
  <1> QED BY <1>4, <1>5, <1>6

(* Writing the body keeps IInv. *)
LEMMA WriteDownloadKeeps ==
    ASSUME IInv, NEW t \in Threads, WriteDownload(t)
    PROVE  IInv'
  <1> DEFINE k == job[t].file
             file == [by |-> job[t].id, whole |-> TRUE]
  <1>1. /\ pc[t] = "write" /\ ~Trying(t)
        /\ UNCHANGED <<Report, fetches, index, returned, failures>>
    BY DEF WriteDownload, Trying
  <1>2. /\ job[t] \in Job /\ job[t].id \in 1..fetches /\ job[t].request \in Requests
        /\ k \in Name
    BY <1>1, JobTyped DEF IInv, Job
  <1>3. /\ index' \in IndexType /\ failures' \in 0..MaxFailures /\ fetches \in Nat
        /\ returned' \subseteq [by : 1..fetches, file : Name]
    BY <1>1 DEF IInv, TypeOK, IndexType
  <1>4. files[k] # None /\ files[k].by = job[t].id
    BY <1>1 DEF IInv, Owned
  <1>6. files' = [files EXCEPT ![k] = file]
    BY DEF WriteDownload
  <1>7. files[k] # Foreign
    BY <1>2, <1>3, <1>4 DEF Foreign
  <1>8. /\ file # None /\ file.by = job[t].id /\ file.whole
        /\ file \in [by : 0..fetches, whole : BOOLEAN]
    <2>1. job[t].id \in 0..fetches
      BY <1>2, <1>3
    <2> QED BY <1>3, <2>1, FileIsThere
  <1>9. Moves(t, "record", job[t])
    BY DEF WriteDownload, Goto, Moves, IInv, TypeOK
  <1>10. Fits("record", job[t])
    BY <1>1, <1>2 DEF Fits, Labels
  <1>11. files' \in FilesType(fetches)
    <2> HIDE DEF file
    <2> QED BY <1>2, <1>6, <1>8 DEF IInv, TypeOK, FilesType
  <1>12. Owned' /\ DownloadsKeepTheirFiles'
    <2>1. job[t].file = k /\ file = [by |-> job[t].id, whole |-> TRUE]
      OBVIOUS
    <2> HIDE DEF file, k
    <2> QED BY <1>1, <1>2, <1>4, <1>6, <1>7, <1>8, <1>9, <2>1, FileWritten
  <1>13. "record" \notin {"attempt", "request", "failed"}
    OBVIOUS
  <1> QED BY <1>1, <1>3, <1>9, <1>10, <1>11, <1>12, <1>13, QuietKeeps

(* Appending to the index keeps IInv. *)
LEMMA AppendRecordKeeps ==
    ASSUME IInv, NEW t \in Threads, AppendRecord(t)
    PROVE  IInv'
  <1>1. /\ pc[t] = "record" /\ ~Trying(t)
        /\ UNCHANGED <<Report, fetches, files, failures>>
    BY DEF AppendRecord, Trying
  <1>2. /\ job[t] \in Job /\ job[t].id \in 1..fetches /\ job[t].request \in Requests
        /\ job[t].file \in Name /\ job[t].part \in 1..(Parts + 1)
    BY <1>1, JobTyped DEF IInv, Job
  <1>3. /\ files' \in FilesType(fetches) /\ failures' \in 0..MaxFailures /\ fetches \in Nat
        /\ index \in IndexType /\ returned \subseteq [by : 1..fetches, file : Name]
    BY <1>1 DEF IInv, TypeOK, FilesType, IndexType
  <1>4. CASE job[t].part <= Parts
    <2> DEFINE j == [job[t] EXCEPT !.part = @ + 1]
               write == [file |-> job[t].file, part |-> job[t].part]
    <2>1. Moves(t, "record", j) /\ UNCHANGED returned /\ index' = Append(index, write)
      BY <1>1, <1>4 DEF AppendRecord, Moves, IInv, TypeOK
    <2>2. job[t].part + 1 \in 1..(Parts + 1)
      BY <1>2, <1>4, Constants
    <2>3. /\ j \in Job /\ j.id = job[t].id /\ j.request = job[t].request
          /\ j.file = job[t].file
      BY <1>2, <2>2 DEF Job
    <2>4. write \in [file : 0..Candidates, part : 0..Parts]
      BY <1>2, <1>4, Constants DEF Name
    <2> HIDE DEF j, write
    <2>5. index' \in IndexType
      BY <1>3, <2>1, <2>4 DEF IndexType
    <2>6. Fits("record", j)
      BY <1>1, <1>2, <2>3 DEF Fits, Labels
    <2>7. Owned' /\ DownloadsKeepTheirFiles'
      <3>1. Owned'
        BY <1>1, <2>1, <2>3, OthersStay DEF IInv, Owned
      <3>2. DownloadsKeepTheirFiles'
        BY <1>1, <2>1 DEF IInv, DownloadsKeepTheirFiles
      <3> QED BY <3>1, <3>2
    <2>8. "record" \notin {"attempt", "request", "failed"}
      OBVIOUS
    <2> QED BY <1>1, <1>3, <2>1, <2>5, <2>6, <2>7, <2>8, QuietKeeps
  <1>5. CASE ~(job[t].part <= Parts)
    <2> DEFINE d == [by |-> job[t].id, file |-> job[t].file]
    <2>1. /\ Moves(t, "idle", NoJob) /\ Fits("idle", NoJob)
          /\ index' = Append(index, Newline) /\ returned' = returned \cup {d}
      BY <1>5, Returns DEF AppendRecord
    <2>2. Newline \in [file : 0..Candidates, part : 0..Parts]
      BY Constants DEF Newline
    <2>3. index' \in IndexType
      BY <1>3, <2>1, <2>2 DEF IndexType
    <2>4. returned' \subseteq [by : 1..fetches, file : Name]
      BY <1>2, <1>3, <2>1
    <2>5. files[job[t].file] = [by |-> job[t].id, whole |-> TRUE]
      <3>1. /\ files[job[t].file] # None /\ files[job[t].file].by = job[t].id
            /\ files[job[t].file].whole
        BY <1>1 DEF IInv, Owned
      <3>2. files[job[t].file] \in [by : 0..fetches, whole : BOOLEAN]
        BY <1>2, <3>1 DEF IInv, TypeOK
      <3> QED BY <3>1, <3>2
    <2>6. Owned'
      BY <1>1, <2>1, OthersStay DEF IInv, Owned
    <2>7. DownloadsKeepTheirFiles'
      <3>1. d.by = job[t].id /\ d.file = job[t].file
        OBVIOUS
      <3> HIDE DEF d
      <3> QED BY <1>1, <2>1, <2>5, <3>1 DEF IInv, DownloadsKeepTheirFiles
    <2>8. "idle" \notin {"attempt", "request", "failed"}
      OBVIOUS
    <2> QED BY <1>1, <1>3, <2>1, <2>3, <2>4, <2>6, <2>7, <2>8, QuietKeeps
  <1> QED BY <1>4, <1>5

-----------------------------------------------------------------------------

(* IInv holds at first. *)
LEMMA InitIInv == Init => IInv
  <1> SUFFICES ASSUME Init PROVE IInv
    OBVIOUS
  <1>1. 1 \in Gateway /\ NoJob \in Job
    BY Constants, NoJobType DEF Gateway
  <1>2. TypeOK
    <2>1. files \in [Name -> {None} \cup [by : 0..fetches, whole : BOOLEAN]]
      BY DEF Init, Foreign
    <2>2. index \in Seq([file : 0..Candidates, part : 0..Parts])
      BY DEF Init
    <2>3. fetches \in 0..MaxFetches /\ failures \in 0..MaxFailures
      BY Constants DEF Init
    <2>4. status \in [kind : {"idle", "fetching", "switching", "complete", "error"},
                      target : 0..fetches, valid : BOOLEAN]
      BY DEF Init
    <2>5. \A t \in Threads : pc[t] = "idle" /\ job[t] = NoJob
      BY DEF Init
    <2>6. /\ active \in [Threads -> Gateway] /\ firstFailed \in [Threads -> BOOLEAN]
          /\ job \in [Threads -> Job] /\ returned \subseteq [by : 1..fetches, file : Name]
          /\ pc \in [Threads -> Labels]
      BY <1>1 DEF Init, Labels
    <2> QED BY <2>1, <2>2, <2>3, <2>4, <2>5, <2>6 DEF TypeOK, Labels
  <1>3. Routed /\ Owned /\ FallsBack
    BY DEF Init, Routed, Owned, FallsBack, Trying
  <1>4. DownloadsKeepTheirFiles
    BY Constants DEF Init, DownloadsKeepTheirFiles
  <1>5. Tries
    BY DEF Init, Tries, InProgress
  <1> QED BY <1>2, <1>3, <1>4, <1>5 DEF IInv

(* Every step keeps IInv. *)
LEMMA NextIInv == IInv /\ [Next]_vars => IInv'
  <1> SUFFICES ASSUME IInv, [Next]_vars PROVE IInv'
    OBVIOUS
  <1>1. CASE Next
    <2>1. PICK t \in Threads : \/ \E r \in Requests : FetchHttp(t, r)
                               \/ Thread(t)
                               \/ WriteFails(t)
      BY <1>1 DEF Next
    <2>2. CASE \E r \in Requests : FetchHttp(t, r)
      BY <2>2, FetchHttpKeeps
    <2>3. CASE WriteFails(t)
      BY <2>3, WriteFailsKeeps
    <2>4. CASE Thread(t)
      BY <2>4, AttemptGatewayKeeps, UsableResponseKeeps, UnusableResponseKeeps,
         GatewaysFailKeeps, DirectResponseKeeps, RespondKeeps, CreateDownloadKeeps,
         WriteDownloadKeeps, AppendRecordKeeps DEF Thread
    <2> QED BY <2>1, <2>2, <2>3, <2>4
  <1>2. CASE UNCHANGED vars
    BY <1>2 DEF vars, IInv, TypeOK, Routed, Owned, DownloadsKeepTheirFiles, FallsBack,
                Tries, Trying
  <1> QED BY <1>1, <1>2

(* IInv is an invariant of the fetches. *)
LEMMA SpecIInv == Spec => []IInv
  BY InitIInv, NextIInv, PTL DEF Spec

-----------------------------------------------------------------------------

(* Every state of the fetching threads is well typed: the gateway cached   *)
(* and the name tried stay in range, and no attempt follows the last one.  *)
THEOREM TypeCorrect == Spec => []TypeOK
  <1>1. IInv => TypeOK
    BY DEF IInv
  <1> QED BY <1>1, SpecIInv, PTL

(* For any number of threads, no fetch writes to the file of a returned    *)
(* download or to one that was there before (store_download).              *)
THEOREM FilesKept == Spec => []DownloadsKeepTheirFiles
  <1>1. IInv => DownloadsKeepTheirFiles
    BY DEF IInv
  <1> QED BY <1>1, SpecIInv, PTL

(* For any number of gateways, one that is not the configured one is asked *)
(* only after the configured one failed (gateway_attempt_order and the     *)
(* cached gateway).                                                        *)
THEOREM ConfiguredFirst == Spec => []ConfiguredGatewayFirst
  <1>1. IInv => ConfiguredGatewayFirst
    <2> SUFFICES ASSUME IInv, NEW t \in Threads, pc[t] = "request", job[t].request.ipfs,
                        Attempted(t) # 1
                 PROVE  firstFailed[t]
      BY DEF ConfiguredGatewayFirst
    <2>1. job[t].tried = 0 => Attempted(t) = job[t].start
      BY AttemptedType DEF IInv
    <2>2. /\ active[t] # 1 => firstFailed[t]
          /\ job[t].start = active[t]
          /\ job[t].tried > 0 /\ job[t].start = 1 => firstFailed[t]
      BY DEF IInv, FallsBack, Trying
    <2>3. job[t].tried \in Nat
      BY DEF IInv, TypeOK, Job
    <2> QED BY <2>1, <2>2, <2>3
  <1> QED BY <1>1, SpecIInv, PTL

(* Progress is shown only while the fetch it names is under way, however   *)
(* the threads that share the status interleave (StatusReporter).          *)
THEOREM ProgressReal == Spec => []ProgressIsReal
  <1>1. IInv => ProgressIsReal
    BY DEF IInv, Tries, ProgressIsReal
  <1> QED BY <1>1, SpecIInv, PTL

-----------------------------------------------------------------------------
(* The index of the downloads.  Its lines may be mixed; what can be said   *)
(* of every write to it is that the file it names is completely written,   *)
(* and of every returned download that some write names its file.          *)

Complete(k) == files[k] # None /\ files[k].whole

Indexed(k) == \E i \in 1..Len(index) : index[i].file = k

(* A thread has named its file in the index once it is past the first part. *)
Recording(t) ==
    /\ pc[t] # "record" => job[t].part = 1
    /\ pc[t] = "record" /\ job[t].part > 1 => Indexed(job[t].file)

WritesAreOfWholeFiles ==
    \A i \in 1..Len(index) :
       index[i] = Newline \/ (index[i].file \in Name /\ Complete(index[i].file))

IndexInv ==
    /\ WritesAreOfWholeFiles
    /\ \A d \in returned : Indexed(d.file)
    /\ \A t \in Threads : Recording(t)

(* A file that is completely written stays so. *)
LEMMA CompleteStays ==
    ASSUME IInv, Next, NEW k \in Name, Complete(k)
    PROVE  Complete(k)'
  <1>1. CASE UNCHANGED files
    BY <1>1 DEF Complete
  <1>2. ASSUME NEW t \in Threads, CreateDownload(t) PROVE Complete(k)'
    <2>1. job[t].file \in Name
      BY DEF IInv, TypeOK, Job
    <2>2. files'[k] = files[k]
      BY <1>2, <2>1 DEF CreateDownload, NameIsFree, Complete, IInv, TypeOK
    <2> QED BY <2>2 DEF Complete
  <1>3. ASSUME NEW t \in Threads, WriteDownload(t) PROVE Complete(k)'
    <2>1. files' = [files EXCEPT ![job[t].file] = [by |-> job[t].id, whole |-> TRUE]]
      BY <1>3 DEF WriteDownload
    <2>2. job[t].id \in Nat
      BY DEF IInv, TypeOK, Job
    <2>3. [by |-> job[t].id, whole |-> TRUE] # None
      <3>1. [by |-> job[t].id, whole |-> TRUE] \in [by : Nat, whole : BOOLEAN]
        BY <2>2
      <3> QED BY <3>1, NoneAssumption
    <2>4. files'[k] = files[k] \/ files'[k] = [by |-> job[t].id, whole |-> TRUE]
      BY <2>1 DEF IInv, TypeOK
    <2> QED BY <2>3, <2>4 DEF Complete
  <1> QED
    BY <1>1, <1>2, <1>3 DEF Next, Thread, FetchHttp, WriteFails, AttemptGateway, UsableResponse,
       UnusableResponse, DirectResponse, GatewaysFail, Respond, AppendRecord, Disk

(* A step that writes nothing to the index. *)
LEMMA IndexStays ==
    ASSUME IInv, IndexInv, Next, UNCHANGED <<index, returned>>,
           \A t \in Threads : \/ pc'[t] = pc[t] /\ job'[t] = job[t]
                              \/ job'[t].part = 1
    PROVE  IndexInv'
  <1>1. WritesAreOfWholeFiles'
    BY CompleteStays DEF IndexInv, WritesAreOfWholeFiles
  <1>2. \A k : Indexed(k)' = Indexed(k)
    BY DEF Indexed
  <1>3. \A d \in returned' : Indexed(d.file)'
    BY <1>2 DEF IndexInv
  <1>4. ASSUME NEW t \in Threads PROVE Recording(t)'
    BY <1>2 DEF IndexInv, Recording
  <1> QED BY <1>1, <1>3, <1>4 DEF IndexInv

(* The steps of a fetch that write nothing to the index. *)
LEMMA PartsStay ==
    ASSUME IInv, IndexInv, NEW t \in Threads,
           \/ \E request \in Requests : FetchHttp(t, request)
           \/ Thread(t) /\ ~AppendRecord(t)
           \/ WriteFails(t)
    PROVE  /\ UNCHANGED <<index, returned>>
           /\ \A u \in Threads : \/ pc'[u] = pc[u] /\ job'[u] = job[u]
                                 \/ job'[u].part = 1
  <1>1. /\ NoJob.part = 1
        /\ \A n, request, gateway : NewJob(n, request, gateway).part = 1
    BY DEF NoJob, NewJob
  <1>2. /\ pc \in [Threads -> Labels] /\ job \in [Threads -> Job]
        /\ pc[t] # "record" => job[t].part = 1
    BY DEF IInv, TypeOK, IndexInv, Recording, Labels
  <1>3. ASSUME NEW l, NEW j, pc' = [pc EXCEPT ![t] = l], job' = [job EXCEPT ![t] = j], j.part = 1
        PROVE  \A u \in Threads : \/ pc'[u] = pc[u] /\ job'[u] = job[u]
                                  \/ job'[u].part = 1
    BY <1>2, <1>3
  <1>4. Return(t) => \A u \in Threads : \/ pc'[u] = pc[u] /\ job'[u] = job[u]
                                        \/ job'[u].part = 1
    BY <1>1, <1>3 DEF Return, Goto
  <1> USE DEF Goto, Disk
  <1>5. CASE \E request \in Requests : FetchHttp(t, request)
    BY <1>1, <1>2, <1>5 DEF FetchHttp
  <1>6. CASE WriteFails(t)
    BY <1>4, <1>6 DEF WriteFails
  <1>7. CASE AttemptGateway(t)
    BY <1>2, <1>4, <1>7 DEF AttemptGateway
  <1>8. CASE UsableResponse(t)
    BY <1>2, <1>8 DEF UsableResponse, Job
  <1>9. CASE \E response \in {None, "ok", "failure"} : UnusableResponse(t, response)
    BY <1>2, <1>9 DEF UnusableResponse, Job
  <1>10. CASE \E response \in {None, "ok", "failure"} : DirectResponse(t, response)
    BY <1>2, <1>4, <1>10 DEF DirectResponse, Job
  <1>11. CASE GatewaysFail(t)
    BY <1>2, <1>4, <1>11 DEF GatewaysFail
  <1>12. CASE \E download \in BOOLEAN : Respond(t, download)
    BY <1>2, <1>4, <1>12 DEF Respond
  <1>13. CASE CreateDownload(t)
    BY <1>2, <1>4, <1>13 DEF CreateDownload, Job
  <1>14. CASE WriteDownload(t)
    BY <1>2, <1>14 DEF WriteDownload
  <1> QED BY <1>5, <1>6, <1>7, <1>8, <1>9, <1>10, <1>11, <1>12, <1>13, <1>14 DEF Thread

(* A write to the index names the thread's own file, which is complete. *)
LEMMA AppendKeepsIndex ==
    ASSUME IInv, IndexInv, Next, NEW t \in Threads, AppendRecord(t)
    PROVE  IndexInv'
  <1>1. /\ pc[t] = "record" /\ job[t] \in Job /\ index \in IndexType
        /\ job[t].file \in Name /\ job[t].part \in 1..Parts + 1
        /\ pc \in [Threads -> Labels] /\ job \in [Threads -> Job]
    BY DEF AppendRecord, IInv, TypeOK, Job, IndexType, Labels
  <1>2. PICK write : /\ index' = Append(index, write)
                     /\ \/ write = Newline
                        \/ write.file = job[t].file
    BY DEF AppendRecord
  <1>3. /\ Len(index') = Len(index) + 1 /\ Len(index) \in Nat
        /\ \A i \in 1..Len(index) : index'[i] = index[i]
        /\ index'[Len(index) + 1] = write
    BY <1>1, <1>2 DEF IndexType
  <1>4. PICK k \in Name : k = job[t].file
    BY <1>1
  <1>5. WritesAreOfWholeFiles'
    <2>1. Complete(k)'
      BY <1>1, <1>4, CompleteStays DEF IInv, Owned, Complete
    <2>2. ASSUME NEW i \in 1..Len(index), index[i] # Newline
          PROVE  /\ index[i].file \in Name
                 /\ files'[index[i].file] # None /\ files'[index[i].file].whole
      <3>1. PICK m : m = index[i].file
        OBVIOUS
      <3>2. m \in Name /\ Complete(m)
        BY <2>2, <3>1 DEF IndexInv, WritesAreOfWholeFiles
      <3>3. Complete(m)'
        BY <3>2, CompleteStays
      <3> QED BY <3>1, <3>2, <3>3 DEF Complete
    <2>3. ASSUME NEW i \in 1..Len(index'), index'[i] # Newline
          PROVE  /\ index'[i].file \in Name
                 /\ files'[index'[i].file] # None /\ files'[index'[i].file].whole
      <3>1. CASE i \in 1..Len(index)
        BY <1>3, <2>2, <2>3, <3>1
      <3>2. CASE i = Len(index) + 1
        BY <1>2, <1>3, <1>4, <2>1, <2>3, <3>2 DEF Complete
      <3> QED BY <1>3, <3>1, <3>2
    <2> QED BY <2>3 DEF WritesAreOfWholeFiles, Complete, Newline
  <1>6. \A m : Indexed(m) => Indexed(m)'
    BY <1>3 DEF Indexed
  <1>7. CASE job[t].part <= Parts
    <2>1. /\ index' = Append(index, [file |-> job[t].file, part |-> job[t].part])
          /\ job' = [job EXCEPT ![t].part = @ + 1] /\ UNCHANGED <<pc, returned>>
      BY <1>7 DEF AppendRecord
    <2>2. Indexed(k)'
      <3>1. /\ index'[Len(index) + 1] = [file |-> job[t].file, part |-> job[t].part]
            /\ Len(index) + 1 \in 1..Len(index')
        BY <1>1, <1>3, <2>1 DEF IndexType
      <3>2. index'[Len(index) + 1].file = k
        BY <1>4, <3>1
      <3> QED BY <3>1, <3>2 DEF Indexed
    <2>3. /\ job'[t].file = job[t].file
          /\ \A u \in Threads : u # t => job'[u] = job[u]
      BY <1>1, <2>1 DEF Job
    <2>4. ASSUME NEW u \in Threads PROVE Recording(u)'
      BY <1>1, <1>4, <1>6, <2>1, <2>2, <2>3 DEF IndexInv, Recording
    <2> QED BY <1>5, <1>6, <2>1, <2>4 DEF IndexInv
  <1>8. CASE ~(job[t].part <= Parts)
    <2> DEFINE d == [by |-> job[t].id, file |-> job[t].file]
    <2>1. returned' = returned \cup {d} /\ d.file = job[t].file /\ Return(t)
      BY <1>8 DEF AppendRecord
    <2>2. Indexed(job[t].file)
      <3>1. job[t].part > 1
        BY <1>1, <1>8, Constants
      <3> QED BY <1>1, <3>1 DEF IndexInv, Recording
    <2> HIDE DEF d
    <2>3. \A e \in returned' : Indexed(e.file)'
      BY <1>6, <2>1, <2>2 DEF IndexInv
    <2>4. ASSUME NEW u \in Threads PROVE Recording(u)'
      <3>1. pc'[t] = "idle" /\ job'[t].part = 1
        BY <1>1, <2>1 DEF Return, Goto, NoJob, NewJob
      <3>2. u # t => pc'[u] = pc[u] /\ job'[u] = job[u]
        BY <1>1, <2>1 DEF Return, Goto
      <3> QED BY <1>6, <3>1, <3>2 DEF IndexInv, Recording
    <2> QED BY <1>5, <2>3, <2>4 DEF IndexInv
  <1> QED BY <1>7, <1>8

LEMMA IndexInvHolds == Spec => [](IInv /\ IndexInv)
  <1>1. Init => IndexInv
    BY DEF Init, IndexInv, WritesAreOfWholeFiles, Recording, NoJob, NewJob
  <1>2. ASSUME IInv, IndexInv, [Next]_vars PROVE IndexInv'
    <2>1. CASE UNCHANGED vars
      BY <1>2, <2>1 DEF vars, IndexInv, WritesAreOfWholeFiles, Recording, Indexed, Complete
    <2>2. CASE Next
      <3>1. PICK t \in Threads : \/ \E request \in Requests : FetchHttp(t, request)
                                 \/ Thread(t)
                                 \/ WriteFails(t)
        BY <2>2 DEF Next
      <3>2. CASE AppendRecord(t)
        BY <1>2, <2>2, <3>2, AppendKeepsIndex
      <3>3. CASE ~AppendRecord(t)
        BY <1>2, <2>2, <3>1, <3>3, PartsStay, IndexStays
      <3> QED BY <3>2, <3>3
    <2> QED BY <1>2, <2>1, <2>2
  <1> QED BY <1>1, <1>2, InitIInv, NextIInv, PTL DEF Spec

(* Every set of positions has a least one, and a bounded one a greatest. *)
LEMMA LeastPosition ==
    ASSUME NEW S \in SUBSET Nat, S # {}
    PROVE  \E x \in S : \A y \in S : x <= y
  <1> DEFINE R == {ss \in Nat \X Nat : ss[1] < ss[2]}
  <1>1. IsWellFoundedOn(R, Nat)
    BY NatLessThanWellFounded DEF OpToRel
  <1>2. PICK x \in S : \A y \in S : <<y, x>> \notin R
    <2> HIDE DEF R
    <2> QED BY <1>1, WFMin
  <1>3. ASSUME NEW y \in S PROVE x <= y
    <2>1. x \in Nat /\ y \in Nat /\ ~(y < x)
      BY <1>2
    <2> HIDE DEF R
    <2> QED BY <2>1
  <1> QED BY <1>2, <1>3

LEMMA GreatestPosition ==
    ASSUME NEW S \in SUBSET Nat, S # {}, NEW n \in Nat, \A x \in S : x <= n
    PROVE  \E x \in S : \A y \in S : y <= x
  <1> DEFINE T == {n - x : x \in S}
  <1>1. T \in SUBSET Nat /\ T # {}
    <2>1. \A x \in S : n - x \in Nat
      OBVIOUS
    <2>2. \A m \in T : m \in Nat
      BY <2>1
    <2>3. T # {}
      OBVIOUS
    <2> HIDE DEF T
    <2> QED BY <2>2, <2>3
  <1>2. PICK m \in T : \A k \in T : m <= k
    <2> HIDE DEF T
    <2> QED BY <1>1, LeastPosition
  <1>3. PICK x \in S : m = n - x
    OBVIOUS
  <1>4. ASSUME NEW y \in S PROVE y <= x
    <2>1. n - y \in T
      OBVIOUS
    <2>2. n - x <= n - y /\ x \in Nat /\ y \in Nat
      BY <1>2, <1>3, <2>1
    <2> HIDE DEF T
    <2> QED BY <2>2
  <1> QED BY <1>4

(* Where lines begin and end. *)
Ends == {0, Len(index) + 1} \cup {i \in DOMAIN index : index[i] = Newline}

Line(p, q) == SubSeq(index, p + 1, q - 1)

LEMMA LinesAre ==
    Lines = {Line(p[1], p[2]) : p \in {q \in Ends \X Ends :
                q[1] < q[2] /\ \A e \in Ends : ~(q[1] < e /\ e < q[2])}}
  BY DEF Lines, Ends, Line

LEMMA LineContents ==
    ASSUME index \in IndexType, NEW p \in Ends, NEW q \in Ends, p < q
    PROVE  /\ p \in 0..Len(index) /\ q \in 1..Len(index) + 1
           /\ Line(p, q) \in IndexType /\ Len(Line(p, q)) = q - p - 1
           /\ \A i \in 1..q - p - 1 : Line(p, q)[i] = index[p + i]
  <1> DEFINE W == [file : 0..Candidates, part : 0..Parts]
  <1>1. Len(index) \in Nat /\ DOMAIN index = 1..Len(index) /\ index \in Seq(W)
    BY DEF IndexType
  <1> HIDE DEF W
  <1>2. p \in 0..Len(index) /\ q \in 1..Len(index) + 1
    BY <1>1 DEF Ends
  <1>3. p + 1 \in Int /\ q - 1 \in Int /\ \A i \in p + 1..q - 1 : index[i] \in W
    BY <1>1, <1>2
  <1>4. PICK m \in Int, n \in Int : m = p + 1 /\ n = q - 1
    BY <1>3
  <1>5. /\ SubSeq(index, m, n) \in Seq(W)
        /\ Len(SubSeq(index, m, n)) = IF m <= n THEN n - m + 1 ELSE 0
        /\ \A i \in 1..n - m + 1 : SubSeq(index, m, n)[i] = index[m + i - 1]
    BY <1>3, <1>4, SubSeqProperties
  <1>6. Line(p, q) = SubSeq(index, m, n) /\ n - m + 1 = q - p - 1
    BY <1>2, <1>4 DEF Line
  <1>7. Len(Line(p, q)) = q - p - 1
    BY <1>2, <1>4, <1>5, <1>6
  <1>8. ASSUME NEW i \in 1..q - p - 1 PROVE Line(p, q)[i] = index[p + i]
    <2>1. i \in 1..n - m + 1 /\ m + i - 1 = p + i
      BY <1>2, <1>4, <1>6
    <2> QED BY <1>5, <1>6, <2>1
  <1>9. Line(p, q) \in IndexType
    BY <1>5, <1>6 DEF W, IndexType
  <1> QED BY <1>2, <1>7, <1>8, <1>9

(* Every write that is not the end of a line is in one. *)
LEMMA WriteIsInALine ==
    ASSUME index \in IndexType, NEW i \in 1..Len(index), index[i] # Newline
    PROVE  \E p, q \in Ends : /\ p < i /\ i < q
                              /\ Line(p, q) \in Lines
  <1> DEFINE Below == {e \in Ends : e < i}
             Above == {e \in Ends : e > i}
  <1>1. Len(index) \in Nat /\ DOMAIN index = 1..Len(index) /\ i \in Nat
    BY DEF IndexType
  <1>2. /\ Ends \subseteq Nat /\ i \notin Ends
        /\ 0 \in Below /\ Len(index) + 1 \in Above
    BY <1>1 DEF Ends
  <1>3. Below \in SUBSET Nat /\ Below # {} /\ Above \in SUBSET Nat /\ Above # {}
    BY <1>2
  <1>4. \A e \in Below : e <= i
    BY <1>1, <1>2
  <1>5. PICK p \in Below : \A e \in Below : e <= p
    <2> HIDE DEF Below, Above
    <2> QED BY <1>1, <1>3, <1>4, GreatestPosition
  <1>6. PICK q \in Above : \A e \in Above : q <= e
    <2> HIDE DEF Below, Above
    <2> QED BY <1>3, LeastPosition
  <1>7. p \in Ends /\ q \in Ends /\ p < i /\ i < q /\ p \in Nat /\ q \in Nat
    BY <1>1, <1>2
  <1>8. ASSUME NEW e \in Ends, p < e, e < q PROVE FALSE
    <2>1. e \in Nat /\ e # i
      BY <1>2
    <2>2. CASE e < i
      BY <1>5, <1>7, <1>8, <2>1, <2>2
    <2>3. CASE e > i
      BY <1>6, <1>7, <1>8, <2>1, <2>3
    <2> QED BY <1>1, <2>1, <2>2, <2>3
  <1>9. Line(p, q) \in Lines
    <2>1. /\ <<p, q>> \in Ends \X Ends
          /\ <<p, q>>[1] = p /\ <<p, q>>[2] = q /\ p < q
      BY <1>1, <1>7
    <2> QED BY <1>8, <2>1, LinesAre
  <1> QED BY <1>7, <1>9

(* A line is made of writes of the index. *)
LEMMA LineIsWrites ==
    ASSUME index \in IndexType, NEW line \in Lines
    PROVE  /\ Len(line) \in Nat /\ DOMAIN line = 1..Len(line)
           /\ line # << >> => 1 \in DOMAIN line
           /\ \A k : Holds(line, k) => Indexed(k)
  <1>1. PICK p \in Ends, q \in Ends : p < q /\ line = Line(p, q)
    BY LinesAre
  <1>2. Len(index) \in Nat
    BY DEF IndexType
  <1>3. /\ p \in 0..Len(index) /\ q \in 1..Len(index) + 1
        /\ line \in IndexType /\ Len(line) = q - p - 1
        /\ \A j \in 1..q - p - 1 : line[j] = index[p + j]
    BY <1>1, LineContents
  <1>4. Len(line) \in Nat /\ DOMAIN line = 1..Len(line)
    BY <1>3 DEF IndexType
  <1>5. line # << >> => 1 \in DOMAIN line
    <2>1. Len(line) = 0 => line = << >>
      BY <1>3 DEF IndexType
    <2> QED BY <1>4, <2>1
  <1>6. ASSUME NEW k, Holds(line, k) PROVE Indexed(k)
    <2>1. PICK j \in 1..q - p - 1 : line[j].file = k
      BY <1>3, <1>4, <1>6 DEF Holds
    <2>2. p + j \in 1..Len(index) /\ index[p + j].file = k
      BY <1>2, <1>3, <2>1
    <2> QED BY <2>2 DEF Indexed
  <1> QED BY <1>4, <1>5, <1>6

(* What a line without an error is read as is on it, and is its only file  *)
(* unless the line is mixed.                                               *)
LEMMA ReadingIsOnLine ==
    ASSUME index \in IndexType, NEW line \in Lines, NEW r \in Readings(line), r # None
    PROVE  /\ r # Nowhere => Holds(line, r)
           /\ \A k : Holds(line, k) => r = k \/ Mixed(line)
  <1>1. line # << >> => 1 \in DOMAIN line
    BY LineIsWrites
  <1>2. CASE line = << >>
    <2>1. r = Nowhere
      BY <1>2 DEF Readings
    <2>2. DOMAIN line = {}
      BY <1>2
    <2> QED BY <2>1, <2>2 DEF Holds
  <1>3. CASE line # << >> /\ Mixed(line)
    <2>1. r = Nowhere \/ r \in {line[i].file : i \in DOMAIN line}
      BY <1>3 DEF Readings
    <2> QED BY <1>3, <2>1 DEF Holds
  <1>4. CASE line # << >> /\ ~Mixed(line)
    <2>1. r = line[1].file
      BY <1>4 DEF Readings
    <2>2. \A i \in DOMAIN line : line[i].file = r
      BY <1>1, <1>4, <2>1 DEF Mixed
    <2> QED BY <1>1, <1>4, <2>2 DEF Holds
  <1> QED BY <1>2, <1>3, <1>4

(***************************************************************************)
(* For any number of threads and of writes per record, however the writes  *)
(* to the index fall among each other and wherever one fails, and however  *)
(* the lines with pieces of several records are read: a list that is       *)
(* returned shows only files that are completely written, and every        *)
(* download that was returned unless its record shares a line with         *)
(* another's piece (append_download_record and downloads).                 *)
(***************************************************************************)
THEOREM ListingTrue == Spec => []ListingIsTrue
  <1>1. ASSUME IInv, IndexInv, NEW list \in Downloads, list # None
        PROVE  /\ \A k \in list : files[k].whole
               /\ \A d \in returned :
                     d.file \in list \/ \E line \in Lines : Mixed(line) /\ Holds(line, d.file)
    <2>1. PICK read : /\ \A line \in Lines : read[line] \in Readings(line)
                      /\ list = IF \E line \in Lines : read[line] = None THEN None
                                ELSE {k \in Name : files[k] # None
                                                   /\ \E line \in Lines : read[line] = k}
      BY <1>1 DEF Downloads
    <2>2. /\ \A line \in Lines : read[line] # None
          /\ list = {k \in Name : files[k] # None /\ \E line \in Lines : read[line] = k}
      BY <1>1, <2>1
    <2>3. index \in IndexType /\ Len(index) \in Nat
      BY <1>1 DEF IInv, TypeOK, IndexType
    <2>4. ASSUME NEW k \in list PROVE files[k].whole
      <3>1. PICK line \in Lines : read[line] = k
        BY <2>2
      <3>2. k \in Name /\ k # Nowhere
        BY <2>2, Constants DEF Name, Nowhere
      <3>3. Holds(line, k)
        BY <2>1, <2>2, <2>3, <3>1, <3>2, ReadingIsOnLine
      <3>4. PICK i \in 1..Len(index) : index[i].file = k
        BY <2>3, <3>3, LineIsWrites DEF Indexed
      <3>5. index[i] # Newline
        BY <3>2, <3>4, Constants DEF Newline, Name
      <3> QED BY <1>1, <3>4, <3>5 DEF IndexInv, WritesAreOfWholeFiles, Complete
    <2>5. ASSUME NEW d \in returned, \A line \in Lines : ~(Mixed(line) /\ Holds(line, d.file))
          PROVE  d.file \in list
      <3>1. d.file \in Name /\ files[d.file] # None
        BY <1>1, ReturnedIsThere
      <3>2. PICK i \in 1..Len(index) : index[i].file = d.file
        BY <1>1 DEF IndexInv, Indexed
      <3>3. index[i] # Newline
        BY <3>1, <3>2, Constants DEF Newline, Name
      <3>4. PICK p, q \in Ends : p < i /\ i < q /\ Line(p, q) \in Lines
        BY <2>3, <3>3, WriteIsInALine
      <3>5. p \in Nat /\ q \in Nat /\ i \in Nat /\ p < q
        BY <2>3, <3>4 DEF Ends, IndexType
      <3>6. /\ Len(Line(p, q)) = q - p - 1
            /\ \A j \in 1..q - p - 1 : Line(p, q)[j] = index[p + j]
        BY <2>3, <3>4, <3>5, LineContents
      <3>7. i - p \in 1..q - p - 1 /\ p + (i - p) = i
        BY <3>4, <3>5
      <3>8. Line(p, q)[i - p] = index[i] /\ i - p \in 1..Len(Line(p, q))
        BY <3>6, <3>7
      <3>9. i - p \in DOMAIN Line(p, q)
        BY <2>3, <3>4, <3>8, LineIsWrites
      <3>10. Holds(Line(p, q), d.file)
        BY <3>2, <3>8, <3>9 DEF Holds
      <3>11. read[Line(p, q)] = d.file
        BY <2>1, <2>2, <2>3, <2>5, <3>4, <3>10, ReadingIsOnLine
      <3> QED BY <2>2, <3>1, <3>4, <3>11
    <2> QED BY <2>4, <2>5
  <1>2. IInv /\ IndexInv => ListingIsTrue
    BY <1>1 DEF ListingIsTrue
  <1> QED BY <1>2, IndexInvHolds, PTL

=============================================================================
