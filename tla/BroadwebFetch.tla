---------------------------- MODULE BroadwebFetch ----------------------------
(***************************************************************************)
(* Fetches through broadwebd in one browser process.  Every thread that    *)
(* fetches has a daemon of its own, with its own cached IPFS gateway; all  *)
(* of them share the status reporter of the session, the download          *)
(* directory and the index of the downloads.  A step is one system call,   *)
(* one answer of the network or one access to the shared status.           *)
(***************************************************************************)
EXTENDS Naturals, Sequences

CONSTANTS Threads,       \* the threads that fetch
          Requests,      \* the kinds of requests they make
          Gateways,      \* number of gateways; the first is the configured one
          Candidates,    \* number of file names tried for a download
          Taken,         \* those of files of other origin that are there
          Parts,         \* number of writes that make up an index record
          MaxFetches,    \* bound on the fetches of all threads
          MaxFailures,   \* bound on failing writes
          None

ASSUME FetchAssumption ==
    /\ Requests \subseteq [ipfs : BOOLEAN, valid : BOOLEAN, navigation : BOOLEAN]
    /\ Taken \subseteq 1..Candidates
    /\ {Gateways, Candidates, Parts} \subseteq Nat \ {0}
    /\ {MaxFetches, MaxFailures} \subseteq Nat

(* None is no file. *)
ASSUME NoneAssumption == None \notin [by : Nat, whole : BOOLEAN]

VARIABLES active,       \* active[t]: the gateway cached by the daemon of t
          pc,           \* pc[t]: what t does next
          job,          \* job[t]: the fetch of t
          status,       \* the shared status: its kind and its target, the address of a
                        \* fetch, for which there is a gateway URL or is not
          files,        \* files[k]: the file with the k-th candidate name
          index,        \* the writes to the download index, in order
          returned,     \* the downloads whose fetch returned them
          fetches,      \* number of fetches so far
          failures,     \* number of failed writes so far
          firstFailed   \* history: the first gateway failed t since its daemon
                        \* started or last gave up

vars == <<active, pc, job, status, files, index, returned, fetches, failures, firstFailed>>

Gateway == 1..Gateways
Name == 1..Candidates
InProgress == {"fetching", "switching"}

(* A fetch: its number, what was asked for, the gateway to start with, how *)
(* many were tried, the last response, and the name and the part of the    *)
(* index record that are next.                                             *)
NewJob(n, request, gateway) ==
    [id |-> n, request |-> request, start |-> gateway, tried |-> 0, last |-> None,
     file |-> 1, part |-> 1]

NoJob == NewJob(0, None, 1)

(* Files of other origin may be in the directory (it is the current one). *)
Foreign == [by |-> 0, whole |-> TRUE]

Init == /\ active = [t \in Threads |-> 1]
        /\ pc = [t \in Threads |-> "idle"]
        /\ job = [t \in Threads |-> NoJob]
        /\ status = [kind |-> "idle", target |-> 0, valid |-> TRUE]
        /\ files = [k \in Name |-> IF k \in Taken THEN Foreign ELSE None]
        /\ index = << >>
        /\ returned = {}
        /\ fetches = 0 /\ failures = 0
        /\ firstFailed = [t \in Threads |-> FALSE]

-----------------------------------------------------------------------------
(* Fetching. *)

Goto(t, label) == pc' = [pc EXCEPT ![t] = label]

SetStatus(t, kind) ==
    status' = [kind |-> kind, target |-> job[t].id, valid |-> job[t].request.valid]

Report == <<active, status, firstFailed>>
Disk == <<files, index, returned, failures>>

(* Return(t): the call ends, with a response or an error. *)
Return(t) == Goto(t, "idle") /\ job' = [job EXCEPT ![t] = NoJob]

(* BroadwebDaemon::fetch_http up to the transport; the attempt order is    *)
(* fixed by the gateway cached now.                                        *)
FetchHttp(t, request) ==
    /\ pc[t] = "idle" /\ fetches < MaxFetches
    /\ fetches' = fetches + 1
    /\ job' = [job EXCEPT ![t] = NewJob(fetches + 1, request, active[t])]
    /\ Goto(t, IF request.ipfs THEN "attempt" ELSE "request")
    /\ UNCHANGED <<Report, Disk>>

(* gateway_attempt_order: from the cached one, around. *)
Attempted(t) == ((job[t].start + job[t].tried - 1) % Gateways) + 1

(* publish_gateway_attempt_status, then the address for this gateway: one  *)
(* that has none ends the fetch.                                           *)
AttemptGateway(t) ==
    /\ pc[t] = "attempt"
    /\ SetStatus(t, IF Attempted(t) = active[t] THEN "fetching" ELSE "switching")
    /\ IF job[t].request.valid THEN Goto(t, "request") /\ UNCHANGED job ELSE Return(t)
    /\ UNCHANGED <<active, firstFailed, fetches, Disk>>

UsableResponse(t) ==
    /\ pc[t] = "request" /\ job[t].request.ipfs
    /\ active' = [active EXCEPT ![t] = Attempted(t)]
    /\ SetStatus(t, "complete")
    /\ job' = [job EXCEPT ![t].last = "ok"]
    /\ Goto(t, "respond")
    /\ UNCHANGED <<firstFailed, fetches, Disk>>

(* An error, a page that only loads a service worker ("ok" in HTTP's       *)
(* terms, like other successes than 200), or a failure status.             *)
UnusableResponse(t, response) ==
    /\ pc[t] = "request" /\ job[t].request.ipfs
    /\ SetStatus(t, "switching")
    /\ job' = [job EXCEPT ![t].tried = @ + 1,
                          ![t].last = IF response = None THEN @ ELSE response]
    /\ firstFailed' = [firstFailed EXCEPT ![t] = @ \/ Attempted(t) = 1]
    /\ Goto(t, IF job[t].tried + 1 = Gateways THEN "failed" ELSE "attempt")
    /\ UNCHANGED <<active, fetches, Disk>>

(* Variant of GatewaysFail: the cached gateway is kept. *)
GatewaysFailKeepCache(t) ==
    /\ pc[t] = "failed"
    /\ firstFailed' = [firstFailed EXCEPT ![t] = FALSE]
    /\ SetStatus(t, "error")
    /\ IF job[t].last = None THEN Return(t) ELSE Goto(t, "respond") /\ UNCHANGED job
    /\ UNCHANGED <<active, fetches, Disk>>

(* Variant of GatewaysFail: a page is returned before the status is set. *)
GatewaysFailQuietly(t) ==
    /\ pc[t] = "failed"
    /\ active' = [active EXCEPT ![t] = 1]
    /\ firstFailed' = [firstFailed EXCEPT ![t] = FALSE]
    /\ IF job[t].last = None THEN SetStatus(t, "error") /\ Return(t)
                             ELSE Goto(t, "respond") /\ UNCHANGED <<job, status>>
    /\ UNCHANGED <<fetches, Disk>>

(* Variant of GatewaysFail: an error starts the attempts again. *)
GatewaysFailRetry(t) ==
    /\ pc[t] = "failed"
    /\ active' = [active EXCEPT ![t] = 1]
    /\ firstFailed' = [firstFailed EXCEPT ![t] = FALSE]
    /\ SetStatus(t, "error")
    /\ IF job[t].last = None
       THEN Goto(t, "attempt") /\ job' = [job EXCEPT ![t].tried = 0, ![t].start = 1]
       ELSE Goto(t, "respond") /\ UNCHANGED job
    /\ UNCHANGED <<fetches, Disk>>

(* No gateway was usable: the last response if there was one, else the     *)
(* last error.                                                             *)
GatewaysFail(t) ==
    /\ pc[t] = "failed"
    /\ active' = [active EXCEPT ![t] = 1]
    /\ firstFailed' = [firstFailed EXCEPT ![t] = FALSE]
    /\ SetStatus(t, "error")
    /\ IF job[t].last = None THEN Return(t) ELSE Goto(t, "respond") /\ UNCHANGED job
    /\ UNCHANGED <<fetches, Disk>>

(* DirectHttpTransport: one request, which leaves the status alone. *)
DirectResponse(t, response) ==
    /\ pc[t] = "request" /\ ~job[t].request.ipfs
    /\ IF response = None THEN Return(t)
       ELSE Goto(t, "respond") /\ job' = [job EXCEPT ![t].last = response]
    /\ UNCHANGED <<Report, fetches, Disk>>

(* Only a navigation is recorded, and only a success can be a download: by *)
(* its type, its headers or the request.                                   *)
Respond(t, download) ==
    /\ pc[t] = "respond"
    /\ download => job[t].request.navigation /\ job[t].last = "ok"
    /\ IF download THEN Goto(t, "create") /\ UNCHANGED job ELSE Return(t)
    /\ UNCHANGED <<Report, fetches, Disk>>

-----------------------------------------------------------------------------
(* Storing a download. *)

(* Variant of NameIsFree: no file of other origin, and not in the index. *)
NameIsNotIndexed(k) ==
    files[k] # Foreign /\ \A i \in DOMAIN index : index[i].file # k

(* create_new succeeds. *)
NameIsFree(k) == files[k] = None

CreateDownload(t) ==
    LET k == job[t].file
    IN /\ pc[t] = "create"
       /\ IF NameIsFree(k)
          THEN /\ files' = [files EXCEPT ![k] = [by |-> job[t].id, whole |-> FALSE]]
               /\ Goto(t, "write") /\ UNCHANGED job
          ELSE /\ UNCHANGED files
               /\ IF k = Candidates THEN Return(t)
                  ELSE job' = [job EXCEPT ![t].file = k + 1] /\ UNCHANGED pc
       /\ UNCHANGED <<Report, index, returned, failures, fetches>>

WriteDownload(t) ==
    /\ pc[t] = "write"
    /\ files' = [files EXCEPT ![job[t].file] = [by |-> job[t].id, whole |-> TRUE]]
    /\ Goto(t, "record")
    /\ UNCHANGED <<Report, job, index, returned, failures, fetches>>

(* The end of a line; it is a write of its own. *)
Newline == [file |-> 0, part |-> 0]

(* append_download_record: the record goes to the file piece by piece. *)
AppendRecord(t) ==
    /\ pc[t] = "record"
    /\ IF job[t].part <= Parts
       THEN /\ index' = Append(index, [file |-> job[t].file, part |-> job[t].part])
            /\ job' = [job EXCEPT ![t].part = @ + 1]
            /\ UNCHANGED <<pc, returned>>
       ELSE /\ index' = Append(index, Newline)
            /\ returned' = returned \cup {[by |-> job[t].id, file |-> job[t].file]}
            /\ Return(t)
    /\ UNCHANGED <<Report, files, failures, fetches>>

(* Variant of WriteFails: an error of the body's write is passed over. *)
WriteErrorIgnored(t) ==
    /\ pc[t] \in {"create", "write", "record"}
    /\ failures < MaxFailures
    /\ failures' = failures + 1
    /\ IF pc[t] = "write" THEN Goto(t, "record") /\ UNCHANGED job ELSE Return(t)
    /\ UNCHANGED <<Report, files, index, returned, fetches>>

(* A file cannot be opened or a write fails: what was written stays, and   *)
(* the fetch is an error.                                                  *)
WriteFails(t) ==
    /\ pc[t] \in {"create", "write", "record"}
    /\ failures < MaxFailures
    /\ failures' = failures + 1
    /\ Return(t)
    /\ UNCHANGED <<Report, files, index, returned, fetches>>

-----------------------------------------------------------------------------
(* Listing the downloads. *)

Record(k) == [p \in 1..Parts |-> [file |-> k, part |-> p]]

(* The lines of the index, the last one perhaps without its end. *)
Lines ==
    LET ends == {0, Len(index) + 1} \cup {i \in DOMAIN index : index[i] = Newline}
    IN {SubSeq(index, p[1] + 1, p[2] - 1) :
           p \in {q \in ends \X ends : q[1] < q[2] /\ \A e \in ends : ~(q[1] < e /\ e < q[2])}}

(* Pieces of several records are on the line. *)
Mixed(line) == \E i, j \in DOMAIN line : line[i].file # line[j].file

Holds(line, k) == \E i \in DOMAIN line : line[i].file = k

(* No file: the line is empty, or its path leads to nothing. *)
Nowhere == 0

(* What a line may be read as: the file of its path, Nowhere, or None for  *)
(* an error.  Where the pieces of several records meet, one may be inside  *)
(* a string of the other, so that the line is a record with another name   *)
(* or another path; that such a path is one of a file by chance is left    *)
(* out.                                                                    *)
Readings(line) ==
    IF line = << >> THEN {Nowhere}
    ELSE IF Mixed(line) THEN {None, Nowhere} \cup {line[i].file : i \in DOMAIN line}
    ELSE {IF line = Record(line[1].file) THEN line[1].file ELSE None}

(* downloads: the lists it may return, or None as one line is an error. *)
Downloads ==
    {IF \E line \in Lines : read[line] = None THEN None
     ELSE {k \in Name : files[k] # None /\ \E line \in Lines : read[line] = k} :
        read \in {f \in [Lines -> Name \cup {Nowhere, None}] :
                    \A line \in Lines : f[line] \in Readings(line)}}

-----------------------------------------------------------------------------

Thread(t) ==
    \/ AttemptGateway(t)
    \/ UsableResponse(t)
    \/ \E response \in {None, "ok", "failure"} :
          UnusableResponse(t, response) \/ DirectResponse(t, response)
    \/ GatewaysFail(t)
    \/ \E download \in BOOLEAN : Respond(t, download)
    \/ CreateDownload(t)
    \/ WriteDownload(t)
    \/ AppendRecord(t)

Next == \E t \in Threads :
           \/ \E request \in Requests : FetchHttp(t, request)
           \/ Thread(t)
           \/ WriteFails(t)

Spec == Init /\ [][Next]_vars

(* A fetch under way goes on: requests have a time limit (REQUEST_TIMEOUT) *)
(* and system calls return.                                                *)
FairSpec == Spec /\ \A t \in Threads : WF_vars(Thread(t))

-----------------------------------------------------------------------------

Job == [id : Nat, request : Requests \cup {None}, start : Gateway, tried : 0..Gateways,
        last : {None, "ok", "failure"}, file : Name, part : 1..(Parts + 1)]

TypeOK ==
    /\ active \in [Threads -> Gateway]
    /\ pc \in [Threads -> {"idle", "attempt", "request", "failed", "respond", "create",
                           "write", "record"}]
    /\ job \in [Threads -> Job]
    /\ \A t \in Threads :
          /\ IF pc[t] = "idle" THEN job[t] = NoJob
             ELSE job[t].id \in 1..fetches /\ job[t].request \in Requests
          /\ pc[t] \in {"attempt", "request"} => job[t].tried < Gateways
    /\ status \in [kind : {"idle", "fetching", "switching", "complete", "error"},
                   target : 0..fetches, valid : BOOLEAN]
    /\ files \in [Name -> {None} \cup [by : 0..fetches, whole : BOOLEAN]]
    /\ index \in Seq([file : 0..Candidates, part : 0..Parts])
    /\ returned \subseteq [by : 1..fetches, file : Name]
    /\ fetches \in 0..MaxFetches /\ failures \in 0..MaxFailures
    /\ firstFailed \in [Threads -> BOOLEAN]

(***************************************************************************)
(* A download keeps its file: the file named to the page holds its whole   *)
(* body and no other fetch, in whichever thread, writes to it, nor to a    *)
(* file that was there before (create_new in store_download).              *)
(***************************************************************************)
DownloadsKeepTheirFiles ==
    /\ \A d \in returned : files[d.file] = [by |-> d.by, whole |-> TRUE]
    /\ \A k \in Taken : files[k] = Foreign

(***************************************************************************)
(* When the downloads can be listed, the list shows nothing that is not    *)
(* completely written and every download that was returned, however the    *)
(* threads' writes to the index fall among each other; only a download     *)
(* whose record shares a line with a piece of another record, of a thread  *)
(* at the same time or left by a write that failed, may be missing         *)
(* although there is no error.                                             *)
(***************************************************************************)
ListingIsTrue ==
    \A list \in Downloads \ {None} :
       /\ \A k \in list : files[k].whole
       /\ \A d \in returned :
             d.file \in list \/ \E line \in Lines : Mixed(line) /\ Holds(line, d.file)

(***************************************************************************)
(* Another gateway than the configured one is asked only after that one    *)
(* failed since the daemon started or last gave up (the gateway that was   *)
(* used last is cached and asked first).                                   *)
(***************************************************************************)
ConfiguredGatewayFirst ==
    \A t \in Threads :
       pc[t] = "request" /\ job[t].request.ipfs /\ Attempted(t) # 1 => firstFailed[t]

(***************************************************************************)
(* The footer shows progress only while the fetch it names is under way,   *)
(* or that fetch was of an address for which there is no gateway URL       *)
(* (ipfs_gateway_http_url fails after the attempt was announced).          *)
(***************************************************************************)
ProgressIsReal ==
    status.kind \in InProgress /\ status.valid =>
       \E t \in Threads : job[t].id = status.target

(***************************************************************************)
(* Every fetch ends, with whatever gateways that fail, names that are      *)
(* taken and writes that fail.                                             *)
(***************************************************************************)
EveryFetchEnds == \A t \in Threads : pc[t] # "idle" ~> pc[t] = "idle"

=============================================================================
