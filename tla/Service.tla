------------------------------- MODULE Service --------------------------------
(***************************************************************************)
(* The HTTP service from its start to its stop (service/src/http and       *)
(* service/src/routes) over the pool of readers, HandlePool.               *)
(*                                                                         *)
(* The main task opens the store, opens the dimensions of PHS_PREWARM one  *)
(* after the other and only then listens.  A client takes its time to send *)
(* a request; when all of it is there it is parsed and validated on the    *)
(* async thread and worked off by a blocking task, which takes a reader    *)
(* from the pool for each dimension it names.  A client may go away; its   *)
(* task runs on.  After the shutdown signal no request begins any more,    *)
(* but one that has begun is waited for and answered, and the process ends *)
(* when no connection and no task is left.                                 *)
(*                                                                         *)
(* What a query finds in a reader is StoreQuery's subject and a free       *)
(* choice here; requests for metadata touch no state of this module.       *)
(***************************************************************************)
EXTENDS HandlePool

CONSTANTS
  Main,         \* the caller that is the main task
  PrewarmLists, \* values of PHS_PREWARM, sequences of dimensions
  Requests,     \* requests clients may send: [route, dims, valid]
  MaxRequests   \* bound on the requests of a run

ASSUME ServiceAssumption ==
  /\ Main \in Caller
  /\ PrewarmLists \subseteq Seq(Key)
  /\ \A r \in Requests :
       /\ DOMAIN r = {"route", "dims", "valid"}
       /\ r.route \in {"query", "prewarm", "ready"}
       /\ r.dims \in Seq(Key) /\ r.valid \in BOOLEAN
       /\ r.route = "query" => Len(r.dims) = 1
       /\ r.route = "prewarm" /\ r.valid => r.dims # <<>>
       /\ r.route = "ready" => r.dims = <<>> /\ r.valid
  /\ MaxRequests \in Nat
  /\ None \notin Requests
  /\ None \notin [request : Requests, left : Seq(Key), since : Nat, client : BOOLEAN]

VARIABLES
  phase,    \* of the process
  prewarm,  \* config.prewarm
  warm,     \* what the loop over it has left
  arriving, \* the request a client has begun to send on a worker's connection
  task,     \* the request a worker handles, with the dimensions left
  answer,   \* the last answer a worker sent
  begun     \* number of requests that clients have begun to send

service == <<phase, prewarm, warm, arriving, task, answer, begun>>
serviceVars == <<vars, service>>

Worker == Caller \ {Main}
OpenCount == Cardinality({k \in Known : handles[k] # None})

ServiceInit ==
  /\ Init
  /\ phase = "opening"
  /\ prewarm \in PrewarmLists /\ warm = prewarm
  /\ arriving = [w \in Worker |-> None]
  /\ task = [w \in Worker |-> None]
  /\ answer = [w \in Worker |-> None]
  /\ begun = 0

-----------------------------------------------------------------------------
(* Start                                                                   *)

\* Reads manifest.json twice and opens meta.db; any error ends the process.
\* No file of a dimension is opened.
OpenStore ==
  /\ phase = "opening"
  /\ phase' \in {"prewarming", "failed"}
  /\ UNCHANGED <<vars, prewarm, warm, arriving, task, answer, begun>>

PrewarmCall ==
  /\ phase = "prewarming" /\ warm # <<>>
  /\ GetOrOpen(Main, Head(warm))
  /\ UNCHANGED service

\* FAULT: a dimension that cannot be opened is tried again.
PrewarmRetries ==
  /\ phase = "prewarming"
  /\ Release(Main)
  /\ warm' = IF held[Main] \in Error THEN warm ELSE Tail(warm)
  /\ UNCHANGED <<phase, prewarm, arriving, task, answer, begun>>

\* FAULT: a dimension that cannot be opened is skipped.
PrewarmSkips ==
  /\ phase = "prewarming"
  /\ Release(Main)
  /\ warm' = Tail(warm)
  /\ UNCHANGED <<phase, prewarm, arriving, task, answer, begun>>

PrewarmReturns ==
  /\ phase = "prewarming"
  /\ Release(Main)
  /\ IF held[Main] \in Error
       THEN phase' = "failed" /\ UNCHANGED warm
       ELSE warm' = Tail(warm) /\ UNCHANGED phase
  /\ UNCHANGED <<prewarm, arriving, task, answer, begun>>

Listen ==
  /\ phase = "prewarming" /\ warm = <<>>
  /\ phase' \in {"serving", "failed"}
  /\ UNCHANGED <<vars, prewarm, warm, arriving, task, answer, begun>>

-----------------------------------------------------------------------------
(* Requests                                                                *)

\* The public code of AppError: the pool's errors are DIMENSION_NOT_FOUND and
\* DATA_FILE_NOT_FOUND, whatever made the open fail, and both are 404.
PublicCode(error) ==
  CASE error = DimensionNotFound -> 404
    [] error = OpenFailed -> 404

Answered(w, r, status, open, since) ==
  answer' = [answer EXCEPT ![w] =
    [request |-> r, status |-> status, open |-> open, since |-> since]]

\* axum::serve takes a connection, or the next request begins on one.  Nothing
\* bounds the time until all of it is there.
Arrive(w, r) ==
  /\ phase = "serving" /\ arriving[w] = None /\ task[w] = None
  /\ begun < MaxRequests
  /\ begun' = begun + 1
  /\ arriving' = [arriving EXCEPT ![w] = r]
  /\ UNCHANGED <<vars, phase, prewarm, warm, task, answer>>

\* ValidatedJson has got the whole body: a request that fails never becomes a
\* task.
Reject(w) ==
  /\ arriving[w] # None /\ ~arriving[w].valid
  /\ arriving' = [arriving EXCEPT ![w] = None]
  /\ Answered(w, arriving[w], 400, 0, clock)
  /\ UNCHANGED <<vars, phase, prewarm, warm, task, begun>>

\* Also after the signal, which closes only connections that are idle.
Accept(w) ==
  /\ arriving[w] # None /\ arriving[w].valid
  /\ arriving' = [arriving EXCEPT ![w] = None]
  /\ task' = [task EXCEPT ![w] =
       [request |-> arriving[w], left |-> arriving[w].dims, since |-> clock, client |-> TRUE]]
  /\ UNCHANGED <<vars, phase, prewarm, warm, answer, begun>>

\* The next dimension of the request.
Call(w) ==
  /\ task[w] # None /\ task[w].left # <<>>
  /\ GetOrOpen(w, Head(task[w].left))
  /\ UNCHANGED service

\* The task ends; its answer goes to the client if it is still there.
End(w, status, open) ==
  /\ task' = [task EXCEPT ![w] = None]
  /\ IF task[w].client
       THEN Answered(w, task[w].request, status, open, task[w].since)
       ELSE UNCHANGED answer
  /\ UNCHANGED <<phase, prewarm, warm, arriving, begun>>

\* FAULT: the call is made again.
CallAgain(w) ==
  /\ task[w] # None /\ held[w] \in Error
  /\ Release(w)
  /\ UNCHANGED service


\* A batch whose first hole cards are none reports these instead.
CallFails(w) ==
  /\ task[w] # None /\ held[w] \in Error
  /\ Release(w)
  /\ \E status \in {PublicCode(held[w])}
                    \cup (IF task[w].request.route = "query" THEN {400} ELSE {}) :
       End(w, status, 0)

\* FAULT: the task keeps its reader.
QueryLeaks(w) ==
  /\ task[w] # None /\ task[w].request.route = "query"
  /\ held[w] \notin Error \cup {None}
  /\ End(w, 200, 0)
  /\ UNCHANGED vars

\* A query reads its pack through the reader it holds; the reader may have
\* left the pool meanwhile.
QueryEnds(w) ==
  /\ task[w] # None /\ task[w].request.route = "query"
  /\ held[w] \notin Error
  /\ Release(w)
  /\ \E status \in {200, 400, 404, 500} : End(w, status, 0)

\* The hole cards of a single query are parsed before the pool is asked.
QueryRefused(w) ==
  /\ task[w] # None /\ task[w].request.route = "query"
  /\ held[w] = None
  /\ End(w, 400, 0)
  /\ UNCHANGED vars

\* FAULT: prewarm goes on to the next dimension without opening this one when
\* the pool is full.
PrewarmRouteSkips(w) ==
  /\ task[w] # None /\ task[w].request.route = "prewarm"
  /\ IF OpenCount = Capacity
       THEN task[w].left # <<>> /\ UNCHANGED vars
       ELSE held[w] \notin Error /\ Release(w)
  /\ task' = [task EXCEPT ![w].left = Tail(@)]
  /\ UNCHANGED <<phase, prewarm, warm, arriving, answer, begun>>

\* StoreQueryService::prewarm drops the reader.
PrewarmRouteReturns(w) ==
  /\ task[w] # None /\ task[w].request.route = "prewarm"
  /\ held[w] \notin Error
  /\ Release(w)
  /\ task' = [task EXCEPT ![w].left = Tail(@)]
  /\ UNCHANGED <<phase, prewarm, warm, arriving, answer, begun>>

PrewarmRouteEnds(w) ==
  /\ task[w] # None /\ task[w].request.route = "prewarm"
  /\ task[w].left = <<>> /\ held[w] = None
  /\ End(w, 200, OpenCount)
  /\ UNCHANGED vars

\* known_dimensions is what the manifest listed at the start.
ReadyEnds(w) ==
  /\ task[w] # None /\ task[w].request.route = "ready"
  /\ IF Known = {} THEN End(w, 503, 0) ELSE End(w, 200, OpenCount)
  /\ UNCHANGED vars

\* A request that has not arrived is dropped with its connection.  Of one at work
\* the future of the handler is dropped, the blocking task is not.
Disconnect(w) ==
  /\ \/ /\ arriving[w] # None
        /\ arriving' = [arriving EXCEPT ![w] = None]
        /\ UNCHANGED task
     \/ /\ task[w] # None /\ task[w].client
        /\ task' = [task EXCEPT ![w].client = FALSE]
        /\ UNCHANGED arriving
  /\ UNCHANGED <<vars, phase, prewarm, warm, answer, begun>>

-----------------------------------------------------------------------------
(* Stop                                                                    *)

\* SIGINT, or no handler for it could be installed.
Shutdown ==
  /\ phase = "serving"
  /\ phase' = "draining"
  /\ UNCHANGED <<vars, prewarm, warm, arriving, task, answer, begun>>

\* axum::serve returns when every connection is done, however long a client takes
\* over its request, and the runtime is dropped when the blocking tasks of clients
\* that have gone are done too.
Stop ==
  /\ phase = "draining"
  /\ \A w \in Worker : arriving[w] = None /\ task[w] = None
  /\ phase' = "stopped"
  /\ UNCHANGED <<vars, prewarm, warm, arriving, task, answer, begun>>

-----------------------------------------------------------------------------
Handle(w) ==
  \/ Call(w) \/ CallFails(w) \/ QueryEnds(w) \/ QueryRefused(w)
  \/ PrewarmRouteReturns(w) \/ PrewarmRouteEnds(w) \/ ReadyEnds(w)

Start == OpenStore \/ PrewarmCall \/ PrewarmReturns \/ Listen

ServiceNext ==
  \/ Start
  \/ \E w \in Worker, r \in Requests : Arrive(w, r)
  \/ \E w \in Worker : Reject(w) \/ Accept(w) \/ Handle(w) \/ Disconnect(w)
  \/ Shutdown \/ Stop
  \/ FilesChange /\ UNCHANGED service

\* The start and each task run on, the lock of the pool is not refused to one of
\* them forever, and what waits for the connections and tasks goes on when there
\* are none.  That a client ever sends the rest of its request is not assumed.
ServiceSpec ==
  /\ ServiceInit /\ [][ServiceNext]_serviceVars
  /\ WF_serviceVars(Start)
  /\ WF_serviceVars(Stop)
  /\ \A w \in Worker : WF_serviceVars(Handle(w))

-----------------------------------------------------------------------------
ServiceTypeOK ==
  /\ TypeOK
  /\ phase \in {"opening", "prewarming", "serving", "draining", "stopped", "failed"}
  /\ prewarm \in PrewarmLists /\ warm \in Seq(Key)
  /\ \A w \in Worker :
       /\ task[w] # None =>
            /\ task[w].request \in Requests /\ task[w].request.valid
            /\ phase \in {"serving", "draining"}
       /\ task[w] = None => held[w] = None
       /\ arriving[w] # None =>
            /\ arriving[w] \in Requests /\ task[w] = None
            /\ phase \in {"serving", "draining"}
       /\ answer[w] # None => answer[w].status \in {200, 400, 404, 500, 503}
  /\ phase # "prewarming" /\ phase # "failed" => held[Main] = None

\* Of the dimensions of s, those among the n most recent.
MostRecent(s, n) ==
  {s[i] : i \in {j \in DOMAIN s :
     /\ \A l \in (j + 1)..Len(s) : s[l] # s[j]
     /\ Cardinality({s[l] : l \in (j + 1)..Len(s)}) < n}}

\* The service listens only after every dimension of PHS_PREWARM was opened
\* without an error, and at that time the pool holds just those of them that
\* come last and fit (serve: the loop before TcpListener::bind, and the
\* eviction of a list longer than PHS_MAX_OPEN_HANDLES).
PrewarmedBeforeListening ==
  [][phase = "prewarming" /\ phase' = "serving" =>
       /\ \A i \in DOMAIN prewarm : lastUse[prewarm[i]] > 0
       /\ {k \in Known : handles[k] # None} = MostRecent(prewarm, Capacity)]_serviceVars

\* A dimension was returned by the pool after a time.
UsedSince(k, t) == k \in Known /\ lastUse[k] > t

\* What the answer a worker sent says of the pool, if it is a success of
\* /range/prewarm.
AnswerHolds(w) ==
  (answer[w] # None /\ answer[w].request.route = "prewarm" /\ answer[w].status = 200) =>
    LET asked == {answer[w].request.dims[i] : i \in DOMAIN answer[w].request.dims}
    IN /\ \A k \in asked : UsedSince(k, answer[w].since)
       /\ Cardinality(asked) <= answer[w].open \/ answer[w].open = Capacity
       /\ answer[w].open <= Capacity

\* A successful answer of /range/prewarm is true whatever other requests did
\* meanwhile: each of its dimensions was had from the pool since the request
\* came, and total_open is at least what it could keep open and at most the
\* limit (prewarm_impl reads the count after its last call, without the lock
\* in between).
PrewarmAnswerHolds == \A w \in Worker : AnswerHolds(w)

\* Every request that became a task ends, also when its client has gone or the
\* service is told to stop (run_blocking, with_graceful_shutdown).
RequestsEnd == \A w \in Worker : task[w] # None ~> task[w] = None

\* The start comes to an end, also when the files of PHS_PREWARM change under it:
\* the service listens or has failed (serve: the loop over config.prewarm).
StartEnds == <>(phase \notin {"opening", "prewarming"})

=============================================================================
