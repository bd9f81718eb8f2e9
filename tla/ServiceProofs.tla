----------------------------- MODULE ServiceProofs -----------------------------
(***************************************************************************)
(* The HTTP service listens when it is warm and tells the truth about what *)
(* it prewarmed, for all numbers of workers and requests, lists of         *)
(* dimensions and limits (TLC: MCService).                                 *)
(***************************************************************************)
EXTENDS Service, HandlePoolProofs

Task == [request : Requests, left : Seq(Key), since : Nat, client : BOOLEAN]
Answer == [request : Requests, status : {200, 400, 404, 500, 503}, open : Nat, since : Nat]

\* The variables of the service have their types.
ServiceTypes ==
  /\ phase \in {"opening", "prewarming", "serving", "draining", "stopped", "failed"}
  /\ prewarm \in PrewarmLists /\ warm \in Seq(Key)
  /\ arriving \in [Worker -> Requests \cup {None}]
  /\ task \in [Worker -> Task \cup {None}]
  /\ answer \in [Worker -> Answer \cup {None}]

\* Only a caller that is at work holds what it got from the pool, and it got it
\* for the first of the dimensions it has left.  A connection brings a request only
\* while its worker has none, and until the service stops.
HoldersAtWork ==
  /\ \A w \in Worker :
       /\ task[w] # None => task[w].request.valid /\ phase \in {"serving", "draining"}
       /\ arriving[w] # None => task[w] = None /\ phase \in {"serving", "draining"}
       /\ held[w] # None => task[w] # None /\ task[w].left # <<>>
  /\ held[Main] # None => phase = "prewarming" /\ warm # <<>>

\* The dimensions of a sequence that are done when some are left: those left
\* are its end.
Remaining(left, dims) ==
  /\ Len(left) <= Len(dims)
  /\ \A i \in 1..Len(left) : left[i] = dims[Len(dims) - Len(left) + i]

\* What a task has had from the pool since its request came.
Progress(w) ==
  task[w] # None =>
    LET dims == task[w].request.dims
        done == Len(dims) - Len(task[w].left)
    IN /\ Remaining(task[w].left, dims)
       /\ task[w].since <= clock
       /\ \A i \in 1..done : UsedSince(dims[i], task[w].since)
       /\ held[w] \notin Error \cup {None} => UsedSince(dims[done + 1], task[w].since)

TaskProgress == \A w \in Worker : Progress(w)

\* The number of dimensions of PHS_PREWARM that were had from the pool.
Warmed ==
  Len(prewarm) - Len(warm) + (IF held[Main] \in Error \cup {None} THEN 0 ELSE 1)

\* Before the service listens the pool was used for these dimensions only, one
\* after the other.
OnlyPrewarmed ==
  phase \in {"opening", "prewarming"} =>
    /\ Remaining(warm, prewarm)
    /\ clock = Warmed
    /\ \A i \in 1..Warmed : prewarm[i] \in Known
    /\ \A k \in Known :
         \/ lastUse[k] = 0 /\ \A i \in 1..Warmed : prewarm[i] # k
         \/ /\ lastUse[k] \in 1..Warmed /\ prewarm[lastUse[k]] = k
            /\ \A i \in (lastUse[k] + 1)..Warmed : prewarm[i] # k

\* The inductive invariant of the service.
ServiceInv ==
  /\ TypeOK /\ PoolInv
  /\ ServiceTypes /\ HoldersAtWork /\ TaskProgress /\ OnlyPrewarmed
  /\ PrewarmAnswerHolds

-----------------------------------------------------------------------------
(* What the service does to the pool                                       *)

\* A call of the pool by c for k: it returns an error and leaves the times of use
\* alone, or a reader, and k was the last to be used.
LEMMA CallEffect ==
  ASSUME TypeOK, NEW c \in Caller, NEW k \in Key, GetOrOpen(c, k)
  PROVE  /\ held[c] = None
         /\ \/ /\ \E e \in Error : held' = [held EXCEPT ![c] = e]
               /\ UNCHANGED <<clock, lastUse>>
            \/ /\ \E r \in Reader : held' = [held EXCEPT ![c] = r]
               /\ k \in Known
               /\ clock' = clock + 1
               /\ lastUse' = [lastUse EXCEPT ![k] = clock + 1]
<1>1. CASE Hit(c, k)
  BY <1>1 DEF Hit, Return, TypeOK
<1>2. CASE Open(c, k)
  <2>1. /\ held[c] = None /\ k \in Known
        /\ Return(c, k, [key |-> k, opened |-> clock + 1])
    BY <1>2 DEF Open
  <2>2. [key |-> k, opened |-> clock + 1] \in Reader
    BY <2>1 DEF Reader, TypeOK
  <2> QED
    BY <2>1, <2>2 DEF Return
<1>3. CASE Fail(c, k)
  BY <1>3 DEF Fail, Error
<1> QED
  BY <1>1, <1>2, <1>3 DEF GetOrOpen

\* Times of use only grow.
LEMMA UseGrows ==
  ASSUME TypeOK, [Next]_vars
  PROVE  /\ clock' >= clock
         /\ \A k \in Known : lastUse'[k] >= lastUse[k]
<1>1. clock \in Nat /\ lastUse \in [Known -> 0..clock]
  BY DEF TypeOK
<1>2. ASSUME NEW c \in Caller, NEW k \in Key, GetOrOpen(c, k)
      PROVE  clock' >= clock /\ \A j \in Known : lastUse'[j] >= lastUse[j]
  BY <1>1, <1>2, CallEffect
<1>3. ASSUME NEW c \in Caller, Release(c)
      PROVE  UNCHANGED <<clock, lastUse>>
  BY <1>3 DEF Release
<1>4. ASSUME FilesChange
      PROVE  UNCHANGED <<clock, lastUse>>
  BY <1>4 DEF FilesChange
<1> QED
  BY <1>1, <1>2, <1>3, <1>4 DEF Next, vars

\* A sequence that is not empty and its end.
LEMMA HeadAndTail ==
  ASSUME NEW S, NEW s \in Seq(S), s # <<>>
  PROVE  /\ Len(s) \in Nat \ {0} /\ Head(s) = s[1] /\ Head(s) \in S
         /\ Tail(s) \in Seq(S) /\ Len(Tail(s)) = Len(s) - 1
         /\ \A i \in 1..(Len(s) - 1) : Tail(s)[i] = s[i + 1]
  OBVIOUS

LEMMA TailRemains ==
  ASSUME NEW S, NEW s \in Seq(S), NEW t \in Seq(S), s # <<>>, Remaining(s, t)
  PROVE  /\ Remaining(Tail(s), t)
         /\ Head(s) = t[Len(t) - Len(s) + 1]
         /\ Len(t) - Len(Tail(s)) = Len(t) - Len(s) + 1
<1>1. Len(s) \in Nat \ {0} /\ Len(t) \in Nat
  BY HeadAndTail
<1> QED
  BY <1>1, HeadAndTail DEF Remaining

LEMMA WorkersAreCallers == /\ Worker \subseteq Caller /\ Main \in Caller
                           /\ Main \notin Worker
  BY ServiceAssumption DEF Worker

\* The service takes no step of the pool that its callers may not take.
LEMMA ServiceStepsPool ==
  ASSUME ServiceTypes, HoldersAtWork, [ServiceNext]_serviceVars
  PROVE  [Next]_vars
<1>1. CASE Start
  <2>1. ASSUME PrewarmCall PROVE Next
    <3>1. warm # <<>> /\ warm \in Seq(Key) /\ GetOrOpen(Main, Head(warm))
      BY <2>1 DEF PrewarmCall, ServiceTypes
    <3>2. Head(warm) \in Key
      BY <3>1, HeadAndTail
    <3> QED
      BY <3>1, <3>2, WorkersAreCallers DEF Next
  <2> QED
    BY <1>1, <2>1, WorkersAreCallers DEF Start, OpenStore, PrewarmReturns, Listen, Next
<1>2. ASSUME NEW w \in Worker,
             Reject(w) \/ Accept(w) \/ \E r \in Requests : Arrive(w, r)
      PROVE  UNCHANGED vars
  BY <1>2 DEF Arrive, Reject, Accept
<1>3. ASSUME NEW w \in Worker, Handle(w) \/ Disconnect(w)
      PROVE  [Next]_vars
  <2>1. ASSUME Call(w) PROVE Next
    <3>1. task[w] \in Task /\ task[w].left # <<>> /\ GetOrOpen(w, Head(task[w].left))
      BY <2>1 DEF Call, ServiceTypes
    <3>2. Head(task[w].left) \in Key
      BY <3>1, HeadAndTail DEF Task
    <3> QED
      BY <3>1, <3>2, WorkersAreCallers DEF Next
  <2> QED
    BY <1>3, <2>1, WorkersAreCallers DEF Handle, CallFails, QueryEnds, QueryRefused,
       PrewarmRouteReturns, PrewarmRouteEnds, ReadyEnds, Disconnect, Next
<1>4. CASE Shutdown \/ Stop
  BY <1>4 DEF Shutdown, Stop
<1>5. CASE FilesChange
  BY <1>5 DEF Next
<1>6. CASE UNCHANGED serviceVars
  BY <1>6 DEF serviceVars
<1> QED
  BY <1>1, <1>2, <1>3, <1>4, <1>5, <1>6 DEF ServiceNext

-----------------------------------------------------------------------------
(* The inductive invariant                                                 *)

LEMMA ServiceStart == ServiceInit => ServiceInv
<1> SUFFICES ASSUME ServiceInit PROVE ServiceInv
  OBVIOUS
<1>1. TypeOK /\ PoolInv
  BY PoolInit DEF ServiceInit
<1>2. prewarm \in Seq(Key) /\ Len(prewarm) \in Nat /\ warm = prewarm
  BY ServiceAssumption, LenProperties DEF ServiceInit
<1>3. ServiceTypes
  BY <1>2 DEF ServiceInit, ServiceTypes
<1>4. HoldersAtWork /\ TaskProgress /\ PrewarmAnswerHolds
  BY WorkersAreCallers DEF ServiceInit, Init, HoldersAtWork, TaskProgress, Progress,
     PrewarmAnswerHolds, AnswerHolds
<1>5. OnlyPrewarmed
  <2>1. Warmed = 0
    BY <1>2, WorkersAreCallers DEF ServiceInit, Init, Warmed
  <2> QED
    BY <1>2, <2>1 DEF ServiceInit, Init, OnlyPrewarmed, Remaining
<1> QED
  BY <1>1, <1>3, <1>4, <1>5 DEF ServiceInv

\* A step of the pool takes nothing back of the progress of a task, or of what
\* an answer says.
LEMMA ProgressKept ==
  ASSUME ServiceInv, [Next]_vars, NEW w \in Worker,
         task[w] # None, task'[w] # None,
         task'[w].request = task[w].request, task'[w].left = task[w].left,
         task'[w].since = task[w].since, held'[w] = held[w]
  PROVE  Progress(w)'
<1>1. task[w].since \in Nat /\ clock \in Nat /\ \A k \in Known : lastUse[k] \in Nat
  BY DEF ServiceInv, ServiceTypes, Task, TypeOK
<1>2. Progress(w)
  BY DEF ServiceInv, TaskProgress
<1>3. clock' \in Nat /\ \A k \in Known : lastUse'[k] \in Nat
  BY PoolStep DEF ServiceInv, TypeOK
<1>4. task'[w].since <= clock'
  BY <1>1, <1>2, <1>3, UseGrows DEF Progress, ServiceInv
<1>5. \A k : UsedSince(k, task[w].since) => UsedSince(k, task[w].since)'
  BY <1>1, <1>3, UseGrows DEF UsedSince, ServiceInv
<1> QED
  BY <1>2, <1>4, <1>5 DEF Progress, UsedSince

LEMMA AnswerKept ==
  ASSUME ServiceInv, [Next]_vars, NEW w \in Worker, answer'[w] = answer[w]
  PROVE  AnswerHolds(w)'
<1>1. \A k \in Known : lastUse[k] \in Nat /\ lastUse'[k] \in Nat
  BY PoolStep DEF ServiceInv, TypeOK
<1>2. AnswerHolds(w)
  BY DEF ServiceInv, PrewarmAnswerHolds
<1>3. ASSUME answer[w] # None, NEW k, UsedSince(k, answer[w].since)
      PROVE  UsedSince(k, answer[w].since)'
  BY <1>1, <1>3, UseGrows DEF UsedSince, ServiceInv, ServiceTypes, Answer
<1> QED
  BY <1>2, <1>3 DEF AnswerHolds, UsedSince

\* The first of the dimensions that are left was had from the pool.
LEMMA StartStep ==
  ASSUME ServiceInv, [Next]_vars, Start
  PROVE  ServiceTypes' /\ HoldersAtWork' /\ TaskProgress' /\ OnlyPrewarmed' /\ PrewarmAnswerHolds'
<1>1. /\ UNCHANGED <<prewarm, arriving, task, answer>>
      /\ phase \in {"opening", "prewarming"}
      /\ \A w \in Worker : task[w] = None /\ arriving[w] = None
  BY DEF Start, OpenStore, PrewarmCall, PrewarmReturns, Listen, service, ServiceInv, HoldersAtWork
<1>2. TaskProgress' /\ PrewarmAnswerHolds'
  BY <1>1, AnswerKept DEF PrewarmAnswerHolds, TaskProgress, Progress
<1>3. /\ prewarm \in Seq(Key) /\ Len(prewarm) \in Nat
      /\ warm \in Seq(Key) /\ Len(warm) \in Nat
      /\ held \in [Caller -> Reader \cup Error \cup {None}]
      /\ clock \in Nat /\ lastUse \in [Known -> 0..clock]
  BY ServiceAssumption, LenProperties DEF ServiceInv, ServiceTypes, TypeOK
<1>4. ServiceTypes /\ HoldersAtWork /\ OnlyPrewarmed
  BY DEF ServiceInv
<1>5. CASE OpenStore
  BY <1>1, <1>2, <1>4, <1>5 DEF OpenStore, vars, ServiceTypes, HoldersAtWork, OnlyPrewarmed, Warmed
<1>6. CASE Listen
  BY <1>1, <1>2, <1>3, <1>4, <1>6 DEF Listen, vars, ServiceTypes, HoldersAtWork, OnlyPrewarmed
<1>7. CASE PrewarmReturns
  <2>1. /\ phase = "prewarming" /\ held[Main] # None /\ warm # <<>>
        /\ held' = [held EXCEPT ![Main] = None] /\ UNCHANGED <<clock, lastUse>>
    BY <1>4, <1>7 DEF PrewarmReturns, Release, HoldersAtWork
  <2>2. ServiceTypes' /\ HoldersAtWork'
    <3>1. warm' \in Seq(Key) /\ phase' \in {"prewarming", "failed"}
      BY <1>3, <1>7, <2>1, HeadAndTail DEF PrewarmReturns
    <3>2. held'[Main] = None /\ \A w \in Worker : held'[w] = held[w]
      BY <1>3, <2>1, WorkersAreCallers
    <3> QED
      BY <1>1, <1>4, <2>1, <3>1, <3>2 DEF ServiceTypes, HoldersAtWork
  <2>3. CASE held[Main] \in Error
    BY <1>2, <1>7, <2>2, <2>3 DEF PrewarmReturns, OnlyPrewarmed
  <2>4. CASE held[Main] \notin Error
    <3>1. warm' = Tail(warm) /\ phase' = phase
      BY <1>7, <2>4 DEF PrewarmReturns
    <3>2. Warmed' = Warmed
      BY <1>1, <1>3, <2>1, <2>4, <3>1, HeadAndTail, WorkersAreCallers DEF Warmed
    <3>3. Remaining(warm', prewarm)
      BY <1>3, <1>4, <2>1, <3>1, TailRemains DEF OnlyPrewarmed
    <3>4. OnlyPrewarmed'
      BY <1>1, <1>4, <2>1, <3>1, <3>2, <3>3 DEF OnlyPrewarmed
    <3> QED
      BY <1>2, <2>2, <3>4
  <2> QED
    BY <2>3, <2>4
<1>8. CASE PrewarmCall
  <2> DEFINE k == Head(warm)
             done == Len(prewarm) - Len(warm)
  <2>1. /\ phase = "prewarming" /\ warm # <<>> /\ GetOrOpen(Main, k)
        /\ UNCHANGED <<phase, warm>>
    BY <1>8 DEF PrewarmCall, service
  <2>2. k \in Key /\ k = prewarm[done + 1] /\ done \in Nat
    BY <1>3, <1>4, <2>1, HeadAndTail, TailRemains DEF OnlyPrewarmed, Remaining
  <2> HIDE DEF k
  <2>3. held[Main] = None /\ Warmed = done
    BY <1>3, <2>1, <2>2, CallEffect, WorkersAreCallers DEF ServiceInv, Warmed
  <2>4. \A w \in Worker : held'[w] = held[w]
    BY <1>3, <2>1, <2>2, CallEffect, WorkersAreCallers DEF ServiceInv
  <2>5. ServiceTypes' /\ HoldersAtWork'
    BY <1>1, <1>4, <2>1, <2>4 DEF ServiceTypes, HoldersAtWork
  <2>6. CASE /\ \E e \in Error : held' = [held EXCEPT ![Main] = e]
             /\ UNCHANGED <<clock, lastUse>>
    <3>1. Warmed' = Warmed
      BY <1>1, <1>3, <2>1, <2>3, <2>6, WorkersAreCallers DEF Warmed
    <3> QED
      BY <1>1, <1>2, <1>4, <2>1, <2>5, <2>6, <3>1 DEF OnlyPrewarmed
  <2>7. CASE /\ \E r \in Reader : held' = [held EXCEPT ![Main] = r]
             /\ k \in Known /\ clock' = clock + 1
             /\ lastUse' = [lastUse EXCEPT ![k] = clock + 1]
    <3>1. Warmed' = done + 1
      BY <1>1, <1>3, <2>1, <2>2, <2>7, NoneAssumption, WorkersAreCallers DEF Warmed, Error
    <3>2. clock = done /\ (\A i \in 1..done : prewarm[i] \in Known)
      BY <1>4, <2>1, <2>3 DEF OnlyPrewarmed
    <3>3. \A i \in 1..(done + 1) : prewarm[i] \in Known
      BY <2>2, <2>7, <3>2
    <3>4. ASSUME NEW j \in Known
          PROVE  \/ lastUse'[j] = 0 /\ \A i \in 1..(done + 1) : prewarm[i] # j
                 \/ /\ lastUse'[j] \in 1..(done + 1) /\ prewarm[lastUse'[j]] = j
                    /\ \A i \in (lastUse'[j] + 1)..(done + 1) : prewarm[i] # j
      <4>1. \/ lastUse[j] = 0 /\ \A i \in 1..done : prewarm[i] # j
            \/ /\ lastUse[j] \in 1..done /\ prewarm[lastUse[j]] = j
               /\ \A i \in (lastUse[j] + 1)..done : prewarm[i] # j
        BY <1>4, <2>1, <2>3 DEF OnlyPrewarmed
      <4>2. CASE j = k
        BY <1>3, <2>2, <2>7, <3>2, <4>2
      <4>3. CASE j # k
        <5>1. lastUse'[j] = lastUse[j]
          BY <1>3, <2>7, <4>3
        <5>2. prewarm[done + 1] # j
          BY <2>2, <4>3
        <5> QED
          BY <2>2, <4>1, <5>1, <5>2
      <4> QED
        BY <4>2, <4>3
    <3>5. Remaining(warm', prewarm')
      BY <1>1, <1>4, <2>1 DEF OnlyPrewarmed
    <3>6. OnlyPrewarmed'
      BY <1>1, <2>1, <2>7, <3>1, <3>2, <3>3, <3>4, <3>5 DEF OnlyPrewarmed
    <3> QED
      BY <1>2, <2>5, <3>6
  <2> QED
    BY <2>1, <2>2, <2>6, <2>7, CallEffect, WorkersAreCallers DEF ServiceInv
<1> QED
  BY <1>5, <1>6, <1>7, <1>8 DEF Start

-----------------------------------------------------------------------------
(* Requests                                                                *)

\* What the invariant says of one worker.
Local(w) ==
  /\ task[w] # None => task[w].request.valid
  /\ arriving[w] # None => task[w] = None
  /\ held[w] # None => task[w] # None /\ task[w].left # <<>>
  /\ Progress(w) /\ AnswerHolds(w)

\* A step of one worker leaves the other workers and the main task alone.
LEMMA WorkerAlone ==
  ASSUME ServiceInv, [Next]_vars, NEW w \in Worker,
         phase \in {"serving", "draining"}, UNCHANGED <<phase, prewarm, warm>>,
         arriving' \in [Worker -> Requests \cup {None}],
         task' \in [Worker -> Task \cup {None}],
         answer' \in [Worker -> Answer \cup {None}],
         \A c \in Caller \ {w} : held'[c] = held[c],
         \A v \in Worker \ {w} :
           arriving'[v] = arriving[v] /\ task'[v] = task[v] /\ answer'[v] = answer[v],
         Local(w)'
  PROVE  ServiceTypes' /\ HoldersAtWork' /\ TaskProgress' /\ OnlyPrewarmed' /\ PrewarmAnswerHolds'
<1>1. ServiceTypes'
  BY DEF ServiceInv, ServiceTypes
<1>2. HoldersAtWork'
  BY WorkersAreCallers DEF ServiceInv, HoldersAtWork, Local
<1>3. TaskProgress'
  <2>1. ASSUME NEW v \in Worker \ {w} PROVE Progress(v)'
    <3>1. task'[v] = task[v] /\ held'[v] = held[v]
      BY WorkersAreCallers
    <3>2. CASE task[v] = None
      BY <3>1, <3>2 DEF Progress
    <3>3. CASE task[v] # None
      BY <3>1, <3>3, ProgressKept
    <3> QED
      BY <3>2, <3>3
  <2> QED
    BY <2>1 DEF TaskProgress, Local
<1>4. OnlyPrewarmed'
  BY DEF OnlyPrewarmed
<1>5. PrewarmAnswerHolds'
  BY AnswerKept DEF PrewarmAnswerHolds, Local
<1> QED
  BY <1>1, <1>2, <1>3, <1>4, <1>5

\* The types of what a task has.
LEMMA TaskTypes ==
  ASSUME ServiceInv, NEW w \in Worker, task[w] # None
  PROVE  /\ phase \in {"serving", "draining"}
         /\ arriving[w] = None /\ arriving \in [Worker -> Requests \cup {None}]
         /\ task[w] \in Task /\ task[w].request.valid
         /\ task[w].request.dims \in Seq(Key) /\ Len(task[w].request.dims) \in Nat
         /\ task[w].left \in Seq(Key) /\ Len(task[w].left) \in Nat
         /\ Progress(w) /\ AnswerHolds(w)
<1>1. task[w] \in Task
  BY DEF ServiceInv, ServiceTypes
<1> QED
  BY <1>1, ServiceAssumption, LenProperties
     DEF ServiceInv, ServiceTypes, HoldersAtWork, TaskProgress, PrewarmAnswerHolds, Task

\* A request begins.
LEMMA ArriveStep ==
  ASSUME ServiceInv, [Next]_vars, NEW w \in Worker, NEW r \in Requests, Arrive(w, r)
  PROVE  ServiceTypes' /\ HoldersAtWork' /\ TaskProgress' /\ OnlyPrewarmed' /\ PrewarmAnswerHolds'
<1>1. /\ phase = "serving" /\ task[w] = None /\ held[w] = None
      /\ UNCHANGED <<phase, prewarm, warm, task, answer, held>>
      /\ arriving' = [arriving EXCEPT ![w] = r]
      /\ arriving \in [Worker -> Requests \cup {None}]
      /\ task \in [Worker -> Task \cup {None}] /\ answer \in [Worker -> Answer \cup {None}]
  BY DEF Arrive, vars, ServiceInv, ServiceTypes, HoldersAtWork
<1>2. /\ arriving' \in [Worker -> Requests \cup {None}]
      /\ \A v \in Worker \ {w} : arriving'[v] = arriving[v]
  BY <1>1
<1>3. Local(w)'
  BY <1>1, AnswerKept DEF Local, Progress
<1> QED
  BY <1>1, <1>2, <1>3, WorkerAlone

LEMMA AcceptStep ==
  ASSUME ServiceInv, [Next]_vars, NEW w \in Worker, Reject(w) \/ Accept(w)
  PROVE  ServiceTypes' /\ HoldersAtWork' /\ TaskProgress' /\ OnlyPrewarmed' /\ PrewarmAnswerHolds'
<1> DEFINE r == arriving[w]
<1>1. /\ phase \in {"serving", "draining"} /\ task[w] = None /\ held[w] = None
      /\ UNCHANGED <<phase, prewarm, warm, held, clock>>
      /\ arriving' = [arriving EXCEPT ![w] = None]
      /\ arriving \in [Worker -> Requests \cup {None}]
      /\ clock \in Nat
      /\ task \in [Worker -> Task \cup {None}] /\ answer \in [Worker -> Answer \cup {None}]
      /\ r \in Requests
  BY DEF Reject, Accept, vars, ServiceInv, ServiceTypes, HoldersAtWork, TypeOK
<1>2. r.dims \in Seq(Key) /\ Len(r.dims) \in Nat
  BY <1>1, ServiceAssumption, LenProperties
<1>3. /\ arriving'[w] = None /\ arriving' \in [Worker -> Requests \cup {None}]
      /\ \A v \in Worker \ {w} : arriving'[v] = arriving[v]
  BY <1>1
<1>4. CASE Reject(w)
  <2> DEFINE a == [request |-> r, status |-> 400, open |-> 0, since |-> clock]
  <2>1. task' = task /\ answer' = [answer EXCEPT ![w] = a]
    BY <1>4 DEF Reject, Answered
  <2> HIDE DEF r
  <2>2. answer'[w].status = 400 /\ a \in Answer
    BY <1>1, <2>1 DEF Answer
  <2>3. Local(w)'
    BY <1>1, <1>3, <2>1, <2>2 DEF Local, Progress, AnswerHolds
  <2> HIDE DEF a
  <2>4. /\ answer' \in [Worker -> Answer \cup {None}]
        /\ \A v \in Worker \ {w} : answer'[v] = answer[v]
    BY <1>1, <2>1, <2>2
  <2> QED
    BY <1>1, <1>3, <2>1, <2>3, <2>4, WorkerAlone
<1>5. CASE Accept(w)
  <2> DEFINE t == [request |-> r, left |-> r.dims, since |-> clock, client |-> TRUE]
  <2>1. answer' = answer /\ task' = [task EXCEPT ![w] = t] /\ r.valid
    BY <1>5 DEF Accept
  <2> HIDE DEF r
  <2>2. t \in Task
    BY <1>1, <1>2 DEF Task
  <2>3. Progress(w)'
    BY <1>1, <1>2, <2>1 DEF Progress, Remaining
  <2>4. Local(w)'
    BY <1>1, <1>3, <2>1, <2>3, AnswerKept DEF Local
  <2> HIDE DEF t
  <2>5. /\ task' \in [Worker -> Task \cup {None}]
        /\ \A v \in Worker \ {w} : task'[v] = task[v]
    BY <1>1, <2>1, <2>2
  <2> QED
    BY <1>1, <1>3, <2>1, <2>4, <2>5, WorkerAlone
<1> QED
  BY <1>4, <1>5

\* An answer of a worker that is true, or that promises nothing.
TrueAnswer(w, status, open) ==
  task[w].request.route = "prewarm" /\ status = 200 =>
    LET dims == task[w].request.dims
    IN /\ \A i \in DOMAIN dims : dims[i] \in Known /\ lastUse'[dims[i]] > task[w].since
       /\ Cardinality({dims[i] : i \in DOMAIN dims}) <= open \/ open = Capacity
       /\ open <= Capacity

LEMMA EndStep ==
  ASSUME ServiceInv, [Next]_vars, NEW w \in Worker, task[w] # None,
         NEW status \in {200, 400, 404, 500, 503}, NEW open \in Nat,
         End(w, status, open),
         held'[w] = None, \A c \in Caller \ {w} : held'[c] = held[c],
         TrueAnswer(w, status, open)
  PROVE  ServiceTypes' /\ HoldersAtWork' /\ TaskProgress' /\ OnlyPrewarmed' /\ PrewarmAnswerHolds'
<1> DEFINE a == [request |-> task[w].request, status |-> status, open |-> open,
                 since |-> task[w].since]
<1>1. /\ task' = [task EXCEPT ![w] = None] /\ UNCHANGED <<phase, prewarm, warm, arriving>>
      /\ answer' = IF task[w].client THEN [answer EXCEPT ![w] = a] ELSE answer
  BY DEF End, Answered
<1>2. /\ task \in [Worker -> Task \cup {None}] /\ answer \in [Worker -> Answer \cup {None}]
      /\ a \in Answer
  BY TaskTypes DEF ServiceInv, ServiceTypes, Task, Answer
<1>3. AnswerHolds(w)'
  <2>1. CASE ~task[w].client
    BY <1>1, <2>1, AnswerKept
  <2>2. CASE task[w].client
    <3>1. answer'[w] = a
      BY <1>1, <1>2, <2>2
    <3>2. /\ answer'[w].request = task[w].request /\ answer'[w].status = status
          /\ answer'[w].open = open /\ answer'[w].since = task[w].since
      BY <3>1
    <3> QED
      BY <3>2 DEF AnswerHolds, UsedSince, TrueAnswer
  <2> QED
    BY <2>1, <2>2
<1> HIDE DEF a
<1>4. /\ task' \in [Worker -> Task \cup {None}] /\ answer' \in [Worker -> Answer \cup {None}]
      /\ \A v \in Worker \ {w} : task'[v] = task[v] /\ answer'[v] = answer[v]
      /\ task'[w] = None
  BY <1>1, <1>2
<1>5. Local(w)'
  BY <1>1, <1>3, <1>4, TaskTypes DEF Local, Progress
<1> QED
  BY <1>1, <1>4, <1>5, TaskTypes, WorkerAlone

LEMMA EndWithoutPromise ==
  ASSUME ServiceInv, [Next]_vars, NEW w \in Worker, task[w] # None,
         NEW status \in {200, 400, 404, 500, 503}, NEW open \in Nat,
         End(w, status, open),
         held'[w] = None, \A c \in Caller \ {w} : held'[c] = held[c],
         task[w].request.route # "prewarm" \/ status # 200
  PROVE  ServiceTypes' /\ HoldersAtWork' /\ TaskProgress' /\ OnlyPrewarmed' /\ PrewarmAnswerHolds'
<1>1. TrueAnswer(w, status, open)
  BY DEF TrueAnswer
<1> QED
  BY <1>1, EndStep

\* What is open when nothing of a prewarm request is left.
LEMMA PrewarmedCount ==
  ASSUME ServiceInv, NEW w \in Worker, task[w] # None, task[w].left = <<>>
  PROVE  LET dims == task[w].request.dims
         IN /\ OpenCount \in Nat /\ OpenCount <= Capacity
            /\ \A i \in DOMAIN dims : UsedSince(dims[i], task[w].since)
            /\ \/ Cardinality({dims[i] : i \in DOMAIN dims}) <= OpenCount
               \/ OpenCount = Capacity
<1> DEFINE dims == task[w].request.dims
           asked == {dims[i] : i \in DOMAIN dims}
           open == {k \in Known : handles[k] # None}
<1>1. OpenCount = Len(lru) /\ IsFiniteSet(open) /\ Len(lru) \in Nat
  BY OpenAreQueued DEF OpenCount, ServiceInv, TypeOK
<1>2. Len(lru) <= Capacity /\ Capacity \in Nat \ {0}
  BY CapacityType DEF ServiceInv, PoolInv, LruTracksHandles
<1>3. task[w].since \in Nat /\ \A k \in Known : lastUse[k] \in Nat
  BY TaskTypes DEF Task, ServiceInv, TypeOK
<1>4. \A i \in DOMAIN dims : UsedSince(dims[i], task[w].since)
  <2>1. DOMAIN dims = 1..(Len(dims) - Len(task[w].left))
    BY TaskTypes
  <2> QED
    BY <2>1, TaskTypes DEF Progress
<1>5. CASE Len(lru) # Capacity
  <2>1. asked \subseteq open
    BY <1>3, <1>4, <1>5 DEF UsedSince, ServiceInv, PoolInv, QueueInOrderOfUse
  <2>2. Cardinality(asked) <= Cardinality(open)
    BY <1>1, <2>1, FS_Subset
  <2> QED
    BY <1>1, <1>2, <1>4, <2>2 DEF OpenCount
<1> QED
  BY <1>1, <1>2, <1>4, <1>5

\* A request that waits for a reader or has one.
LEMMA HandleStep ==
  ASSUME ServiceInv, [Next]_vars, NEW w \in Worker, Handle(w)
  PROVE  ServiceTypes' /\ HoldersAtWork' /\ TaskProgress' /\ OnlyPrewarmed' /\ PrewarmAnswerHolds'
<1>1. /\ task[w] # None
      /\ held \in [Caller -> Reader \cup Error \cup {None}]
      /\ clock \in Nat /\ lastUse \in [Known -> 0..clock]
      /\ task \in [Worker -> Task \cup {None}] /\ answer \in [Worker -> Answer \cup {None}]
      /\ w \in Caller
  BY WorkersAreCallers DEF Handle, Call, CallFails, QueryEnds, QueryRefused, PrewarmRouteReturns,
     PrewarmRouteEnds, ReadyEnds, ServiceInv, ServiceTypes, TypeOK
<1> DEFINE dims == task[w].request.dims
           left == task[w].left
           since == task[w].since
           done == Len(dims) - Len(left)
<1>2. /\ phase \in {"serving", "draining"} /\ task[w].request.valid
      /\ arriving[w] = None /\ arriving \in [Worker -> Requests \cup {None}]
      /\ dims \in Seq(Key) /\ Len(dims) \in Nat /\ left \in Seq(Key) /\ Len(left) \in Nat
      /\ since \in Nat /\ task[w] \in Task
  BY <1>1, TaskTypes DEF Task
<1>3. /\ Remaining(left, dims) /\ since <= clock
      /\ \A i \in 1..done : UsedSince(dims[i], since)
      /\ held[w] \notin Error \cup {None} => UsedSince(dims[done + 1], since)
  BY <1>1 DEF ServiceInv, TaskProgress, Progress
<1>4. /\ done = Len(dims) - Len(left) /\ done \in Nat
      /\ left # <<>> => Head(left) = dims[done + 1] /\ Head(left) \in Key
      /\ left # <<>> => /\ Tail(left) \in Seq(Key) /\ Remaining(Tail(left), dims)
                         /\ Len(dims) - Len(Tail(left)) = done + 1
  <2>1. done \in Nat
    BY <1>2, <1>3 DEF Remaining
  <2>2. ASSUME NEW s \in Seq(Key), NEW t \in Seq(Key), s # <<>>, Remaining(s, t)
        PROVE  /\ Head(s) = t[Len(t) - Len(s) + 1] /\ Head(s) \in Key
               /\ Tail(s) \in Seq(Key) /\ Remaining(Tail(s), t)
               /\ Len(t) - Len(Tail(s)) = Len(t) - Len(s) + 1
    <3>1. Head(s) \in Key /\ Tail(s) \in Seq(Key)
      BY <2>2, HeadAndTail
    <3> QED
      BY <2>2, <3>1, TailRemains
  <2>3. dims \in Seq(Key) /\ left \in Seq(Key) /\ Remaining(left, dims)
    BY <1>2, <1>3
  <2> HIDE DEF dims, left
  <2>4. left # <<>> => /\ Head(left) = dims[done + 1] /\ Head(left) \in Key
                       /\ Tail(left) \in Seq(Key) /\ Remaining(Tail(left), dims)
                       /\ Len(dims) - Len(Tail(left)) = done + 1
    BY <2>2, <2>3
  <2> QED
    BY <2>1, <2>4
<1> HIDE DEF dims, left, since, done
<1>40. ASSUME Release(w)
      PROVE  /\ held[w] # None /\ left # <<>> /\ held'[w] = None
             /\ \A c \in Caller \ {w} : held'[c] = held[c]
             /\ UNCHANGED <<clock, lastUse>>
  BY <1>1, <1>40 DEF Release, ServiceInv, HoldersAtWork, left
<1>5. CASE Call(w)
  <2>1. /\ left # <<>> /\ GetOrOpen(w, Head(left))
        /\ UNCHANGED <<phase, prewarm, warm, arriving, task, answer>>
    BY <1>5 DEF Call, service, left
  <2> DEFINE k == Head(left)
  <2>2. k \in Key /\ k = dims[done + 1] /\ done \in Nat
    BY <1>4, <2>1
  <2> HIDE DEF k
  <2>3. /\ \A c \in Caller \ {w} : held'[c] = held[c]
        /\ \/ held'[w] \in Error /\ UNCHANGED <<clock, lastUse>>
           \/ k \in Known /\ clock' = clock + 1 /\ lastUse' = [lastUse EXCEPT ![k] = clock + 1]
    BY <1>1, <2>1, <2>2, CallEffect DEF ServiceInv, k
  <2>4. Progress(w)'
    <3>1. since <= clock'
      BY <1>1, <1>2, <1>3, <2>3
    <3>2. ASSUME NEW i \in 1..done
          PROVE  dims[i] \in Known /\ lastUse'[dims[i]] > since
      <4>1. dims[i] \in Known /\ lastUse[dims[i]] > since
        BY <1>3 DEF UsedSince
      <4>2. lastUse'[dims[i]] = lastUse[dims[i]] \/ lastUse'[dims[i]] = clock + 1
        BY <1>1, <2>3, <4>1
      <4> QED
        BY <1>1, <1>2, <1>3, <4>1, <4>2
    <3>3. held'[w] \notin Error \cup {None} => dims[done + 1] \in Known /\ lastUse'[dims[done + 1]] > since
      BY <1>1, <1>2, <1>3, <2>2, <2>3
    <3> QED
      BY <1>3, <2>1, <3>1, <3>2, <3>3 DEF Progress, UsedSince, dims, left, since, done
  <2>5. Local(w)'
    BY <1>1, <1>2, <2>1, <2>4, AnswerKept DEF Local, left
  <2> QED
    BY <1>1, <1>2, <2>1, <2>3, <2>5, WorkerAlone
<1>6. CASE CallFails(w)
  <2>1. PICK status \in {400, 404} : End(w, status, 0)
    <3>1. held[w] \in Error => PublicCode(held[w]) = 404
      BY DEF PublicCode, Error
    <3> QED
      BY <1>6, <3>1 DEF CallFails
  <2> QED
    BY <1>1, <1>40, <1>6, <2>1, EndWithoutPromise DEF CallFails
<1>7. CASE QueryEnds(w)
  <2>1. /\ Release(w) /\ task[w].request.route = "query"
        /\ \E status \in {200, 400, 404, 500} : End(w, status, 0)
    BY <1>7 DEF QueryEnds
  <2>2. PICK status \in {200, 400, 404, 500, 503} : End(w, status, 0)
    BY <2>1
  <2>3. held'[w] = None /\ \A c \in Caller \ {w} : held'[c] = held[c]
    BY <1>40, <2>1
  <2>4. 0 \in Nat /\ task[w].request.route # "prewarm" /\ task[w] # None
    BY <1>1, <2>1
  <2> QED
    BY <2>2, <2>3, <2>4, EndWithoutPromise
<1>8. CASE QueryRefused(w)
  <2>1. held' = held
    BY <1>8 DEF QueryRefused, vars
  <2> QED
    BY <1>1, <1>8, <2>1, EndWithoutPromise DEF QueryRefused
<1>9. CASE PrewarmRouteReturns(w)
  <2>1. /\ UNCHANGED <<phase, prewarm, warm, arriving, answer>> /\ Release(w) /\ held[w] \notin Error
        /\ task' = [task EXCEPT ![w].left = Tail(left)]
    BY <1>9 DEF PrewarmRouteReturns, left
  <2>2. /\ Tail(left) \in Seq(Key) /\ Remaining(Tail(left), dims)
        /\ Len(dims) - Len(Tail(left)) = done + 1 /\ done \in Nat
    BY <1>4, <1>40, <2>1
  <2> DEFINE t == [task[w] EXCEPT !.left = Tail(left)]
  <2>3. /\ t \in Task /\ t.request = task[w].request /\ t.left = Tail(left) /\ t.since = since
    BY <1>2, <2>2 DEF Task, since
  <2>4. task' = [task EXCEPT ![w] = t]
    BY <2>1
  <2> HIDE DEF t
  <2>5. /\ task'[w] = t /\ task' \in [Worker -> Task \cup {None}]
        /\ \A v \in Worker \ {w} : task'[v] = task[v]
    BY <1>1, <2>3, <2>4
  <2>6. /\ held[w] # None /\ held'[w] = None /\ UNCHANGED <<clock, lastUse>>
        /\ \A c \in Caller \ {w} : held'[c] = held[c]
    BY <1>40, <2>1
  <2>7. Progress(w)'
    <3>1. \A i \in 1..(done + 1) : UsedSince(dims[i], since)
      BY <1>3, <2>1, <2>2, <2>6
    <3>2. /\ t.request.dims = dims /\ clock' = clock /\ lastUse' = lastUse
      BY <2>3, <2>6 DEF dims
    <3> QED
      BY <1>3, <2>2, <2>3, <2>5, <2>6, <3>1, <3>2 DEF Progress, UsedSince
  <2>8. Local(w)'
    BY <1>2, <2>1, <2>3, <2>5, <2>6, <2>7, AnswerKept DEF Local
  <2> QED
    BY <1>1, <1>2, <2>1, <2>5, <2>6, <2>8, WorkerAlone
<1>10. CASE PrewarmRouteEnds(w)
  <2>1. /\ left = <<>> /\ held[w] = None /\ End(w, 200, OpenCount)
        /\ UNCHANGED <<held, lastUse>>
    BY <1>10 DEF PrewarmRouteEnds, vars, left
  <2>2. /\ OpenCount \in Nat
        /\ \A i \in DOMAIN dims : dims[i] \in Known /\ lastUse'[dims[i]] > since
        /\ Cardinality({dims[i] : i \in DOMAIN dims}) <= OpenCount \/ OpenCount = Capacity
        /\ OpenCount <= Capacity
    BY <1>1, <2>1, PrewarmedCount DEF UsedSince, dims, since, left
  <2>3. TrueAnswer(w, 200, OpenCount)
    BY <2>2 DEF TrueAnswer, dims, since
  <2>4. held'[w] = None /\ \A c \in Caller \ {w} : held'[c] = held[c]
    BY <2>1
  <2> HIDE DEF OpenCount
  <2> QED
    BY <1>1, <2>1, <2>2, <2>3, <2>4, EndStep
<1>11. CASE ReadyEnds(w)
  <2>1. /\ UNCHANGED held /\ task[w].request.route = "ready"
    BY <1>11 DEF ReadyEnds, vars
  <2>4. task[w].request \in Requests
    BY <1>2 DEF Task
  <2>5. dims = <<>>
    BY <2>1, <2>4, ServiceAssumption DEF dims
  <2>6. left = <<>>
    BY <1>2, <1>3, <2>5 DEF Remaining
  <2>7. held[w] = None
    BY <2>6 DEF ServiceInv, HoldersAtWork, left
  <2>2. OpenCount \in Nat
    BY OpenAreQueued, LenProperties DEF OpenCount, ServiceInv, TypeOK
  <2>3. End(w, 503, 0) \/ End(w, 200, OpenCount)
    BY <1>11 DEF ReadyEnds
  <2> QED
    <3>1. held'[w] = None /\ \A c \in Caller \ {w} : held'[c] = held[c]
      BY <2>1, <2>7
    <3>2. task[w] # None /\ task[w].request.route # "prewarm" /\ 0 \in Nat
      BY <1>1, <2>1
    <3>3. PICK status \in {200, 400, 404, 500, 503}, open \in Nat : End(w, status, open)
      BY <2>2, <2>3
    <3> QED
      BY <3>1, <3>2, <3>3, EndWithoutPromise
<1> QED
  BY <1>5, <1>6, <1>7, <1>8, <1>9, <1>10, <1>11 DEF Handle

LEMMA DisconnectStep ==
  ASSUME ServiceInv, [Next]_vars, NEW w \in Worker, Disconnect(w)
  PROVE  ServiceTypes' /\ HoldersAtWork' /\ TaskProgress' /\ OnlyPrewarmed' /\ PrewarmAnswerHolds'
<1>1. CASE /\ arriving[w] # None /\ arriving' = [arriving EXCEPT ![w] = None]
           /\ UNCHANGED task
  <2>1. /\ UNCHANGED <<phase, prewarm, warm, task, answer, held>>
        /\ task[w] = None /\ held[w] = None /\ phase \in {"serving", "draining"}
        /\ arriving \in [Worker -> Requests \cup {None}]
        /\ task \in [Worker -> Task \cup {None}] /\ answer \in [Worker -> Answer \cup {None}]
    BY <1>1 DEF Disconnect, vars, ServiceInv, ServiceTypes, HoldersAtWork
  <2>2. /\ arriving'[w] = None /\ arriving' \in [Worker -> Requests \cup {None}]
        /\ \A v \in Worker \ {w} : arriving'[v] = arriving[v]
    BY <1>1, <2>1
  <2>3. Local(w)'
    BY <2>1, <2>2, AnswerKept DEF Local, Progress
  <2> QED
    BY <2>1, <2>2, <2>3, WorkerAlone
<1>2. CASE /\ task[w] # None /\ task' = [task EXCEPT ![w].client = FALSE]
           /\ UNCHANGED arriving
  <2> DEFINE t == [task[w] EXCEPT !.client = FALSE]
  <2>1. /\ task[w] # None /\ UNCHANGED <<phase, prewarm, warm, arriving, answer, held>>
        /\ task' = [task EXCEPT ![w] = t]
    BY <1>2 DEF Disconnect, vars
  <2>2. /\ phase \in {"serving", "draining"}
        /\ arriving[w] = None /\ arriving \in [Worker -> Requests \cup {None}]
        /\ task \in [Worker -> Task \cup {None}] /\ answer \in [Worker -> Answer \cup {None}]
    BY <2>1, TaskTypes DEF ServiceInv, ServiceTypes
  <2>3. /\ t \in Task /\ t.request = task[w].request /\ t.left = task[w].left
        /\ t.since = task[w].since
    BY <2>1, TaskTypes DEF Task
  <2> HIDE DEF t
  <2>4. /\ task'[w] = t /\ task' \in [Worker -> Task \cup {None}]
        /\ \A v \in Worker \ {w} : task'[v] = task[v]
    BY <2>1, <2>2, <2>3
  <2>5. Progress(w)'
    <3>1. CASE t = None
      BY <2>4, <3>1 DEF Progress
    <3>2. CASE t # None
      BY <2>1, <2>3, <2>4, <3>2, ProgressKept
    <3> QED
      BY <3>1, <3>2
  <2>6. Local(w)'
    <3>1. /\ task[w].request.valid
          /\ held[w] # None => task[w].left # <<>>
          /\ t # None
      BY <2>1, <2>3, ServiceAssumption DEF ServiceInv, HoldersAtWork, Task
    <3> QED
      BY <2>1, <2>2, <2>3, <2>4, <2>5, <3>1, AnswerKept DEF Local
  <2> QED
    BY <2>1, <2>2, <2>4, <2>6, WorkerAlone
<1> QED
  BY <1>1, <1>2 DEF Disconnect

\* A step in which no caller of the pool and no request has a part.
LEMMA AloneStep ==
  ASSUME ServiceInv, [Next]_vars,
         \/ Shutdown \/ Stop
         \/ FilesChange /\ UNCHANGED service
         \/ UNCHANGED serviceVars
  PROVE  ServiceTypes' /\ HoldersAtWork' /\ TaskProgress' /\ OnlyPrewarmed' /\ PrewarmAnswerHolds'
<1>1. /\ UNCHANGED <<prewarm, warm, arriving, task, answer, held, clock, lastUse>>
      /\ \/ UNCHANGED phase
         \/ /\ phase \in {"serving", "draining"} /\ phase' \in {"draining", "stopped"}
            /\ phase' = "stopped" => \A w \in Worker : arriving[w] = None /\ task[w] = None
  BY DEF Shutdown, Stop, FilesChange, service, serviceVars, vars
<1>2. ServiceTypes'
  BY <1>1 DEF ServiceInv, ServiceTypes
<1>3. HoldersAtWork'
  BY <1>1 DEF ServiceInv, HoldersAtWork
<1>4. TaskProgress' /\ PrewarmAnswerHolds'
  BY <1>1, ProgressKept, AnswerKept
     DEF ServiceInv, TaskProgress, Progress, PrewarmAnswerHolds
<1>5. OnlyPrewarmed'
  BY <1>1 DEF ServiceInv, OnlyPrewarmed, Warmed
<1> QED
  BY <1>2, <1>3, <1>4, <1>5

LEMMA ServiceStep == ServiceInv /\ [ServiceNext]_serviceVars => ServiceInv'
<1> SUFFICES ASSUME ServiceInv, [ServiceNext]_serviceVars PROVE ServiceInv'
  OBVIOUS
<1>1. [Next]_vars
  BY ServiceStepsPool DEF ServiceInv
<1>2. TypeOK' /\ PoolInv'
  BY <1>1, PoolStep DEF ServiceInv
<1>3. ServiceTypes' /\ HoldersAtWork' /\ TaskProgress' /\ OnlyPrewarmed' /\ PrewarmAnswerHolds'
  BY <1>1, StartStep, ArriveStep, AcceptStep, HandleStep, DisconnectStep, AloneStep DEF ServiceNext
<1> QED
  BY <1>2, <1>3 DEF ServiceInv

LEMMA WorkersKeepPhase ==
  ASSUME NEW w \in Worker, Reject(w) \/ Accept(w) \/ Handle(w) \/ Disconnect(w)
  PROVE  UNCHANGED phase
BY DEF Reject, Accept, Handle, Call, CallFails, QueryEnds, QueryRefused, PrewarmRouteReturns, PrewarmRouteEnds,
   ReadyEnds, Disconnect, End, service

\* When nothing of PHS_PREWARM is left, all of it was had from the pool, and the
\* pool holds what comes last in it: the last place of a dimension in the list is
\* the time of its last use.
LEMMA WarmPool ==
  ASSUME ServiceInv, phase = "prewarming", warm = <<>>
  PROVE  /\ \A i \in DOMAIN prewarm : lastUse[prewarm[i]] > 0
         /\ {k \in Known : handles[k] # None} = MostRecent(prewarm, Capacity)
<1> DEFINE n == Len(prewarm)
           after(p) == {prewarm[l] : l \in (p + 1)..n}
<1>1. /\ prewarm \in Seq(Key) /\ n \in Nat /\ DOMAIN prewarm = 1..n
      /\ lastUse \in [Known -> Nat]
  BY ServiceAssumption, LenProperties DEF ServiceInv, ServiceTypes, TypeOK
<1>2. held[Main] = None
  BY DEF ServiceInv, HoldersAtWork
<1>3. Warmed = n
  BY <1>1, <1>2 DEF Warmed
<1>4. /\ \A i \in 1..n : prewarm[i] \in Known
      /\ \A k \in Known :
           \/ lastUse[k] = 0 /\ \A i \in 1..n : prewarm[i] # k
           \/ /\ lastUse[k] \in 1..n /\ prewarm[lastUse[k]] = k
              /\ \A i \in (lastUse[k] + 1)..n : prewarm[i] # k
  BY <1>3 DEF ServiceInv, OnlyPrewarmed
<1> HIDE DEF n
<1>5. \A i \in 1..n : lastUse[prewarm[i]] >= i
  <2> SUFFICES ASSUME NEW i \in 1..n PROVE lastUse[prewarm[i]] >= i
    OBVIOUS
  <2> DEFINE k == prewarm[i]
  <2>1. k \in Known /\ lastUse[k] \in Nat
    BY <1>1, <1>4
  <2>2. \A j \in (lastUse[k] + 1)..n : prewarm[j] # k
    BY <1>4, <2>1
  <2> QED
    BY <1>1, <2>1, <2>2
<1>6. \A p \in 1..n : after(p) = {j \in Known : lastUse[j] > p}
  <2> SUFFICES ASSUME NEW p \in 1..n PROVE after(p) = {j \in Known : lastUse[j] > p}
    OBVIOUS
  <2>1. ASSUME NEW l \in (p + 1)..n
        PROVE  prewarm[l] \in Known /\ lastUse[prewarm[l]] > p
    BY <1>1, <1>4, <1>5
  <2>2. ASSUME NEW j \in Known, lastUse[j] > p
        PROVE  lastUse[j] \in (p + 1)..n /\ prewarm[lastUse[j]] = j
    BY <1>1, <1>4, <2>2
  <2> QED
    BY <2>1, <2>2
<1>7. MostRecent(prewarm, Capacity) =
        {prewarm[p] : p \in {j \in 1..n :
           (\A l \in (j + 1)..n : prewarm[l] # prewarm[j]) /\ Cardinality(after(j)) < Capacity}}
  BY <1>1 DEF MostRecent, n
<1> HIDE DEF after
<1>8. \A k \in Known : handles[k] # None <=>
        lastUse[k] > 0 /\ Cardinality({j \in Known : lastUse[j] > lastUse[k]}) < Capacity
  BY OpenAreMostRecent DEF ServiceInv, MostRecentAreOpen
<1>9. ASSUME NEW k \in Known, handles[k] # None
      PROVE  k \in MostRecent(prewarm, Capacity)
  <2>1. lastUse[k] > 0 /\ Cardinality({j \in Known : lastUse[j] > lastUse[k]}) < Capacity
    BY <1>8, <1>9
  <2>2. /\ lastUse[k] \in 1..n /\ prewarm[lastUse[k]] = k
        /\ \A i \in (lastUse[k] + 1)..n : prewarm[i] # k
    BY <1>1, <1>4, <2>1
  <2>3. after(lastUse[k]) = {j \in Known : lastUse[j] > lastUse[k]}
    BY <1>6, <2>2
  <2> QED
    BY <1>7, <2>1, <2>2, <2>3
<1>10. ASSUME NEW p \in 1..n, \A l \in (p + 1)..n : prewarm[l] # prewarm[p],
              Cardinality(after(p)) < Capacity
       PROVE  prewarm[p] \in Known /\ handles[prewarm[p]] # None
  <2>1. prewarm[p] \in Known
    BY <1>4
  <2>2. lastUse[prewarm[p]] \in 1..n /\ lastUse[prewarm[p]] >= p
        /\ prewarm[lastUse[prewarm[p]]] = prewarm[p]
    BY <1>1, <1>4, <1>5, <2>1
  <2>3. lastUse[prewarm[p]] = p
    BY <1>1, <1>10, <2>2
  <2> QED
    BY <1>6, <1>8, <1>10, <2>1, <2>3
<1>11. {k \in Known : handles[k] # None} = MostRecent(prewarm, Capacity)
  BY <1>7, <1>9, <1>10
<1>12. \A i \in 1..n : lastUse[prewarm[i]] > 0
  BY <1>1, <1>4, <1>5
<1> QED
  BY <1>1, <1>11, <1>12

-----------------------------------------------------------------------------
(* The theorems                                                            *)

\* In every state of the service the pool is consistent, each request that has
\* been accepted holds only what it got for its next dimension, and what was
\* done for it is true.
THEOREM ServiceIsConsistent == ServiceSpec => []ServiceInv
BY ServiceStart, ServiceStep, PTL DEF ServiceSpec

\* The variables of the service are what the program can have in them: only a valid
\* request becomes a task, requests arrive and tasks run only from the listening
\* until the process ends, and only a task at work, or the main task while it
\* prewarms, has something of the pool.
THEOREM ServiceTypesHold == ServiceSpec => []ServiceTypeOK
<1>1. ServiceInv => ServiceTypeOK
  BY DEF ServiceInv, ServiceTypes, HoldersAtWork, ServiceTypeOK, Task, Answer
<1> QED
  BY <1>1, ServiceIsConsistent, PTL

\* A successful answer of /range/prewarm is true whatever other requests did
\* meanwhile.
THEOREM PrewarmAnswersAreTrue == ServiceSpec => []PrewarmAnswerHolds
<1>1. ServiceInv => PrewarmAnswerHolds
  BY DEF ServiceInv
<1> QED
  BY <1>1, ServiceIsConsistent, PTL

\* The service listens only when each dimension of PHS_PREWARM was opened without
\* an error, and the pool then holds those of them that come last and fit.
THEOREM WarmWhenListening == ServiceSpec => PrewarmedBeforeListening
<1> DEFINE A == phase = "prewarming" /\ phase' = "serving" =>
                  /\ \A i \in DOMAIN prewarm : lastUse[prewarm[i]] > 0
                  /\ {k \in Known : handles[k] # None} = MostRecent(prewarm, Capacity)
<1>1. ASSUME ServiceInv, [ServiceNext]_serviceVars PROVE [A]_serviceVars
  <2> SUFFICES ASSUME phase = "prewarming", phase' = "serving" PROVE A
    OBVIOUS
  <2>1. warm = <<>>
    <3>1. ~ (\E w \in Worker : Reject(w) \/ Accept(w) \/ Handle(w) \/ Disconnect(w))
      BY WorkersKeepPhase
    <3> QED
      BY <1>1, <3>1 DEF ServiceNext, Start, OpenStore, PrewarmCall, PrewarmReturns, Listen, Arrive,
         Shutdown, Stop, FilesChange, service, serviceVars
  <2> QED
    BY <1>1, <2>1, WarmPool
<1> QED
  BY <1>1, ServiceIsConsistent, PTL DEF ServiceSpec, PrewarmedBeforeListening
=============================================================================
