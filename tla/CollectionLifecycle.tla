------------------------- MODULE CollectionLifecycle -------------------------
(***************************************************************************)
(* Starting and stopping a collection (process/common/CollectionManager.cpp)*)
(* together with what it sets in motion: the OSGi launcher starting the    *)
(* index, mining and recommend bundles of the collection, the recommend    *)
(* bundle's activator (bundles/recommend/RecommendBundleActivator.cpp)     *)
(* waiting for the collection's IndexSearchService, the CollectionHandler  *)
(* that collects the bundles' services into collectionHandlers_, request   *)
(* threads that enqueue index tasks through a handler                      *)
(* (process/controllers/CollectionHandler.cpp), and the JobScheduler       *)
(* worker that later runs them.                                            *)
(*                                                                         *)
(* A service object is a record [c, k, g]: collection, bundle kind and the *)
(* generation that created it. A service is live while it is registered;  *)
(* a pointer to one that is no longer registered points to a deleted       *)
(* object. The launcher, the index and mining activators and the          *)
(* JobScheduler are not in this repository and are modelled from how the   *)
(* code uses them.                                                         *)
(***************************************************************************)
EXTENDS Integers, Sequences, FiniteSets, SequencesExt

CONSTANTS
    C,              \* collection names
    NodeCfg,        \* NodeCfg[c]: [rec, search] node kinds, "single", "master" or "worker"
    DataDirs,       \* DataDirs[c]: per configured data dir, whether appendDirectory accepts it
    MaxStarts,      \* bound on startCollection calls per collection
    MaxJobs,        \* bound on the JobScheduler queue
    NoService,      \* model value: NULL service pointer
    Remote          \* model value: an ItemManager that needs no IndexSearchService

Kinds == {"index", "mining", "recommend"}

VARIABLES
    running,        \* running[c]: bundles of c the launcher has started and not stopped
    gen,            \* gen[c][k]: starts so far of the index and mining bundles of c
    rb,             \* rb[c]: the recommend activator of c (tracker, services, item source)
    handlers,       \* collectionHandlers_: the handler each name maps to
    allocated,      \* CollectionHandler objects not deleted
    nextId,         \* CollectionHandler objects created so far
    starts,         \* startCollection calls so far, per collection
    ctl,            \* the thread running startCollection / stopCollection
    jobs,           \* JobScheduler queue: the IndexTaskService each task is bound to,
                    \* and whether that service was registered when the task was added
    deadCall        \* a task added on a live service has called it after it was deleted

vars == <<running, gen, rb, handlers, allocated, nextId, starts, ctl, jobs, deadCall>>

Svc(c, k, g) == [c |-> c, k |-> k, g |-> g]

IsServiceNode(kind) == kind \in {"single", "master"}

\* The services each bundle registers now: what getService returns.
Registered(c, k) ==
    CASE k = "recommend"    -> rb[c].svc
      [] k \in running[c]   -> Svc(c, k, gen[c][k])
      [] OTHER              -> NoService

Live == {Registered(c, k) : c \in C, k \in Kinds} \ {NoService}

\* An activator: its tracker, the step of init_ it is in, the argument of
\* that init_, the generations of its recommend workers (wkr) and of its
\* managers (mgr), its registered service, the worker and manager
\* generations that service was built on (dep), and its item source.
NoRec == [tracking |-> FALSE, pc |-> "idle", iss |-> NoService, wkr |-> 0,
          mgr |-> 0, sgen |-> 0, svc |-> NoService, dep |-> [wkr |-> 0, mgr |-> 0],
          item |-> NoService]

NoCall == [op |-> "idle", started |-> FALSE, c |-> NoService, h |-> NoService]

Init ==
    /\ running = [c \in C |-> {}]
    /\ gen = [c \in C |-> [k \in {"index", "mining"} |-> 0]]
    /\ rb = [c \in C |-> NoRec]
    /\ handlers = <<>>
    /\ allocated = {}
    /\ nextId = 0
    /\ starts = [c \in C |-> 0]
    /\ ctl = NoCall
    /\ jobs = <<>>
    /\ deadCall = FALSE

-----------------------------------------------------------------------------
(* RecommendBundleActivator *)

\* openDataDirectory_ (lines 174-226): no configured dir fails; a dir the
\* rotator accepts succeeds; when it accepts none, the corrupt dirs are
\* removed and appended again, and whether the rotator then has a current
\* directory is up to DirectoryRotator.
OpenDataDirectory(c) ==
    IF DataDirs[c] = <<>> THEN {FALSE}
    ELSE IF \E i \in DOMAIN DataDirs[c] : DataDirs[c][i] THEN {TRUE}
    ELSE BOOLEAN

\* createItem_ (lines 248-268): a single or master search node builds its
\* ItemManager on the IndexSearchService passed in; a worker goes remote.
ItemSource(c, iss) == IF IsServiceNode(NodeCfg[c].search) THEN iss ELSE Remote

\* The steps of init_ after createDataDir_, in order, and which of them
\* a recommend node of c's kind runs (lines 139-154).
InitOrder == <<"worker", "master", "build", "service">>
InitRuns(c, s) ==
    CASE s = "worker" -> NodeCfg[c].rec \in {"single", "worker"}
      [] s = "master" -> NodeCfg[c].rec = "master"
      [] OTHER        -> IsServiceNode(NodeCfg[c].rec)

\* The first step at position i of InitOrder or later that c runs.
InitFrom(c, i) ==
    LET js == {j \in i..Len(InitOrder) : InitRuns(c, InitOrder[j])}
    IN IF js = {} THEN "idle" ELSE InitOrder[Min(js)]

\* init_ (lines 132-157) on activator state r, given the IndexSearchService
\* iss and the outcome of createDataDir_: return false, or go through the
\* create steps one by one (the actions of InitStep).
RecInit(r, c, iss, dirOK) ==
    IF ~dirOK THEN r ELSE [r EXCEPT !.pc = InitFrom(c, 1), !.iss = iss]

\* start (lines 42-57): when both the recommend and the search node serve,
\* track IndexSearchService (startTracking reports the one already
\* registered, if any, to addingService); otherwise init_(NULL).
RecStart(r, c, dirOK) ==
    IF IsServiceNode(NodeCfg[c].rec) /\ IsServiceNode(NodeCfg[c].search)
    THEN IF Registered(c, "index") # NoService
         THEN RecInit([r EXCEPT !.tracking = TRUE], c, Registered(c, "index"), dirOK)
         ELSE [r EXCEPT !.tracking = TRUE]
    ELSE RecInit(r, c, NoService, dirOK)

\* stop (lines 59-105): stop tracking, unregister and delete the services
\* and every manager.
RecStop(r) == [r EXCEPT !.tracking = FALSE, !.svc = NoService, !.item = NoService]

Others == <<running, gen, handlers, allocated, nextId, starts, ctl, jobs, deadCall>>

\* createWorker_ (lines 270-291): new ItemCFManager, CoVisitManager and
\* recommend workers; the resets delete the old ones.
InitWorker(c) ==
    /\ rb[c].pc = "worker"
    /\ rb' = [rb EXCEPT ![c].wkr = @ + 1, ![c].pc = InitFrom(c, 2)]
    /\ UNCHANGED Others

\* createMaster_ (lines 293-302): new recommend masters over the workers.
InitMaster(c) ==
    /\ rb[c].pc = "master"
    /\ rb' = [rb EXCEPT ![c].wkr = @ + 1, ![c].pc = InitFrom(c, 3)]
    /\ UNCHANGED Others

\* createStorage_ (lines 233-245): new user, purchase, visit, cart, rate and
\* event managers; the resets delete the old ones.
CreateStorage(r) == [r EXCEPT !.mgr = @ + 1]

\* Lines 146-153 up to createService_: createSCDDir_, createStorage_,
\* createItem_, createOrder_ (304-313), createClickCounter_ (315-322) and
\* createRecommender_ (324-332) replace every manager and the recommender
\* factory; the services registered by an earlier init_ still use them.
InitBuild(c) ==
    /\ rb[c].pc = "build"
    /\ rb' = [rb EXCEPT ![c] = [CreateStorage(@) EXCEPT
                                   !.item = ItemSource(c, rb[c].iss),
                                   !.pc = "service"]]
    /\ UNCHANGED Others

\* createService_ (lines 334-349): new task and search services on the
\* current managers and workers; resetting the registrations unregisters
\* the services they replace, which the resets have deleted.
InitService(c) ==
    /\ rb[c].pc = "service"
    /\ rb' = [rb EXCEPT ![c].sgen = @ + 1,
                        ![c].svc = Svc(c, "recommend", rb[c].sgen + 1),
                        ![c].dep = [wkr |-> rb[c].wkr, mgr |-> rb[c].mgr],
                        ![c].pc = "idle"]
    /\ UNCHANGED Others

InitStep(c) == InitWorker(c) \/ InitMaster(c) \/ InitBuild(c) \/ InitService(c)

\* addingService (lines 107-126): a tracking activator inits on an
\* IndexSearchService registered for its own collection. removedService
\* (lines 128-130) does nothing.
AddingServiceAnyCollection(x, c) == rb[x].tracking /\ "recommend" \in running[x]
AddingService(x, c) == rb[x].tracking /\ "recommend" \in running[x] /\ x = c

\* The createDataDir_ outcome each collection's activator would see now.
DirOutcomes == {f \in [C -> BOOLEAN] : \A x \in C : f[x] \in OpenDataDirectory(x)}

-----------------------------------------------------------------------------
(* The OSGi launcher *)

\* osgiLauncher_.start: start the bundle's activator. Whether starting a
\* bundle that already runs restarts it or does nothing is up to the
\* launcher; both are allowed. A new IndexSearchService is reported to
\* every tracking recommend activator.
Launch(c, k, dirOK) ==
    \E restart \in IF k \in running[c] THEN BOOLEAN ELSE {TRUE} :
        IF ~restart THEN UNCHANGED <<running, gen, rb>>
        ELSE
        /\ running' = [running EXCEPT ![c] = @ \cup {k}]
        /\ IF k = "recommend"
           THEN /\ rb' = [rb EXCEPT ![c] = RecStart(RecStop(@), c, dirOK[c])]
                /\ UNCHANGED gen
           ELSE /\ gen' = [gen EXCEPT ![c][k] = @ + 1]
                /\ rb' = IF k = "mining" THEN rb
                         ELSE [x \in C |->
                                 IF AddingService(x, c)
                                 THEN RecInit(rb[x], x, Svc(c, "index", gen[c]["index"] + 1), dirOK[x])
                                 ELSE rb[x]]

-----------------------------------------------------------------------------
(* CollectionManager and CollectionHandler *)

\* The CollectionHandler constructor (CollectionHandler.cpp:34-46): every
\* service pointer NULL.
NewHandler(id) == [id |-> id, idx |-> NoService, min |-> NoService, rec |-> NoService]

StartCollectionNoCount(c) ==
    /\ ctl.op = "idle"
    /\ starts[c] < MaxStarts
    /\ starts' = [starts EXCEPT ![c] = @ + 1]
    /\ \E parsed \in BOOLEAN :
         IF parsed
         THEN /\ allocated' = allocated \cup {nextId + 1}
              /\ ctl' = [op |-> "index", started |-> FALSE, c |-> c,
                         h |-> NewHandler(nextId + 1)]
              /\ UNCHANGED nextId
         ELSE UNCHANGED <<nextId, allocated, ctl>>
    /\ UNCHANGED <<running, gen, rb, handlers, jobs, deadCall>>

\* startCollection (lines 13-33): a new CollectionHandler, then the config
\* file is parsed; a parse error throws and the auto_ptr deletes the handler.
StartCollection(c) ==
    /\ ctl.op = "idle"
    /\ starts[c] < MaxStarts
    /\ starts' = [starts EXCEPT ![c] = @ + 1]
    /\ \E parsed \in BOOLEAN :
         IF parsed
         THEN /\ nextId' = nextId + 1
              /\ allocated' = allocated \cup {nextId + 1}
              /\ ctl' = [op |-> "index", started |-> FALSE, c |-> c,
                         h |-> NewHandler(nextId + 1)]
         ELSE UNCHANGED <<nextId, allocated, ctl>>
    /\ UNCHANGED <<running, gen, rb, handlers, jobs, deadCall>>

\* Lines 35-38, 44-47, 52-55: osgiLauncher_.start runs the bundle's
\* activator, and the addingService calls it causes, on this thread.
StartBundle(k) ==
    /\ ctl.op = k /\ ~ctl.started
    /\ \E dirOK \in DirOutcomes : Launch(ctl.c, k, dirOK)
    /\ ctl' = [ctl EXCEPT !.started = TRUE]
    /\ UNCHANGED <<handlers, allocated, nextId, starts, jobs, deadCall>>

\* Lines 39-42, 48-50, 56-60: once start has returned (every init_ it set
\* off has finished), register with the handler whatever getService
\* returns for the bundle (NULL when it registered nothing).
GetService(k, nextOp) ==
    /\ ctl.op = k /\ ctl.started
    /\ \A x \in C : rb[x].pc = "idle"
    /\ LET slot == CASE k = "index" -> "idx" [] k = "mining" -> "min" [] OTHER -> "rec"
       IN ctl' = [ctl EXCEPT !.op = nextOp, !.started = FALSE,
                             !.h[slot] = Registered(ctl.c, k)]
    /\ UNCHANGED <<running, gen, rb, handlers, allocated, nextId, starts, jobs, deadCall>>

\* Lines 62-72: insert (name, kEmptyHandler_), then assign the released
\* handler to the entry; an entry already there keeps its key and gets the
\* new handler.
RegisterHandler ==
    /\ ctl.op = "register"
    /\ handlers' = (ctl.c :> ctl.h) @@ handlers
    /\ ctl' = NoCall
    /\ UNCHANGED <<running, gen, rb, allocated, nextId, starts, jobs, deadCall>>

\* stopCollection (lines 75-85): stop the index and mining bundles. The
\* recommend bundle and the handler in collectionHandlers_ stay.
StopCollection(c) ==
    /\ ctl.op = "idle"
    /\ running' = [running EXCEPT ![c] = @ \ {"index", "mining"}]
    /\ UNCHANGED <<gen, rb, handlers, allocated, nextId, starts, ctl, jobs, deadCall>>

\* findHandler (lines 92-105): the mapped handler, or kEmptyHandler_.
FindHandler(c) == IF c \in DOMAIN handlers THEN handlers[c] ELSE NoService

\* A request thread: findHandler, then create, update or
\* destroy (CollectionHandler.cpp:83-102) binds the handler's
\* indexTaskService_ into a task for the JobScheduler.
AddTask(c) ==
    /\ FindHandler(c) # NoService
    /\ Len(jobs) < MaxJobs
    /\ LET s == FindHandler(c).idx
       IN jobs' = Append(jobs, [svc |-> s, live |-> s \in Live])
    /\ UNCHANGED <<running, gen, rb, handlers, allocated, nextId, starts, ctl, deadCall>>

\* The JobScheduler worker runs the oldest task: it calls the service the
\* task was bound to.
RunTask ==
    /\ jobs # <<>>
    /\ deadCall' = (deadCall \/ (Head(jobs).live /\ Head(jobs).svc \notin Live))
    /\ jobs' = Tail(jobs)
    /\ UNCHANGED <<running, gen, rb, handlers, allocated, nextId, starts, ctl>>

Next ==
    \/ \E c \in C : StartCollection(c) \/ StopCollection(c) \/ AddTask(c)
    \/ \E k \in Kinds : StartBundle(k)
    \/ \E c \in C : InitStep(c)
    \/ GetService("index", "mining")
    \/ GetService("mining", "recommend")
    \/ GetService("recommend", "register")
    \/ RegisterHandler
    \/ RunTask

Spec == Init /\ [][Next]_vars

-----------------------------------------------------------------------------
(* Properties *)

Services == [c : C, k : Kinds, g : 1..(MaxStarts * Cardinality(C) + 1)]
Handler == [id : 1..nextId, idx : Services \cup {NoService},
            min : Services \cup {NoService}, rec : Services \cup {NoService}]

TypeOK ==
    /\ running \in [C -> SUBSET Kinds]
    /\ rb \in [C -> [tracking : BOOLEAN, pc : {"idle"} \cup Range(InitOrder),
                     iss : Services \cup {NoService}, wkr : Nat, mgr : Nat,
                     sgen : Nat, svc : Services \cup {NoService},
                     dep : [wkr : Nat, mgr : Nat],
                     item : Services \cup {NoService, Remote}]]
    /\ DOMAIN handlers \subseteq C
    /\ \A c \in DOMAIN handlers : handlers[c] \in Handler
    /\ allocated \subseteq 1..nextId
    /\ ctl.op \in {"idle", "index", "mining", "recommend", "register"}
    /\ ctl.started \in BOOLEAN
    /\ jobs \in Seq([svc : Services \cup {NoService}, live : BOOLEAN])
    /\ Len(jobs) <= MaxJobs

\* The recommend services a collection registers are built on an item
\* source that fits its search node: the IndexSearchService of the same
\* collection for a single or master search node (addingService's
\* collection check, start's tracker), a remote one otherwise; never
\* another collection's index, never NULL. Restarts of any bundle of
\* either collection, in any order, included.
ItemSourceValid ==
    \A c \in C : rb[c].svc # NoService =>
        IF IsServiceNode(NodeCfg[c].search)
        THEN rb[c].item \in {Svc(c, "index", g) : g \in 1..gen[c]["index"]}
        ELSE rb[c].item = Remote

\* Every handler findHandler can return holds only services that are still
\* registered: a request through it never reaches a deleted service object,
\* even after stopCollection or a restart of the collection.
HandlerServicesLive ==
    \A c \in DOMAIN handlers :
        {handlers[c].idx, handlers[c].min, handlers[c].rec} \ {NoService} \subseteq Live

\* A running recommend bundle's ItemManager only uses an IndexSearchService
\* that is still registered (removedService is where it would be told).
ItemSourceLive ==
    \A c \in C :
        (rb[c].svc # NoService /\ rb[c].item \notin {NoService, Remote}) => rb[c].item \in Live

\* The task and search services a recommend activator has registered use
\* only managers and workers that still exist: a later init_ (the
\* collection's index bundle restarting under a running recommend bundle)
\* does not delete them while the old services are still registered.
RecServiceObjectsLive ==
    \A c \in C : rb[c].svc # NoService => rb[c].dep = [wkr |-> rb[c].wkr, mgr |-> rb[c].mgr]

\* A task create/update/destroy enqueued while its IndexTaskService was
\* registered still finds it registered when the JobScheduler runs it: the
\* queue does not outlive the service its tasks are bound to.
JobsRunOnLiveService == ~deadCall

\* A handler findHandler returns has every service its node configuration
\* provides: the index and mining services, and the recommend services
\* when the recommend node serves.
FoundHandlerComplete ==
    \A c \in DOMAIN handlers :
        /\ handlers[c].idx # NoService
        /\ handlers[c].min # NoService
        /\ IsServiceNode(NodeCfg[c].rec) => handlers[c].rec # NoService


\* Every service a request or a queued task can reach exists: the
\* handlers findHandler returns are complete and hold registered services,
\* the recommend bundle's item source is registered, its registered
\* services' managers and workers are not deleted, and queued tasks run
\* on a registered IndexTaskService.
ServiceReferencesLive ==
    /\ HandlerServicesLive
    /\ FoundHandlerComplete
    /\ ItemSourceLive
    /\ RecServiceObjectsLive
    /\ JobsRunOnLiveService
====
