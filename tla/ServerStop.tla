----------------------------- MODULE ServerStop -----------------------------
(***************************************************************************)
(* The process from start to exit (cmd/imgry-server/main.go,               *)
(* server/server.go), with the requests that are at work when it is        *)
(* stopped.  A request looks an image up in redis, makes a size of it with *)
(* ImageMagick and saves that, so that it waits for a redis connection     *)
(* with a wand in its hands.  Shutdown waits for the wands before it       *)
(* closes the pool.                                                        *)
(*                                                                         *)
(* One call of DB stands for the two or three a request makes before it    *)
(* has a wand, one for those it makes with it.                             *)
(***************************************************************************)
EXTENDS RedisPool, MagickEnv

\* The goroutine of main; the others are those of requests.
CONSTANT Main

ASSUME HandsAssumption == Main \notin Holders /\ Users = Holders \cup {Main}

VARIABLES
    life,    \* how far the process is
    forced,  \* the 30 s are over and every connection is closed
    job      \* what each request is doing, "idle" between two requests

lifeVars == <<life, forced>>

vars == <<poolVars, envVars, lifeVars, job>>

Init ==
    /\ PoolInit /\ EnvInit
    /\ life = "starting"
    /\ forced = FALSE
    /\ job = [u \in Holders |-> "idle"]

Job(u, there) == job' = [job EXCEPT ![u] = there]

-----------------------------------------------------------------------------
\* A request.

InPool(u) == UNCHANGED <<envVars, lifeVars>>
InEngine(u) == UNCHANGED <<poolVars, lifeVars>>

Request(u) ==
    /\ life = "running" /\ job[u] = "idle"
    /\ Get(u) /\ Job(u, "find")
    /\ InPool(u)

\* DbFindImage: the size is there, or something failed; or a size is made.
Find(u) ==
    /\ job[u] = "find"
    /\ Advance(u)
    /\ IF at'[u] # "out"
         THEN UNCHANGED job
         ELSE Job(u, "idle") \/ (at[u] = "using" /\ Job(u, "load"))
    /\ InPool(u)

\* LoadBlob.
Load(u) ==
    /\ job[u] = "load"
    /\ CountWand(u) \/ Unset(u)
    /\ UNCHANGED job /\ InEngine(u)

ReadFails(u) ==
    /\ job[u] = "load"
    /\ DestroyWand(u) /\ Job(u, "end")
    /\ InEngine(u)

\* MakeSize drops the image, and nobody releases it.
SizeFails(u) ==
    /\ job[u] = "load"
    /\ Orphan(u) /\ Job(u, "idle")
    /\ InEngine(u)

\* DbSaveImage, and on to the deferred Release whatever comes of it.
Save(u) ==
    /\ \/ job[u] = "load" /\ wand[u] = "held" /\ Get(u)
       \/ job[u] = "save" /\ Advance(u)
    /\ Job(u, IF at'[u] = "out" THEN "end" ELSE "save")
    /\ InPool(u)

Release(u) ==
    /\ job[u] = "end"
    /\ \/ DestroyWand(u) /\ UNCHANGED job
       \/ Settle(u) /\ Job(u, IF wand'[u] = "none" THEN "idle" ELSE "end")
    /\ InEngine(u)

Work(u) ==
    Find(u) \/ Load(u) \/ ReadFails(u) \/ SizeFails(u) \/ Save(u) \/ Release(u)

Finalize ==
    /\ Collect \/ Settle(Finalizer)
    /\ UNCHANGED <<poolVars, lifeVars, job>>

-----------------------------------------------------------------------------
\* The process.

Life(from, to) == life = from /\ life' = to

\* Whenever a step of the start fails, log.Fatal ends the process.

\* NewConfigFromFile and Apply.
Apply ==
    /\ Life("starting", "connecting") \/ Life("starting", "exited")
    /\ UNCHANGED <<forced, poolVars, envVars, job>>

\* GetDB makes the pool and sends a PING: the first connection of the pool.
Connect ==
    /\ Life("connecting", "pinging")
    /\ Get(Main)
    /\ UNCHANGED <<forced, envVars, job>>

Ping ==
    /\ life = "pinging"
    /\ Advance(Main)
    /\ IF at'[Main] # "out"
         THEN UNCHANGED life
         ELSE life' = "exited" \/ (at[Main] = "using" /\ life' = "opening")
    /\ UNCHANGED <<forced, envVars, job>>

\* GetChainstore, SetupStatsD and the directory of the engine may fail; then
\* ImageMagick is initialized.
Open ==
    /\ \/ Life("opening", "running") /\ Initialize
       \/ Life("opening", "exited") /\ UNCHANGED envVars
    /\ UNCHANGED <<forced, poolVars, job>>

Start == Apply \/ Connect \/ Ping \/ Open

\* SIGINT or SIGTERM: the listener is closed; Close only logs.
Signalled ==
    /\ Life("running", "draining")
    /\ UNCHANGED <<forced, poolVars, envVars, job>>

\* The timer of sigLoop calls shutdown(true): every connection is closed, and
\* the handlers go on.
TimeIsUp ==
    /\ life = "draining"
    /\ forced' = TRUE
    /\ UNCHANGED <<life, poolVars, envVars, job>>

Idle == \A u \in Holders : job[u] = "idle"

\* Mutant of Drained: the listeners are closed and nobody waits for them.
DrainedAtOnce ==
    /\ Life("draining", "terminating")
    /\ UNCHANGED <<forced, poolVars, envVars, job>>

\* closeListeners returns, and Shutdown is called, once.
Drained ==
    /\ forced \/ Idle
    /\ Life("draining", "terminating")
    /\ UNCHANGED <<forced, poolVars, envVars, job>>

\* ImageEngine.Terminate: C.MagickWandTerminus when the wands are gone.
Terminus ==
    /\ Life("terminating", "terminated")
    /\ TakePermission
    /\ UNCHANGED <<forced, poolVars, job>>

\* DB.Close, Chainstore.Close, and main returns.
CloseStores ==
    /\ Life("terminated", "exited")
    /\ ClosePool
    /\ UNCHANGED <<forced, envVars, job>>

Stop == TimeIsUp \/ Drained \/ Terminus \/ CloseStores

Running(A) == life # "exited" /\ A

Next ==
    \/ \E u \in Holders : Running(Request(u)) \/ Running(Work(u))
    \/ Running(Finalize)
    \/ Start \/ Signalled \/ Stop

Spec == Init /\ [][Next]_vars

\* Goroutines run while the process does; the collector finds every orphan.
FairSpec ==
    /\ Spec
    /\ \A u \in Holders : WF_vars(Running(Work(u)))
    /\ WF_vars(Running(Finalize))
    /\ WF_vars(Stop)

-----------------------------------------------------------------------------
\* Properties.

\* Every variable has its type.
TypeOK ==
    /\ PoolTypeOK /\ EnvTypeOK
    /\ life \in {"starting", "connecting", "pinging", "opening", "running",
                 "draining", "terminating", "terminated", "exited"}
    /\ forced \in BOOLEAN
    /\ job \in [Holders -> {"idle", "find", "load", "save", "end"}]

\* The permission to end ImageMagick is not lost in the unlocked counting
\* (magick_wand_env.go:70-92): when there is no wand left, it has been given or
\* somebody is about to give it.
Settling == {h \in Hands : wand[h] \in {"uncounted", "clean"}}
PermissionNotLost ==
    (Counter = 0 /\ life \in {"running", "draining", "terminating"}) =>
        canTerminate = 1 \/ Settling # {}

\* A stop that was not forced leaves nobody at work: when ImageMagick is ended
\* and the pool closed, no request has a wand, a connection or waits for one
\* (server.go:65-66, "finish up requests in progress").
StopIsClean ==
    (life \in {"terminated", "exited"} /\ ~forced) =>
        /\ queue = <<>> /\ InUse = {}
        /\ \A u \in Holders : wand[u] = "none"

\* A stop ends: requests that wait for a connection with a wand in their hands
\* get one, and Terminate gets its permission.
StopEnds == life = "draining" ~> life = "exited"
=============================================================================
