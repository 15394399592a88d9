------------------------- MODULE RemoteFetchProofs -------------------------
(***************************************************************************)
(* One download at a time, for any number of request threads, background   *)
(* threads and restarts.  The invariant is inductive once the two places   *)
(* that change it, Claim and the end of _fetch, are known to be one        *)
(* critical section each, and a request that has claimed the download and  *)
(* not started it yet counts as one (Starting).                            *)
(*                                                                         *)
(* The second part proves what calm clients may rely on (CalmIsServed).    *)
(* The files are settled only between downloads (AtRest); while one runs,  *)
(* the place of its thread says what it has put there so far (Underway),   *)
(* and with one request at a time nobody else has a look (Solo).           *)
(***************************************************************************)
EXTENDS RemoteFetch, TLAPS

DownloadSteps == {"manifest", "get_hm", "check_hm", "get_stats", "check_stats",
                  "done", "clean_hm", "clean_stats", "failed"}
RequestSteps == {"state", "exists", "verified", "manifest", "size", "remember",
                 "remove_hm", "remove_stats", "catalog", "serve", "claim", "start"}

\* The types.
Shape ==
  /\ calm \in BOOLEAN /\ listed \in {{}, {"hm"}, Names}
  /\ files \in [Names -> Contents]
  /\ state \in {"none", "fetching", "done", "failed"}
  /\ pc \in [Requests -> {"idle"} \cup RequestSteps]
  /\ caller \in [Requests -> {"status", "start_fetch"}]
  /\ served \in [Requests -> Contents]

Inv ==
  /\ dpc \in [Downloads -> {"off"} \cup DownloadSteps]
  /\ pc \in [Requests -> {"idle"} \cup RequestSteps]
  /\ lost \in BOOLEAN
  /\ OneDownload

\* Every step keeps them.
LEMMA Shaped ==
  ASSUME Shape, [Next]_vars
  PROVE  Shape'
<1> USE DEF Shape, RequestSteps, Names, Contents
<1>1. ASSUME NEW r \in Requests, Request(r)
      PROVE  Shape'
  BY <1>1 DEF Request, Goto
<1>2. ASSUME NEW r \in Requests, ReadState(r) \/ LookForFile(r) \/ ReadVerified(r) \/ ManifestForSize(r)
      PROVE  Shape'
  BY <1>2 DEF ReadState, LookForFile, ReadVerified, ManifestForSize, Answered, Goto, Blocks
<1>3. ASSUME NEW r \in Requests, CheckSize(r)
      PROVE  Shape'
  BY <1>3 DEF CheckSize, Goto
<1>4. ASSUME NEW r \in Requests, Remember(r) \/ RemoveTable(r) \/ RemoveStats(r)
      PROVE  Shape'
  BY <1>4 DEF Remember, RemoveTable, RemoveStats, Removes, RemoveFails, Answered, Goto
<1>5. ASSUME NEW r \in Requests, Catalog(r) \/ Serve(r) \/ Claim(r) \/ StartThread(r)
      PROVE  Shape'
  BY <1>5 DEF Catalog, Serve, Claim, StartThread, Goto
<1>6. ASSUME NEW d \in Downloads, Fetch(d)
      PROVE  Shape'
  BY <1>6 DEF Fetch, LoadManifest, Download, Check, Done, CleanTable, CleanStats, Clean,
              Removes, RemoveFails, Failed, Outcome, requestVars
<1>7. CASE Restart
  BY <1>7 DEF Restart
<1>8. CASE UNCHANGED vars
  BY <1>8 DEF vars, requestVars
<1> QED
  BY <1>1, <1>2, <1>3, <1>4, <1>5, <1>6, <1>7, <1>8 DEF Next, RequestStep, FetchState

LEMMA InitShaped == Init => Inv /\ Shape
<1>1. Init => Shape
  BY FetchAssumption DEF Init, Shape, Names, Contents
<1>2. Init => Running = {} /\ Starting = {}
  BY DEF Init, Running, Starting
<1>3. Init => dpc \in [Downloads -> {"off"} \cup DownloadSteps] /\ pc \in [Requests -> {"idle"} \cup RequestSteps]
  BY DEF Init
<1>4. Init => state # "fetching" /\ lost = FALSE
  BY DEF Init
<1> QED
  BY <1>1, <1>2, <1>3, <1>4 DEF Inv, OneDownload

\* A step of a download that is not its last keeps its thread running.
LEMMA StillRunning ==
  ASSUME Inv, NEW d \in Downloads, NEW where \in DownloadSteps,
         dpc[d] # "off", dpc' = [dpc EXCEPT ![d] = where], UNCHANGED <<state, pc, lost>>
  PROVE  Inv'
<1>1. dpc' \in [Downloads -> {"off"} \cup DownloadSteps]
  BY DEF Inv
<1>2. where # "off"
  BY DEF DownloadSteps
<1>3. Running' = Running /\ Starting' = Starting
  BY <1>2 DEF Inv, Running, Starting
<1>4. QED
  BY <1>1, <1>3 DEF Inv, OneDownload

\* The thread that ends is the one that was running, and leaves a final state or nobody to do so.
LEMMA Ended ==
  ASSUME Inv, NEW d \in Downloads, dpc[d] # "off", dpc' = [dpc EXCEPT ![d] = "off"], UNCHANGED pc,
         \/ state' # "fetching" /\ UNCHANGED lost
         \/ lost' = TRUE /\ UNCHANGED state
  PROVE  Inv'
<1>1. dpc' \in [Downloads -> {"off"} \cup DownloadSteps]
  BY DEF Inv
<1>2. /\ Running' = {} /\ Starting' = {}
      /\ ~ lost /\ state = "fetching"
  BY DEF Inv, OneDownload, Running, Starting
<1>3. CASE state' # "fetching" /\ UNCHANGED lost
  <2>1. lost' \in BOOLEAN /\ ~ lost'
    BY <1>2, <1>3 DEF Inv
  <2> QED
    BY <1>1, <1>2, <1>3, <2>1 DEF Inv, OneDownload
<1>4. CASE lost' = TRUE /\ UNCHANGED state
  BY <1>1, <1>2, <1>4 DEF Inv, OneDownload
<1>5. QED
  BY <1>3, <1>4

\* Claim: the state is tested and set in one critical section.
LEMMA Claimed ==
  ASSUME Inv, NEW r \in Requests, Claim(r)
  PROVE  Inv'
<1>1. pc' \in [Requests -> {"idle"} \cup RequestSteps] /\ UNCHANGED <<dpc, lost>>
  BY DEF Claim, Goto, Inv, RequestSteps
<1>2. Running' = Running
  BY <1>1 DEF Running
<1>3. CASE MayFetch
  <2>1. Running = {} /\ Starting = {} /\ ~ lost /\ state' = "fetching"
    BY <1>3 DEF Inv, OneDownload, MayFetch, Claim
  <2>2. Starting' = {r}
    BY <1>3, <2>1 DEF Claim, Goto, Inv, Starting
  <2> QED
    BY <1>1, <1>2, <2>1, <2>2 DEF Inv, OneDownload
<1>4. CASE ~ MayFetch
  <2>1. Starting' = Starting /\ state' = state
    BY <1>4 DEF Claim, Goto, Inv, Starting
  <2> QED
    BY <1>1, <1>2, <2>1 DEF Inv, OneDownload
<1>5. QED
  BY <1>3, <1>4

\* The thread is started, or cannot be.
LEMMA Started ==
  ASSUME Inv, NEW r \in Requests, StartThread(r)
  PROVE  Inv'
<1>1. /\ Starting = {r} /\ Running = {} /\ ~ lost /\ state = "fetching" /\ state' = state
      /\ pc' \in [Requests -> {"idle"} \cup RequestSteps] /\ Starting' = {}
  BY DEF StartThread, Goto, Inv, OneDownload, Starting
<1>2. CASE UNCHANGED dpc /\ lost' = TRUE
  BY <1>1, <1>2 DEF Inv, OneDownload, Running
<1>3. ASSUME NEW d \in Downloads, dpc' = [dpc EXCEPT ![d] = "manifest"], UNCHANGED lost
      PROVE  Inv'
  <2>1. dpc' \in [Downloads -> {"off"} \cup DownloadSteps]
    BY <1>3 DEF Inv, DownloadSteps
  <2>2. Running' = {d}
    BY <1>1, <1>3 DEF Inv, Running
  <2> QED
    BY <1>1, <1>3, <2>1, <2>2 DEF Inv, OneDownload
<1> QED
  BY <1>2, <1>3 DEF StartThread

\* Every other step of a request goes somewhere else.
LEMMA RequestElsewhere ==
  ASSUME Inv, NEW r \in Requests, pc[r] # "start", NEW where \in {"idle"} \cup RequestSteps, where # "start",
         pc' = [pc EXCEPT ![r] = where], UNCHANGED <<dpc, state, lost>>
  PROVE  Inv'
<1>1. Running' = Running /\ Starting' = Starting
  BY DEF Inv, Running, Starting
<1> QED
  BY <1>1 DEF Inv, OneDownload

\* Every step of _fetch keeps the thread running or is its last.
LEMMA Fetched ==
  ASSUME Inv, NEW d \in Downloads, Fetch(d)
  PROVE  Inv'
<1>1. CASE LoadManifest(d)
  BY <1>1, StillRunning DEF LoadManifest, Step, DownloadSteps, requestVars
<1>2. ASSUME NEW name \in Names, Download(d, name)
      PROVE  Inv'
  <2>1. dpc[d] # "off" /\ UNCHANGED <<state, pc, lost>>
    BY <1>2 DEF Download, requestVars
  <2>2. \E where \in DownloadSteps : dpc' = [dpc EXCEPT ![d] = where]
    BY <1>2 DEF Download, Step, AfterHubFails, DownloadSteps
  <2>3. QED
    BY <2>1, <2>2, StillRunning
<1>3. ASSUME NEW name \in Names, Check(d, name)
      PROVE  Inv'
  <2>1. dpc[d] # "off" /\ UNCHANGED <<state, pc, lost>>
    BY <1>3 DEF Check, requestVars
  <2>2. \E where \in DownloadSteps : dpc' = [dpc EXCEPT ![d] = where]
    BY <1>3 DEF Check, Step, After, DownloadSteps
  <2>3. QED
    BY <2>1, <2>2, StillRunning
<1>4. CASE Done(d)
  BY <1>4, Ended DEF Done, Step, Outcome, requestVars
<1>5. ASSUME NEW name, NEW next \in DownloadSteps, dpc[d] # "off", Clean(d, name, next)
      PROVE  Inv'
  <2>1. UNCHANGED <<state, pc>>
    BY <1>5 DEF Clean, requestVars
  <2> QED
    BY <1>5, <2>1, StillRunning, Ended DEF Clean, Step
<1>6. CASE CleanTable(d) \/ CleanStats(d)
  BY <1>5, <1>6 DEF CleanTable, CleanStats, DownloadSteps
<1>7. CASE Failed(d)
  BY <1>7, Ended DEF Failed, Step, Outcome, requestVars
<1>8. QED
  BY <1>1, <1>2, <1>3, <1>4, <1>6, <1>7 DEF Fetch

\* A restart leaves no thread and no state; every other step touches neither.
LEMMA Kept ==
  ASSUME Inv, Shape, [Next]_vars
  PROVE  Inv'
<1>1. CASE UNCHANGED vars
  BY <1>1 DEF Inv, OneDownload, Running, Starting, vars, requestVars
<1>2. ASSUME NEW r \in Requests, Request(r) \/ RequestStep(r)
      PROVE  Inv'
  <2>1. CASE Claim(r) \/ StartThread(r)
    BY <2>1, Claimed, Started
  <2>2. CASE Request(r) \/ Catalog(r) \/ Serve(r)
    BY <2>2, RequestElsewhere DEF Request, Catalog, Serve, Goto, RequestSteps
  <2>3. ASSUME NEW st \in {"cached", "fetching", "failed", "absent"}, Answered(r, st), pc[r] # "start",
               UNCHANGED <<dpc, state, lost>>
        PROVE  Inv'
    <3>1. CASE caller[r] = "start_fetch"
      BY <2>3, <3>1, RequestElsewhere DEF Answered, Goto, RequestSteps
    <3>2. CASE caller[r] # "start_fetch"
      <4>1. \E where \in {"serve", "idle", "state", "catalog"} : pc' = [pc EXCEPT ![r] = where]
        BY <2>3, <3>2 DEF Answered, Goto
      <4> QED  BY <2>3, <4>1, RequestElsewhere DEF RequestSteps
    <3> QED
      BY <3>1, <3>2
  <2>4. CASE ReadState(r) \/ LookForFile(r) \/ ReadVerified(r)
    BY <2>3, <2>4, RequestElsewhere DEF ReadState, LookForFile, ReadVerified, Goto, RequestSteps, Blocks
  <2>5. CASE ManifestForSize(r) \/ CheckSize(r)
    <3>1. CASE ManifestForSize(r)
      BY <2>3, <3>1, RequestElsewhere DEF ManifestForSize, Goto, RequestSteps
    <3>2. CASE CheckSize(r)
      <4>1. pc[r] # "start" /\ UNCHANGED <<dpc, state, lost>>
        BY <3>2 DEF CheckSize
      <4>2. pc' = [pc EXCEPT ![r] = "remember"] \/ pc' = [pc EXCEPT ![r] = "remove_hm"]
            \/ pc' = [pc EXCEPT ![r] = "idle"] \/ files["hm"] \notin Contents
        BY <3>2 DEF CheckSize, Goto, Contents
      <4>3. files["hm"] \in Contents
        BY DEF Shape, Names
      <4> QED
        BY <4>1, <4>2, <4>3, RequestElsewhere DEF RequestSteps
    <3> QED
      BY <2>5, <3>1, <3>2
  <2>6. CASE Remember(r) \/ RemoveTable(r) \/ RemoveStats(r)
    BY <2>3, <2>6, RequestElsewhere DEF Remember, RemoveTable, RemoveStats, Goto, RequestSteps
  <2> QED
    BY <1>2, <2>1, <2>2, <2>4, <2>5, <2>6 DEF RequestStep, FetchState
<1>3. CASE Restart
  <2>1. /\ state' = "none" /\ dpc' = [d \in Downloads |-> "off"] /\ lost' = FALSE
        /\ pc' = [r \in Requests |-> "idle"]
    BY <1>3 DEF Restart
  <2>2. Running' = {} /\ Starting' = {}
    BY <2>1 DEF Running, Starting
  <2>3. QED
    BY <2>1, <2>2 DEF Inv, OneDownload
<1>4. QED
  BY <1>1, <1>2, <1>3, Fetched DEF Next

\* However many requests find the material missing or failed at once, one of them starts a
\* download and one runs, and _states says "fetching" while it does, or when nobody is left.
THEOREM OneDownloadAtATime == Spec => []OneDownload
<1>1. Inv /\ Shape /\ [Next]_vars => Inv' /\ Shape'
  BY Kept, Shaped
<1>2. Inv => OneDownload
  BY DEF Inv
<1>3. QED
  BY InitShaped, <1>1, <1>2, PTL DEF Spec
-----------------------------------------------------------------------------
\* Calm clients: one request at a time, on a server whose cache was empty.

Absent(name) == files[name] = "absent"
Listed(name) == name \in listed
AsListed(name) == files[name] = "good"

\* One request is on its way; a material it fetches is in the manifest.
Solo ==
  /\ \A q, r \in Requests : pc[q] # "idle" /\ pc[r] # "idle" => q = r
  /\ \A r \in Requests : caller[r] = "start_fetch" => Listed("hm")
  /\ state # "none" => Listed("hm")

\* Between downloads the cache is empty or complete, and a request past its first look
\* at the state finds it as it was then.
AtRest ==
  /\ state \in {"none", "failed"} => \A name \in Names : Absent(name)
  /\ state = "done" => \A name \in listed : AsListed(name)
  /\ \A r \in Requests :
       /\ pc[r] \in {"exists", "catalog"} => state \in {"none", "done"}
       /\ pc[r] \in {"verified", "manifest", "size", "remember", "serve"} => state = "done"
       /\ pc[r] \notin {"remove_hm", "remove_stats"}
       /\ pc[r] = "claim" => caller[r] = "start_fetch" /\ state \in {"none", "failed"}
       /\ pc[r] = "start" => \A name \in Names : Absent(name)

\* What a download has put there so far.
Underway ==
  \A d \in Downloads :
    /\ dpc[d] \in {"manifest", "get_hm", "failed"} => \A name \in Names : Absent(name)
    /\ dpc[d] \in {"check_hm", "get_stats"} => Absent("stats")
    /\ dpc[d] \in {"get_stats", "check_stats"} => AsListed("hm")
    /\ dpc[d] = "check_hm" => ~ Absent("hm")
    /\ dpc[d] = "clean_stats" => Absent("hm")
    /\ dpc[d] = "done" => \A name \in listed : AsListed(name)

ServedRight == \A r \in Requests : Served(r)

Calmly == Shape /\ (calm => Solo /\ AtRest /\ Underway /\ ServedRight)

\* A step of a request that leaves the files, the state and the downloads alone keeps the
\* invariant if it goes where the state allows.
LEMMA RequestMoves ==
  ASSUME Shape, calm, Solo, AtRest, Underway, ServedRight, NEW r \in Requests, pc[r] # "idle",
         UNCHANGED <<listed, files, state, dpc, served>>,
         \A q \in Requests \ {r} : pc'[q] = pc[q] /\ caller'[q] = caller[q],
         caller'[r] = "start_fetch" => Listed("hm"),
         pc'[r] \in {"exists", "catalog"} => state \in {"none", "done"},
         pc'[r] \in {"verified", "manifest", "size", "remember", "serve"} => state = "done",
         pc'[r] \notin {"remove_hm", "remove_stats", "start"},
         pc'[r] = "claim" => caller'[r] = "start_fetch" /\ state \in {"none", "failed"}
  PROVE  Solo' /\ AtRest' /\ Underway' /\ ServedRight'
<1>1. Solo'
  BY DEF Solo, Listed
<1>2. AtRest'
  BY DEF AtRest, Absent, AsListed
<1>3. Underway' /\ ServedRight'
  BY DEF Underway, Absent, AsListed, ServedRight, Served
<1> QED
  BY <1>1, <1>2, <1>3

\* So does one that leaves the caller alone too.
LEMMA RequestGoes ==
  ASSUME Shape, calm, Solo, AtRest, Underway, ServedRight, NEW r \in Requests, pc[r] # "idle",
         NEW where, pc' = [pc EXCEPT ![r] = where], UNCHANGED <<listed, files, state, dpc, served, caller>>,
         where \notin {"remove_hm", "remove_stats", "claim", "start"},
         where \in {"exists", "catalog"} => state \in {"none", "done"},
         where \in {"verified", "manifest", "size", "remember", "serve"} => state = "done"
  PROVE  Solo' /\ AtRest' /\ Underway' /\ ServedRight'
<1>1. pc'[r] = where /\ \A q \in Requests \ {r} : pc'[q] = pc[q] /\ caller'[q] = caller[q]
  BY DEF Shape
<1>2. caller'[r] = "start_fetch" => Listed("hm")
  BY DEF Solo
<1> QED
  BY <1>1, <1>2, RequestMoves

\* The answer of fetch_state is about the state the request found.
LEMMA AnswerMoves ==
  ASSUME Shape, calm, Solo, AtRest, Underway, ServedRight, NEW r \in Requests, pc[r] # "idle",
         NEW st \in {"cached", "fetching", "failed", "absent"}, Answered(r, st),
         UNCHANGED <<listed, files, state, dpc, served>>,
         st = "cached" => state = "done",
         st = "failed" => state = "failed",
         st = "absent" => state \in {"none", "done"} /\ (Listed("hm") => state = "none")
  PROVE  Solo' /\ AtRest' /\ Underway' /\ ServedRight'
<1>1. CASE caller[r] = "start_fetch"
  <2>1. caller' = caller /\ Listed("hm")
    BY <1>1 DEF Answered, Solo
  <2>2. \A q \in Requests \ {r} : pc'[q] = pc[q] /\ caller'[q] = caller[q]
    BY <1>1, <2>1 DEF Answered, Goto, Shape
  <2>3. /\ st \in {"fetching", "cached"} => pc'[r] = "idle"
        /\ st \in {"failed", "absent"} => pc'[r] = "claim"
    BY <1>1 DEF Answered, Goto, Shape
  <2>4. pc'[r] = "idle" \/ (pc'[r] = "claim" /\ state \in {"none", "failed"})
    <3>1. st \in {"failed", "absent"} => state \in {"none", "failed"}
      BY <2>1
    <3> QED
      BY <2>3, <3>1
  <2> QED
    BY <1>1, <2>1, <2>2, <2>4, RequestMoves
<1>2. CASE caller[r] # "start_fetch"
  <2>1. /\ caller'[r] = "start_fetch" => st = "failed"
        /\ \A q \in Requests \ {r} : pc'[q] = pc[q] /\ caller'[q] = caller[q]
    BY <1>2 DEF Answered, Goto, Shape
  <2>2. caller'[r] = "start_fetch" => Listed("hm")
    BY <2>1 DEF Solo
  <2>3. /\ pc'[r] \in {"idle", "serve", "state", "catalog"}
        /\ pc'[r] = "serve" => st = "cached"
        /\ pc'[r] = "catalog" => st = "absent"
    BY <1>2 DEF Answered, Goto, Shape
  <2>4. /\ pc'[r] \in {"exists", "catalog"} => state \in {"none", "done"}
        /\ pc'[r] \in {"verified", "manifest", "size", "remember", "serve"} => state = "done"
        /\ pc'[r] \notin {"remove_hm", "remove_stats", "claim", "start"}
    BY <2>3
  <2> QED
    BY <2>1, <2>2, <2>4, RequestMoves
<1> QED
  BY <1>1, <1>2

\* fetch_state never finds a file of the wrong size, nor a listed one missing.
LEMMA FetchStateCalm ==
  ASSUME Shape, calm, Solo, AtRest, Underway, ServedRight, NEW r \in Requests, FetchState(r)
  PROVE  Solo' /\ AtRest' /\ Underway' /\ ServedRight'
<1>1. CASE ReadState(r)
  <2>1. pc[r] # "idle" /\ UNCHANGED <<listed, files, state, dpc, served>>
    BY <1>1 DEF ReadState
  <2>2. CASE state \in Blocks
    <3>1. Answered(r, state)
      BY <1>1, <2>2 DEF ReadState
    <3> QED
      BY <2>1, <2>2, <3>1, AnswerMoves DEF Blocks
  <2>3. CASE state \notin Blocks
    <3>1. pc' = [pc EXCEPT ![r] = "exists"] /\ UNCHANGED caller
      BY <1>1, <2>3 DEF ReadState, Goto
    <3>2. state \in {"none", "done"}
      BY <2>3 DEF Blocks, Shape
    <3> QED
      BY <2>1, <3>1, <3>2, RequestGoes
  <2> QED
    BY <2>2, <2>3
<1>2. CASE LookForFile(r)
  <2>1. /\ state \in {"none", "done"} /\ (Listed("hm") /\ Absent("hm") => state = "none")
        /\ pc[r] # "idle" /\ UNCHANGED <<listed, files, state, dpc, served>>
    BY <1>2 DEF LookForFile, AtRest, Listed, Absent, AsListed
  <2>2. CASE Absent("hm")
    <3>1. Answered(r, "absent")
      BY <1>2, <2>2 DEF LookForFile, Absent
    <3> QED
      BY <2>1, <2>2, <3>1, AnswerMoves
  <2>3. CASE ~ Absent("hm")
    <3>1. pc' = [pc EXCEPT ![r] = "verified"] /\ UNCHANGED caller
      BY <1>2, <2>3 DEF LookForFile, Goto, Absent
    <3>2. state = "done"
      BY <2>1, <2>3 DEF AtRest, Names
    <3> QED
      BY <2>1, <3>1, <3>2, RequestGoes
  <2> QED
    BY <2>2, <2>3
<1>3. CASE ReadVerified(r) \/ ManifestForSize(r)
  <2>1. state = "done" /\ pc[r] # "idle" /\ UNCHANGED <<listed, files, state, dpc, served>>
    BY <1>3 DEF ReadVerified, ManifestForSize, AtRest
  <2>2. CASE Answered(r, "cached")
    BY <2>1, <2>2, AnswerMoves
  <2>3. CASE UNCHANGED caller /\ pc' = [pc EXCEPT ![r] = "manifest"]
    BY <2>1, <2>3, RequestGoes
  <2>4. CASE UNCHANGED caller /\ pc' = [pc EXCEPT ![r] = "size"]
    BY <2>1, <2>4, RequestGoes
  <2> QED
    BY <1>3, <2>2, <2>3, <2>4 DEF ReadVerified, ManifestForSize, Goto
<1>4. CASE CheckSize(r)
  <2>1. state = "done" /\ Listed("hm") /\ pc[r] # "idle"
    BY <1>4 DEF CheckSize, AtRest, Solo
  <2>2. files["hm"] = "good"
    BY <2>1 DEF AtRest, Listed, AsListed
  <2>3. pc' = [pc EXCEPT ![r] = "remember"] /\ UNCHANGED <<listed, files, state, dpc, served, caller>>
    BY <1>4, <2>2 DEF CheckSize, Goto
  <2> QED
    BY <2>1, <2>3, RequestGoes
<1>5. CASE Remember(r)
  <2>1. state = "done" /\ pc[r] # "idle" /\ UNCHANGED <<listed, files, state, dpc, served>>
    BY <1>5 DEF Remember, AtRest
  <2> QED
    BY <1>5, <2>1, AnswerMoves DEF Remember
<1>6. CASE RemoveTable(r) \/ RemoveStats(r)
  BY <1>6 DEF RemoveTable, RemoveStats, AtRest
<1> QED
  BY <1>1, <1>2, <1>3, <1>4, <1>5, <1>6 DEF FetchState

\* The rest of a request: it fetches what is listed and serves what a download finished.
LEMMA RequestCalm ==
  ASSUME Shape, Inv, calm, Solo, AtRest, Underway, ServedRight, NEW r \in Requests,
         Request(r) \/ Catalog(r) \/ Serve(r) \/ Claim(r) \/ StartThread(r)
  PROVE  Solo' /\ AtRest' /\ Underway' /\ ServedRight'
<1>1. CASE Request(r)
  <2>1. /\ \A q \in Requests \ {r} : pc[q] = "idle" /\ pc'[q] = "idle" /\ caller'[q] = caller[q]
        /\ pc'[r] = "state" /\ caller'[r] = "status" /\ served' = [served EXCEPT ![r] = "absent"]
        /\ UNCHANGED <<listed, files, state, dpc>>
    BY <1>1 DEF Request, Goto, Idle, Shape
  <2>2. Solo' /\ AtRest'
    BY <2>1 DEF Solo, AtRest, Listed, Absent, AsListed
  <2>3. Underway' /\ ServedRight'
    BY <2>1 DEF Underway, Absent, AsListed, ServedRight, Served, Shape
  <2> QED
    BY <2>2, <2>3
<1>2. CASE Catalog(r)
  <2>1. pc[r] # "idle" /\ UNCHANGED <<listed, files, state, dpc, served>>
    BY <1>2 DEF Catalog
  <2>2. /\ \A q \in Requests \ {r} : pc'[q] = pc[q] /\ caller'[q] = caller[q]
        /\ pc'[r] \in {"idle", "state"}
        /\ caller'[r] = "start_fetch" => Listed("hm")
    BY <1>2 DEF Catalog, Goto, Shape, Listed, Solo
  <2> QED
    BY <2>1, <2>2, RequestMoves
<1>3. CASE Serve(r)
  <2>1. state = "done"
    BY <1>3 DEF Serve, AtRest
  <2>2. "hm" \in listed => files["hm"] = "good"
    BY <2>1 DEF AtRest, AsListed
  <2>3. /\ \A q \in Requests : pc'[q] = IF q = r THEN "idle" ELSE pc[q]
        /\ UNCHANGED <<caller, listed, files, state, dpc>>
        /\ \A q \in Requests : served'[q] = IF q = r THEN files["hm"] ELSE served[q]
    BY <1>3 DEF Serve, Goto, Shape
  <2>4. Solo' /\ AtRest'
    BY <2>3 DEF Solo, AtRest, Listed, Absent, AsListed
  <2>5. Underway' /\ ServedRight'
    BY <2>2, <2>3 DEF Underway, Absent, AsListed, ServedRight, Served
  <2> QED
    BY <2>4, <2>5
<1>4. CASE Claim(r)
  <2>1. state \in {"none", "failed"} /\ Listed("hm") /\ \A name \in Names : Absent(name)
    BY <1>4 DEF Claim, AtRest, Solo
  <2>2. /\ state' = "fetching"
        /\ \A q \in Requests : pc'[q] = IF q = r THEN "start" ELSE pc[q]
        /\ UNCHANGED <<caller, listed, files, served, dpc>>
    BY <1>4, <2>1 DEF Claim, MayFetch, Goto, Shape
  <2>3. \A q \in Requests : pc'[q] \in {"idle", "start"}
    BY <1>4, <2>2 DEF Claim, Solo
  <2>4. Solo' /\ AtRest'
    <3>1. Solo'
      BY <1>4, <2>1, <2>2 DEF Claim, Solo, Listed
    <3> QED
      BY <2>1, <2>2, <2>3, <3>1 DEF AtRest, Absent
  <2>5. Underway' /\ ServedRight'
    BY <2>2 DEF Underway, Absent, AsListed, ServedRight, Served
  <2> QED
    BY <2>4, <2>5
<1>5. CASE StartThread(r)
  <2>1. /\ state = "fetching" /\ Running = {} /\ \A name \in Names : Absent(name)
        /\ \A q \in Requests : pc'[q] = "idle"
        /\ UNCHANGED <<caller, listed, files, served, state>>
    BY <1>5 DEF StartThread, Goto, Shape, Solo, AtRest, Inv, OneDownload, Starting
  <2>2. \A e \in Downloads : dpc'[e] \in {"off", "manifest"}
    BY <1>5, <2>1 DEF StartThread, Inv, Running
  <2>3. Solo' /\ AtRest'
    BY <2>1 DEF Solo, AtRest, Listed
  <2>4. Underway' /\ ServedRight'
    BY <2>1, <2>2 DEF Underway, Absent, AsListed, ServedRight, Served
  <2> QED
    BY <2>3, <2>4
<1> QED
  BY <1>1, <1>2, <1>3, <1>4, <1>5

\* A download on its own: what it finds at each step is what it put there.
LEMMA FetchCalm ==
  ASSUME Shape, Inv, calm, Solo, AtRest, Underway, ServedRight, NEW d \in Downloads, Fetch(d)
  PROVE  Solo' /\ AtRest' /\ Underway' /\ ServedRight'
<1>1. dpc[d] # "off" /\ UNCHANGED <<listed, pc, caller, served>>
  BY DEF Fetch, LoadManifest, Download, Check, Done, CleanTable, CleanStats, Clean, Failed, requestVars
<1>2. state = "fetching" /\ \A e \in Downloads \ {d} : dpc[e] = "off"
  BY <1>1 DEF Inv, OneDownload, Running
<1>3. Solo' /\ ServedRight'
  BY <1>1, <1>2 DEF Solo, Listed, ServedRight, Served
<1>4. \A q \in Requests : pc[q] \in {"idle", "state"}
  BY <1>1, <1>2 DEF AtRest, Shape, RequestSteps, Inv, OneDownload, Running, Starting
<1>5. PICK where : dpc' = [dpc EXCEPT ![d] = where]
  BY DEF Fetch, LoadManifest, Download, Check, Done, CleanTable, CleanStats, Clean, Failed, Step
<1>6. dpc'[d] = where /\ \A e \in Downloads \ {d} : dpc'[e] = "off"
  BY <1>2, <1>5 DEF Inv
<1>7. CASE state' = "fetching"
  <2>1. AtRest'
    BY <1>1, <1>4, <1>7 DEF AtRest
  <2>2. Underway'
    <3>1. CASE LoadManifest(d)
      BY <3>1, <1>1, <1>6 DEF LoadManifest, Step, Underway, Absent, Inv
    <3>2. CASE CleanTable(d)
      BY <3>2, <1>1, <1>6 DEF CleanTable, Clean, Removes, RemoveFails, Step, Underway, Absent, Shape, Names, Inv
    <3>3. CASE CleanStats(d)
      BY <3>3, <1>1, <1>6 DEF CleanStats, Clean, Removes, RemoveFails, Step, Underway, Absent, Shape, Names, Inv
    <3>4. CASE Done(d) \/ Failed(d)
      BY <3>4, <1>7 DEF Done, Failed, Outcome
    <3>5. ASSUME NEW name \in Names, Download(d, name)
          PROVE  Underway'
      BY <3>5, <1>1, <1>2, <1>6 DEF Download, Step, AfterHubFails, Underway, Absent, AsListed, Shape, Names, Inv
    <3>6. ASSUME NEW name \in Names, Check(d, name)
          PROVE  Underway'
      BY <3>6, <1>1, <1>2, <1>6 DEF Check, Removes, RemoveFails, Passes, After, Step, Underway, Absent, AsListed, Shape, Names, Inv
    <3> QED
      BY <3>1, <3>2, <3>3, <3>4, <3>5, <3>6 DEF Fetch
  <2> QED
    BY <1>3, <2>1, <2>2
<1>8. CASE state' # "fetching"
  <2>1. Done(d) \/ Failed(d)
    BY <1>2, <1>8 DEF Fetch, LoadManifest, Download, Check, CleanTable, CleanStats, Clean
  <2>2. UNCHANGED files /\ where = "off"
    BY <2>1, <1>6 DEF Done, Failed, Step, Inv
  <2>3. AtRest'
    BY <2>1, <2>2, <1>1, <1>4 DEF Done, Failed, Outcome, AtRest, Underway, Absent, AsListed
  <2>4. Underway'
    BY <2>2, <1>6 DEF Underway
  <2> QED
    BY <1>3, <2>3, <2>4
<1> QED
  BY <1>7, <1>8

\* Every step keeps what calm clients rely on; a server with calm clients does not restart.
LEMMA KeptCalm ==
  ASSUME Inv, Calmly, [Next]_vars
  PROVE  Calmly'
<1>1. Shape'
  BY Shaped DEF Calmly
<1>2. calm' = calm
  BY DEF Next, Request, RequestStep, FetchState, ReadState, LookForFile, ReadVerified, ManifestForSize,
         CheckSize, Remember, RemoveTable, RemoveStats, Catalog, Serve, Claim, StartThread,
         Fetch, LoadManifest, Download, Check, Done, CleanTable, CleanStats, Clean, Failed, Restart, vars
<1>3. ASSUME calm
      PROVE  Solo' /\ AtRest' /\ Underway' /\ ServedRight'
  <2>1. Shape /\ Solo /\ AtRest /\ Underway /\ ServedRight
    BY <1>3 DEF Calmly
  <2>2. ASSUME NEW r \in Requests, Request(r) \/ RequestStep(r)
        PROVE  Solo' /\ AtRest' /\ Underway' /\ ServedRight'
    BY <1>3, <2>1, <2>2, RequestCalm, FetchStateCalm DEF RequestStep
  <2>3. ASSUME NEW d \in Downloads, Fetch(d)
        PROVE  Solo' /\ AtRest' /\ Underway' /\ ServedRight'
    BY <1>3, <2>1, <2>3, FetchCalm
  <2>4. ~ Restart
    BY <1>3 DEF Restart
  <2>5. CASE UNCHANGED vars
    BY <2>1, <2>5 DEF vars, requestVars, Solo, AtRest, Underway, ServedRight, Served, Listed, Absent, AsListed
  <2> QED
    BY <2>2, <2>3, <2>4, <2>5 DEF Next
<1> QED
  BY <1>1, <1>2, <1>3 DEF Calmly

\* Where clients ask one at a time and the cache started empty, every answer is from the
\* manifest's table, and a finished download is there whole: what USAGE.md promises of any
\* client holds for these, over any number of failed and repeated downloads.
THEOREM CalmIsServed == Spec => []CalmServed
<1>1. Init => Inv /\ Calmly
  <2>1. Init => Inv /\ Shape
    BY InitShaped
  <2>3. Init /\ calm => Solo /\ AtRest /\ Underway /\ ServedRight
    BY DEF Init, Solo, AtRest, Underway, ServedRight, Served, Absent
  <2> QED
    BY <2>1, <2>3 DEF Calmly
<1>2. Inv /\ Calmly /\ [Next]_vars => Inv' /\ Calmly'
  BY Kept, KeptCalm DEF Calmly
<1>3. Calmly => CalmServed
  BY DEF Calmly, CalmServed, AtRest, ServedRight, AsListed
<1>4. QED
  BY <1>1, <1>2, <1>3, PTL DEF Spec
=============================================================================
