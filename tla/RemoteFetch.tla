---------------------------- MODULE RemoteFetch ----------------------------
(***************************************************************************)
(* The server's download cache for one material: request threads ask for   *)
(* its state, start a background download when there is none, and serve    *)
(* the file once the state says "cached".  Files are checked against the   *)
(* manifest: by sha256 when downloaded, by size when found on disk.        *)
(* One step is one critical section of _lock or one file or hub operation. *)
(* Source: src/packages/api/helpmate_server/{storage.py,app.py}.           *)
(***************************************************************************)
EXTENDS Naturals

CONSTANTS
  Requests,     \* request threads
  Downloads,    \* background threads that may exist at once
  OnDisk,       \* what a cache directory may hold when the server starts
  Calm,         \* may clients be calm, or not, or both
  MaxRestarts   \* bound on restarts of the server

Names == {"hm", "stats"}

\* A file as the manifest lists it, one of its size with other bytes, another one.
Contents == {"absent", "good", "bad", "other"}

ASSUME FetchAssumption ==
  /\ MaxRestarts \in Nat
  /\ OnDisk \subseteq [Names -> Contents]
  /\ Calm \subseteq BOOLEAN

VARIABLES
  calm,      \* one client at a time asks a server that started with an empty cache
  listed,    \* the files of this material in the manifest
  files,     \* the cache directory
  manifest,  \* _manifest is loaded
  state,     \* _states[material], "none" when there is no entry
  verified,  \* material \in _verified
  pc,        \* where each request is
  caller,    \* who called fetch_state: "status" or "start_fetch"
  reply,     \* what the request will answer, "none" before that is known
  served,    \* the table the request was answered from
  dpc,       \* where each background thread is
  lost,      \* a thread could not be started, or a file not be removed, and nobody is left to say so
  restarts

requestVars == <<pc, caller, reply, served>>
vars == <<calm, listed, files, manifest, state, verified, requestVars, dpc, lost, restarts>>

Idle(r) == pc[r] = "idle"

Init ==
  /\ listed \in {{}, {"hm"}, Names}
  /\ calm \in Calm
  /\ files \in IF calm THEN {[n \in Names |-> "absent"]} ELSE OnDisk
  /\ manifest = FALSE
  /\ state = "none"
  /\ verified = FALSE
  /\ pc = [r \in Requests |-> "idle"]
  /\ caller = [r \in Requests |-> "status"]
  /\ reply = [r \in Requests |-> "none"]
  /\ served = [r \in Requests |-> "absent"]
  /\ dpc = [d \in Downloads |-> "off"]
  /\ lost = FALSE
  /\ restarts = 0

Goto(r, where) == pc' = [pc EXCEPT ![r] = where]

-----------------------------------------------------------------------------
(* fetch_state, called by status() and again by start_fetch(). *)

Request(r) ==
  /\ pc[r] = "idle" /\ (calm => \A q \in Requests \ {r} : reply[q] = "none" /\ Idle(q))
  /\ Goto(r, "state")
  /\ caller' = [caller EXCEPT ![r] = "status"]
  /\ reply' = [reply EXCEPT ![r] = "none"]
  /\ served' = [served EXCEPT ![r] = "absent"]
  /\ UNCHANGED <<calm, listed, files, manifest, state, verified, dpc, lost, restarts>>

\* What the caller does with the answer.
Answered(r, st) ==
  IF caller[r] = "start_fetch"
    THEN /\ Goto(r, IF st \in {"fetching", "cached"} THEN "idle" ELSE "claim")
         /\ UNCHANGED <<caller, reply>>
    ELSE /\ Goto(r, CASE st = "cached"   -> "serve"
                      [] st = "fetching" -> "idle"
                      [] st = "failed"   -> "state"
                      [] st = "absent"   -> "catalog")
         /\ caller' = [caller EXCEPT ![r] = IF st = "failed" THEN "start_fetch" ELSE @]
         /\ reply' = [reply EXCEPT ![r] = CASE st = "fetching" -> "202"
                                            [] st = "failed"   -> "502"
                                            [] OTHER           -> @]

Blocks == {"fetching", "failed"}

ReadState(r) ==
  /\ pc[r] = "state"
  /\ IF state \in Blocks THEN Answered(r, state)
     ELSE Goto(r, "exists") /\ UNCHANGED <<caller, reply>>
  /\ UNCHANGED <<calm, listed, files, manifest, state, verified, served, dpc, lost, restarts>>

LookForFile(r) ==
  /\ pc[r] = "exists"
  /\ IF files["hm"] = "absent" THEN Answered(r, "absent")
     ELSE Goto(r, "verified") /\ UNCHANGED <<caller, reply>>
  /\ UNCHANGED <<calm, listed, files, manifest, state, verified, served, dpc, lost, restarts>>

ReadVerified(r) ==
  /\ pc[r] = "verified"
  /\ IF verified THEN Answered(r, "cached")
     ELSE Goto(r, "manifest") /\ UNCHANGED <<caller, reply>>
  /\ UNCHANGED <<calm, listed, files, manifest, state, verified, served, dpc, lost, restarts>>

\* manifest() fetches it at most once; the hub may fail.
HubAnswers == manifest' = TRUE
HubFails   == ~ manifest /\ manifest' = manifest

ManifestForSize(r) ==
  /\ pc[r] = "manifest"
  /\ \/ HubAnswers /\ "hm" \in listed /\ Goto(r, "size") /\ UNCHANGED <<caller, reply>>
     \/ HubAnswers /\ "hm" \notin listed /\ Answered(r, "cached")
     \/ HubFails /\ Answered(r, "cached")
  /\ UNCHANGED <<calm, listed, files, state, verified, served, dpc, lost, restarts>>

\* The file may have gone since it was looked for: stat() then raises.
CheckSize(r) ==
  /\ pc[r] = "size"
  /\ CASE files["hm"] \in {"good", "bad"} -> Goto(r, "remember") /\ UNCHANGED reply
       [] files["hm"] = "other"  -> Goto(r, "remove_hm") /\ UNCHANGED reply
       [] files["hm"] = "absent" -> Goto(r, "idle") /\ reply' = [reply EXCEPT ![r] = "500"]
  /\ UNCHANGED <<calm, listed, files, manifest, state, verified, caller, served, dpc, lost, restarts>>

Remember(r) ==
  /\ pc[r] = "remember"
  /\ verified' = TRUE
  /\ Answered(r, "cached")
  /\ UNCHANGED <<calm, listed, files, manifest, state, served, dpc, lost, restarts>>

\* unlink(), which may raise, and then has removed nothing.
Removes(name) == files' = [files EXCEPT ![name] = "absent"]
RemoveFails   == files' = files

RemoveTable(r) ==
  /\ pc[r] = "remove_hm"
  /\ \/ Removes("hm") /\ Goto(r, "remove_stats") /\ UNCHANGED reply
     \/ RemoveFails /\ Goto(r, "idle") /\ reply' = [reply EXCEPT ![r] = "500"]
  /\ UNCHANGED <<calm, listed, manifest, state, verified, caller, served, dpc, lost, restarts>>

RemoveStats(r) ==
  /\ pc[r] = "remove_stats"
  /\ \/ Removes("stats") /\ Answered(r, "absent")
     \/ RemoveFails /\ Goto(r, "idle") /\ reply' = [reply EXCEPT ![r] = "500"] /\ UNCHANGED caller
  /\ UNCHANGED <<calm, listed, manifest, state, verified, served, dpc, lost, restarts>>

FetchState(r) ==
  \/ ReadState(r) \/ LookForFile(r) \/ ReadVerified(r) \/ ManifestForSize(r)
  \/ CheckSize(r) \/ Remember(r) \/ RemoveTable(r) \/ RemoveStats(r)

-----------------------------------------------------------------------------
(* _resolve_or_response and start_fetch. *)

\* A remote material is fetched, one the manifest does not list is unknown.
Catalog(r) ==
  /\ pc[r] = "catalog"
  /\ \/ /\ HubAnswers /\ "hm" \in listed
        /\ Goto(r, "state")
        /\ caller' = [caller EXCEPT ![r] = "start_fetch"]
        /\ reply' = [reply EXCEPT ![r] = "202"]
     \/ /\ HubAnswers /\ "hm" \notin listed
        /\ Goto(r, "idle") /\ reply' = [reply EXCEPT ![r] = "404"] /\ UNCHANGED caller
     \/ /\ HubFails
        /\ Goto(r, "idle") /\ reply' = [reply EXCEPT ![r] = "500"] /\ UNCHANGED caller
  /\ UNCHANGED <<calm, listed, files, state, verified, served, dpc, lost, restarts>>

\* The request opens the table that is there now.
Serve(r) ==
  /\ pc[r] = "serve"
  /\ served' = [served EXCEPT ![r] = files["hm"]]
  /\ reply' = [reply EXCEPT ![r] = IF files["hm"] = "absent" THEN "404" ELSE "200"]
  /\ Goto(r, "idle")
  /\ UNCHANGED <<calm, listed, files, manifest, state, verified, caller, dpc, lost, restarts>>

MayFetchUnchecked == TRUE
MayFetch == state # "fetching"

Claim(r) ==
  /\ pc[r] = "claim"
  /\ IF MayFetch THEN state' = "fetching" /\ Goto(r, "start")
                 ELSE Goto(r, "idle") /\ UNCHANGED state
  /\ UNCHANGED <<calm, listed, files, manifest, verified, caller, reply, served, dpc, lost, restarts>>

\* Thread.start() comes after the lock is given back, and may raise.
StartThread(r) ==
  /\ pc[r] = "start"
  /\ \/ /\ \E d \in Downloads : dpc[d] = "off" /\ dpc' = [dpc EXCEPT ![d] = "manifest"]
        /\ UNCHANGED <<reply, lost>>
     \/ /\ lost' = TRUE /\ reply' = [reply EXCEPT ![r] = "500"]
        /\ UNCHANGED dpc
  /\ Goto(r, "idle")
  /\ UNCHANGED <<calm, listed, files, manifest, state, verified, caller, served, restarts>>

-----------------------------------------------------------------------------
(* _fetch, on a thread of its own. *)

Step(d, where) == dpc' = [dpc EXCEPT ![d] = where]

After(name) == IF name = "hm" /\ "stats" \in listed THEN "get_stats" ELSE "done"

AfterHubFailsUncaught == "off"
AfterHubFails == "clean_hm"

\* The request that claimed the download has loaded the manifest before.
LoadManifest(d) ==
  /\ dpc[d] = "manifest"
  /\ manifest
  /\ Step(d, "get_hm")
  /\ UNCHANGED <<calm, listed, files, manifest, state, verified, requestVars, lost, restarts>>

\* The hub may have moved on since the manifest was read, or hand over damage.
Download(d, name) ==
  /\ dpc[d] = IF name = "hm" THEN "get_hm" ELSE "get_stats"
  /\ \/ /\ \E got \in Contents \ {"absent"} : files' = [files EXCEPT ![name] = got]
        /\ Step(d, IF name = "hm" THEN "check_hm" ELSE "check_stats")
     \/ /\ Step(d, AfterHubFails)
        /\ UNCHANGED files
  /\ UNCHANGED <<calm, listed, manifest, state, verified, requestVars, lost, restarts>>

PassesBySize(content) == content \in {"good", "bad"}
Passes(content) == content = "good"

Check(d, name) ==
  /\ dpc[d] = IF name = "hm" THEN "check_hm" ELSE "check_stats"
  /\ IF Passes(files[name])
       THEN Step(d, After(name)) /\ UNCHANGED files
       ELSE Step(d, "clean_hm") /\ (Removes(name) \/ RemoveFails)
  /\ UNCHANGED <<calm, listed, manifest, state, verified, requestVars, lost, restarts>>

\* What _states is left at.
Outcome(ok) == IF ok THEN "done" ELSE "failed"

Done(d) ==
  /\ dpc[d] = "done"
  /\ state' = Outcome(TRUE)
  /\ Step(d, "off")
  /\ UNCHANGED <<calm, listed, files, manifest, verified, requestVars, lost, restarts>>

\* An unlink that raises here ends the thread: nothing catches it.
Clean(d, name, next) ==
  /\ \/ Removes(name) /\ Step(d, next) /\ UNCHANGED lost
     \/ RemoveFails /\ Step(d, "off") /\ lost' = TRUE
  /\ UNCHANGED <<calm, listed, manifest, state, verified, requestVars, restarts>>

CleanTable(d) == dpc[d] = "clean_hm" /\ Clean(d, "hm", "clean_stats")
CleanStats(d) == dpc[d] = "clean_stats" /\ Clean(d, "stats", "failed")

Failed(d) ==
  /\ dpc[d] = "failed"
  /\ state' = Outcome(FALSE)
  /\ Step(d, "off")
  /\ UNCHANGED <<calm, listed, files, manifest, verified, requestVars, lost, restarts>>

Fetch(d) ==
  \/ LoadManifest(d)
  \/ \E name \in Names : Download(d, name) \/ Check(d, name)
  \/ Done(d) \/ CleanTable(d) \/ CleanStats(d) \/ Failed(d)

\* The server is stopped at any point; only the cache directory survives.
Restart ==
  /\ ~ calm /\ restarts < MaxRestarts
  /\ restarts' = restarts + 1
  /\ manifest' = FALSE
  /\ state' = "none"
  /\ verified' = FALSE
  /\ pc' = [r \in Requests |-> "idle"]
  /\ caller' = [r \in Requests |-> "status"]
  /\ reply' = [r \in Requests |-> "none"]
  /\ served' = [r \in Requests |-> "absent"]
  /\ dpc' = [d \in Downloads |-> "off"]
  /\ lost' = FALSE
  /\ UNCHANGED <<calm, listed, files>>

RequestStep(r) == FetchState(r) \/ Catalog(r) \/ Serve(r) \/ Claim(r) \/ StartThread(r)

Next ==
  \/ \E r \in Requests : Request(r) \/ RequestStep(r)
  \/ \E d \in Downloads : Fetch(d)
  \/ Restart

\* Threads run and the hub answers or fails; nobody has to send a request.
Spec ==
  /\ Init /\ [][Next]_vars
  /\ \A r \in Requests : WF_vars(RequestStep(r))
  /\ \A d \in Downloads : WF_vars(Fetch(d))
-----------------------------------------------------------------------------
(* Every variable has its type; _states holds no word fetch_state does not know. *)
TypeOK ==
  /\ calm \in BOOLEAN
  /\ listed \subseteq Names
  /\ files \in [Names -> Contents]
  /\ manifest \in BOOLEAN
  /\ state \in {"none", "fetching", "done", "failed"}
  /\ verified \in BOOLEAN
  /\ pc \in [Requests -> {"idle", "state", "exists", "verified", "manifest", "size", "remember",
                          "remove_hm", "remove_stats", "catalog", "serve", "claim", "start"}]
  /\ caller \in [Requests -> {"status", "start_fetch"}]
  /\ reply \in [Requests -> {"none", "200", "202", "404", "500", "502"}]
  /\ served \in [Requests -> Contents]
  /\ dpc \in [Downloads -> {"off", "manifest", "get_hm", "check_hm", "get_stats", "check_stats",
                            "done", "clean_hm", "clean_stats", "failed"}]
  /\ lost \in BOOLEAN
  /\ restarts \in 0 .. MaxRestarts

(* However many requests find the material missing or failed at once, one of them
   starts a download and one download runs, and the state says so for as long as
   one does; it says so afterwards only if nobody was left to say otherwise. *)
Running  == {d \in Downloads : dpc[d] # "off"}
Starting == {r \in Requests : pc[r] = "start"}

OneDownload ==
  /\ \A d, e \in Running : d = e
  /\ \A q, r \in Starting : q = r
  /\ Running = {} \/ Starting = {}
  /\ lost => Running = {} /\ Starting = {}
  /\ state = "fetching" <=> Running # {} \/ Starting # {} \/ lost

(* A download that was started comes to an end whatever fails in it, and the material
   can be asked for again: it is "fetching" for ever only if the thread could not be
   started (storage.py:151) or a file not be removed after a failure (storage.py:166),
   and then until the server is restarted. *)
DownloadEnds == state = "fetching" ~> state # "fetching" \/ lost

(* USAGE.md:2633: "Once the download finishes (verified against the manifest's
   sha256; see below), subsequent requests resolve normally with 200": no
   request is answered from a table that is not the manifest's. *)
Served(r) == "hm" \in listed => served[r] \in {"absent", "good"}
ServedAsListed == \A r \in Requests : Served(r)

(* The same where clients are calm, and for both files: as long as the state says
   the download is done, they are there as listed. *)
CalmServed ==
  calm => /\ \A r \in Requests : Served(r)
          /\ state = "done" => \A name \in listed : files[name] = "good"
=============================================================================
