# A TLA+ model of sitespeed-api

sitespeed-api is an HTTP service that runs sitespeed.io against up to five URLs in
a container (Docker) or a pod (Kubernetes), zips the report, stores it in an S3
bucket and serves it, through a local cache, over signed links. This directory
holds TLA+ modules that model its stateful parts, configurations that check
them with TLC, and theorems about them checked by TLAPS. Paths below are relative
to `src/`.

## The system

| Component | State | Operations | Interacts with |
|---|---|---|---|
| Result handlers and cache (`internal/handler/handler.go`, `internal/storage/storage.go`) | bucket objects `results/<id>/{result.zip,screenshot.png}`; `<tmp>/sitespeed-cache/<id>.zip`, `<id>-screenshot.png` | `HandleAnalyze` (second half), `HandleGetResult`, `HandleGetScreenshot`, `HandleDeleteResult` | each other through bucket and cache, without any lock |
| Docker runner (`internal/docker/runner.go`) | slot channel, containers in the daemon, result directories | `RunAnalysis`, `CleanupOrphaned`, `CleanupStaleResultDirs` | daemon; sweep and analyses through the containers; handlers through the result directory |
| Kubernetes runner (`internal/kubernetes/runner.go`) | slot channel, pods in the cluster, result directories | the same three | API server (get, watch, create, delete, exec) |
| Periodic cleanup (`internal/cleanup/cleanup.go`) | ticker | `Start`: a sweep before the server listens, then every 5 minutes | runner |
| Workspace (`handler.go` 102-188, `internal/utils/zip.go`) | `<base>/<id>/`, `<tmp>/<id>.zip` | clear, extract, zip, upload, remove | analyses of the same id share both |
| Signed links (`internal/handler/result_auth.go`) | secret, clock, one cookie per browser | `SignResult`, `ResultAuthMiddleware` | result handlers |
| Middleware (`internal/middleware/compress.go`, `cmd/api/main.go`) | response header and compressor per response | compress, recover, log | all handlers |
| Observability, models, wiring | none the handlers read back | | |

What is hard in it, and what correctness means there:

- *Cache and bucket.* Handlers check, download, open and unlink the same paths in
  separate steps. The cache should be a faithful copy of the bucket, an answer
  should not be stale or incomplete, and a deletion should delete.
- *Containers and slots.* Containers outlive the process. Every one of nine ways
  out of `RunAnalysis` must remove the container and give back the slot; the sweep
  must collect what is left behind and nothing else; nothing may wait for ever.
- *Pods.* They are addressed by name, and names are reused while the old pod is
  still terminating; readiness is learnt from watches that break.
- *Workspace.* Two analyses of one id write, zip and delete the same directory.
- *Links.* Several durations, one of them in whole seconds, and one cookie for all
  reports.
- *Middleware.* A panic after the response has begun.

## Modules

### ResultCache (checked, proved)

One analysis id: all paths and keys are built from the id, so ids do not meet here.
A *version* of a result is the request that produced it; an *inode* is the request
whose `os.Create` made it. `bucket` and `cache` map `"zip"` and `"png"` to a version
and to an inode; `file` gives the data of each inode in two parts, `"body"` and
`"tail"`. Two parts are what the properties tell apart: empty, partly written,
whole, and mixed from two downloads; for a zip the tail is the central directory,
without which `zip.OpenReader` fails.

| Code | Actions |
|---|---|
| `HandleGetResult`, `HandleGetScreenshot` | `Stat` (lookup and decision), `GetObject`, `Create`, `Copy`/`CopyFails` (`DownloadFile`), `Open`, `Read` |
| `HandleAnalyze` after `RunAnalysis` | `PutScreenshot` (may be skipped or fail, only logged), `PutZip`, `CleanCache` |
| `HandleDeleteResult` | `DeleteZip`, `DeletePng`, `CleanCache` |
| process | `Crash`: all requests lost, cache directory kept (restart) or empty (new container) |

The bucket may hold a result from before the first request, the version `Old`. Every
call may fail: GetObject, `os.Create`, the copy, the two uploads and deletions (with or
without having been carried out), and `os.Remove`, whose error `removeQuietly` drops. A
reader that opened a file keeps its inode when the path is unlinked; `os.Create` on an
existing path truncates the inode in place, as Linux does.

The code gives its guarantees for each kind apart, until something puts that kind at
risk, and again once its cached copy has been unlinked while no reader of it was in
flight. Two histories, sets of kinds, say so:

- `stale`: the cached copy may be of an old version. A reader of the kind and a writer
  have been in flight together (`Meets`), or a writer that had changed the object has
  left the copy: the upload of the report failed, the unlink failed, or the process
  died (`Left`, and `Unclean` for the steps of a writer in which a crash does it).
- `partial`: the cached copy may lack a part, as a download of the kind has broken off.
- `Unlink` takes a kind out of both when it succeeds and nobody reads that kind.

The properties:

- `CacheCoherent`: when all is quiet, the cached copy of a kind in neither history is
  the whole current object. It holds whatever the downloads do to each other, although
  they truncate each other's file; and as kinds leave the histories it also says that
  the next analysis or deletion nobody reads beside repairs what any failure has left.
- `ServedCurrent`: no 200 answer contains data of a version that the bucket does not
  hold, unless the kind is stale. A partial file may be sent, an old one not.
- `TornReadMeansConcurrentDownload`: a part missing in a 200 answer means another
  request is at that moment writing the same inode, or the kind is partial. This window
  is real: the cached file becomes visible when it is created, not when it is complete.
  It depends neither on versions nor on the unlinks.
- Refuted: `DeletedMeansGone` (see Findings).

### ResultStore and ResultCacheStore (checked, proved)

`ResultStore` is what a client may think it talks to: a store with one version of
each kind, changed by analyses and deletions, from which downloads are answered;
there is no cache in it. `ResultCacheStore` adds to ResultCache the history `past`
(the versions the bucket has held) and instantiates the store with
`store <- bucket`, `answer <- got` of the requests answered with 200, and
`atRisk <- stale`: the kinds of which an old version may come back.

- `ImplementsStore`: every step of the handlers is one of the store, or none. An
  answer is taken from what is stored at the moment it is completed, or, of a kind at
  risk, from what has been stored at some time; parts may be missing (the torn reads
  of ResultCache); nothing else changes what is stored. Of the failures, exactly those
  of the upload of the report, of `os.Remove` and of the process put a kind at risk.

### Runner (the abstraction of both backends)

The `Runner` interface of `internal/runner/runner.go`: requests are queued, at most
`Max` are under way, each returns once, a restart ends them all, and the server
listens only after a first sweep. Both runner modules are shown to implement it
(`ImplementsRunner`, `Backend == INSTANCE Runner WITH state <- ...`): every way out
gives back exactly the slot that was taken.

### DockerRunner (checked, proved)

`pc[r]` is the next call of analysis `r`; `slots` counts the values in the channel
`maxConcurrent`; `cont`, `code`, `age` are the daemon's containers, at most one per
request, named after the request's id (`Conflict`). `timer` counts the ticks of the
current timed step; `todo` and `cur` are the sweep's list and position.

| Code | Actions |
|---|---|
| slot `select` | `Acquire`, `GiveUp` |
| `RunAnalysis` | `Create`, `Start`, `WaitResult`/`WaitFails`, `Stop`, `Copy`, `Remove`; each with its failure, carried out or not |
| `cleanup.Start`, `CleanupOrphaned` | `List`, `SweepStop`, `SweepRemove`, `SweepEnd`; `serving` stays false until the first sweep ends |
| daemon, clock, process | `Exit`, `Tick`, `Crash` |

Time advances only while no timed step is past its limit: `wait` is bounded by
`ANALYSIS_TIMEOUT`, `copy` by the 60 s of `copyFromContainer`. `ContainerStart` has
no timeout in the code: `StartLimit` is an assumption about the daemon, used only
by `NeverSweepsActive`. The sweep has the time of creation in whole seconds
(`time.Unix(c.Created, 0)`), which makes a container look older by less than one; the
model's ages are exact, and that second is a part of the limits assumed.

- `WithinSlots`: containers never outnumber slots unless a removal or create call
  failed or the process died.
- `NeverSweepsActive`: what the sweep lists is not being started, run or copied,
  provided `StartLimit + CopyLimit <= Timeout`.
- `EveryAnalysisReturns`, `LeaksReclaimed`: liveness, under `FairSpec`.
- `ImplementsRunner`: the refinement of Runner.

### KubernetesRunner (checked, proved)

One analysis id: every call to the API server names the pod `sitespeed-<id>`, so only
requests of one id meet. Requests of other ids could only hold slots, which delays
`Acquire` and nothing else. A request creates at most one pod, and the pod is
named by it: `holder` is the request whose pod has the name, `status`,
`terminating` and `aged` describe that pod. The module keeps apart what the code
cannot see from a name: *whose* pod it is.

| Code | Actions |
|---|---|
| slot `select` | `Acquire`, `GiveUp` |
| `ensurePodRecreated`, `waitUntilPodDeleted` | `Delete`, `AwaitGone` |
| `createPodWithRetry` | `Create`: a conflict goes back to `Delete` and counts `attempt` |
| `waitForInitContainer`, `watchUntilReady` | `Get`, `Watch`, `Event`, `WatchBreaks`, `Expire` |
| `copyFromPod`, `deletePod` | `Copy`, `Remove` |
| `CleanupOrphaned` | `List`, `SweepDelete`; `serving` stays false until the first sweep ends |
| cluster, clock, process | `Progress`, `Gone`, `Evict`, `CreateLate`, `GrowOld`, `Crash` |

A watch is the queue `unread` of the events since the version `Get` has seen: it
is filled from `Get` on, although `Watch` is called later, because the code passes
the pod's resource version to the watch. A Create that fails may be carried out at
once, later or never: `late` holds the requests for which it is open. (A Delete that
comes late does what `Evict` does, whenever it comes.) Time is one
bit, `aged` (older than twice `ANALYSIS_TIMEOUT`): `GrowOld` is disabled while the
pod's own analysis waits for it, as that wait ends after `ANALYSIS_TIMEOUT`. The
history `disturbed` says that an analysis has overlapped another one of its id, or
that somebody else (sweep, cluster) has deleted its pod.

- `ReadinessNeverMissed`: an analysis that has read all its events waits for a pod
  that is there and at work. Getting ready, failing and being deleted are seen
  whether they fall before `Get`, between `Get` and `Watch` or into a broken watch.
- `OwnResults`: an undisturbed analysis returns the results of its own pod, never
  those of a pod that an earlier request or process left behind, or whose Create
  comes late.
- `NoPodLeft`: without a failed last deletion, a failed Create or a crash, no pod
  outlives its request except to terminate, also when requests of one id delete
  each other's pods.
- `EveryAnalysisReturns`, `LeaksReclaimed`: liveness, under `FairSpec`.
- `ImplementsRunner`: the refinement of Runner.

### Workspace (checked, proved)

The analyses of one id from the end of their container on: the slot and the name
of the container are free again while the handler still reads the directory, so
several of them meet there. `dir[f]` and `archive[i][f]` say *whose* data a file or
an entry of an archive holds; `zip` is the inode that `<tmp>/<id>.zip` names. Two
files suffice: the web vitals, without which `HandleAnalyze` answers 500, and a page.

| Code | Actions |
|---|---|
| `RunAnalysis` after the container's end | `Begin`, `Clear` (`os.RemoveAll`, file by file, failure logged), `Extract` |
| `HandleAnalyze` | `Check`, `PutScreenshot`, `RemoveZip`, `OpenZip`, `PutZip`, `RemoveTemp`, `RemoveDir` |
| `ZipDirectory` | `Create`, `List`, `Zip` (with `ZipFailed`, and the dropped error of Close) |
| `CleanupStaleResultDirs` | `SweepList`, `SweepRemove` |
| time, process | `GrowOld`, `Crash` (with the file system kept or new) |

The deferred calls are modelled where Go runs them: on a failed archive the directory
is removed and the temporary zip is not. `os.RemoveAll` takes files one by one and,
when somebody else extracts meanwhile, ends with or without the directory gone. An
archive written by two writers, or truncated under one, is "garbled". Every removal may
fail: `os.RemoveAll` in `Clear` (logged, and the extraction goes on over what is left),
in `RemoveDir` and in the sweep, and `os.Remove` of the archive (`UnlinkFails`;
`removeQuietly` drops the error). Three histories name the exceptions of the properties:
`disturbed[r]`, another analysis of the id or a sweep has been at work in r's time;
`marred[r]`, r's own clearing of the directory or the closing of its own archive has
failed; `stray`, an archive is there that nobody will remove.

- `StoresOwnReport`: an analysis that is not disturbed, and not marred, answers 200 only
  after uploading its own, whole, sealed report with its own web vitals and screenshot,
  whatever earlier analyses, failed copies, removals and uploads and crashes have left
  in the directory and the archive. The two cases excluded are no guarantee of the code:
  `RunAnalysis` goes on when the clearing fails (`docker/runner.go:220`), and the report
  is then stored together with what an earlier one has left; and `ZipDirectory` drops
  the error of Close. A failed removal of the old archive is not excluded: it is truncated.
- `TempZipRemoved`: when all is quiet no temporary archive remains, also after overlapping
  analyses, unless `ZipDirectory`, the last removal or the process has failed; and then
  only until a later analysis of the id removes what is there.
- `DirReclaimed`: liveness, under `FairSpec`: no directory stays for ever.
- Refuted: `ReportOfOneAnalysis`.

### ResultAuth (checked, proved)

One browser, several reports and links, a secret that may change or be switched off.
A signature is the term of what it is computed over. The clock counts parts of a
second: links expire at whole seconds, `Max-Age` is in whole seconds, the clock is
read in between; a `Max-Age` of zero is a session cookie in Go's `http.Cookie`.

| Code | Actions |
|---|---|
| `SignResult` (and `ResultLinkExpiry`) | `Sign` |
| `ResultAuthMiddleware`, `setResultAuthCookie`, `resultAuthCookieTTL` | `Request` with `OpenLink`, `SetCookie`, `CookieGrants` |
| `encode`, `parseResultGrant`, `valid` | `Encoded`, `Parsed`, `Valid` |
| clock, environment, browser | `Tick`, `Rotate`, `CloseBrowser` |

`grantFromQuery` and `parseResultGrant` take what comes. So a `Request` has in its
address, or in its cookie, either what was signed, or any combination of a signature
(of any link there is, or one that no secret makes) with any expiry (`Presented`,
`MadeUp`): one that is negative, absent, past or later than the signed one. What is
assumed of HMAC is that a signature is good for nothing but what it was computed over,
and that there are no others than those of the links.

- `ServedByGrant`: without the API token a report is sent only if a link to *this*
  report was signed, with the secret of now, that has not run out: whatever signature and
  expiry the address and the cookie put together.
- `AssetsLoad`: the report opened last can be read by the cookie for the whole
  seconds of the least of the configured lifetime and what the link has left.
  (Of reports opened before it nothing is promised: there is one cookie.)
- `CookieNeverOutlasts`: no cookie with a `Max-Age` outlasts either of the two.
- Refuted: `LinksLiveAtMostTTL`.

### Middleware (checked, proved)

One response through `compressResponseWriter`, `statusRecorder` and net/http, with any
handler that writes its header at most once, then its body, and may panic anywhere.
The content of the body is what each piece of it is encoded as. `/healthz`, which goes
past the recorder and is not logged (`main.go:126`), is left out.

| Code | Actions |
|---|---|
| `WriteHeader`, `Write`, `Close` of `compressResponseWriter` | `WriteHeader`, `Write`, `Close` |
| a handler returning or panicking | `Return`, `Panic` |
| `recoverMiddleware`, `loggingMiddleware` | `Recover`, `Log` |

- `Decodes`: unless the panic comes after the header, the client gets one whole
  stream of the `Content-Encoding` it was told, or nothing.
- `LoggedAsSent`: in these cases the logged status is the one sent, and a panic is
  answered by a plain 500.

## Runs

| Run | Instance (distinct states) | Shows |
|---|---|---|
| `result_cache` | 3 requests, an earlier result or none, all failures (120 839) | types and handles, coherence, torn reads |
| `result_store` | 3 requests, an earlier result or none, all failures (241 919) | current answers, refinement of ResultStore |
| `result_cache_deleted` | 3 requests, no failures | refutes `DeletedMeansGone` |
| `docker` | 2 analyses, 1 or 2 ids, 1 slot, Timeout 2, StartLimit and CopyLimit 1, 2 failures, fairness (147 804) | types, slots, sweep, liveness, refinement of Runner |
| `kubernetes` | 3 analyses, 2 slots, 2 attempts, 2 failures of any kind (2 452 044) | types, readiness, own results, no pod left, refinement of Runner |
| `kubernetes_live` | 2 analyses, 2 slots, 2 attempts, 2 failures, fairness (104 652) | liveness |
| `workspace` | 2 analyses, each with or without web vitals, 1 failure of any kind (1 802 436) | types, own report, temporary archive |
| `workspace_live` | 3 analyses, 2 failures that leave the directory, fairness (23 481) | the directory is reclaimed |
| `workspace_overlap` | 2 analyses, no failures | refutes `ReportOfOneAnalysis` |
| `result_auth` | 2 reports, 2 secrets or none, 2 links, 5 expiries, 3 seconds in halves (158 433, up to symmetry) | types, grants, cookie lifetimes |
| `auth_ttl` | the same | refutes `LinksLiveAtMostTTL` |
| `middleware` | 3 encodings, statuses with and without a body, 3 writes (503) | types, decodable answers, log |

Bounds. In ResultCache three requests are enough for every pair of handlers with a
third that observes, and for a chain writer, reader, writer. The shortest way to a
stale answer is a download that fills the cache, an analysis and another download, as a
result may be stored before: three again, also for `ServedCurrent` and `ImplementsStore`.
Failures are not limited in number. Each request is used once, so behaviours end: `CHECK_DEADLOCK FALSE` (in
the runners, Workspace and Middleware too; in ResultAuth a request is always
possible, and deadlock is checked).
In DockerRunner two analyses on one slot give queueing, and a second container if
a failed start forgot the first; each may have either of two ids, so name conflicts
and independent work both occur. More slots and requests are the business of the
theorems: `WithinSlots` and `NeverSweepsActive` are proved for every number. In
KubernetesRunner three requests of one id give two that delete each other's pods and
a third that waits for a slot or comes after them; `Attempts = 2` stands for the five
of the code and lets a create be retried and be given up. With `MaxFaults = 2` a
failure can meet a failing error path (for instance a wait and then the removal, or
a crash and a failing sweep). Failures are finite because, with endless ones, no
promise of progress can hold; `MaxFaults` is the only bound on them. The liveness run
of KubernetesRunner leaves out the failures that only repeat what `WatchBreaks`, a
lost race for the name or `Progress` to "failed" do already. `age` in DockerRunner is
counted up to the threshold plus one tick; beyond it nothing distinguishes ages.
In Workspace two analyses overlap at every pair of steps, or follow one another with
something left behind; one failure is enough to leave it, as the later analysis has to
be right whatever it finds. `DirReclaimed` takes two failures (one that leaves the directory
and one of the sweep) and analyses whose reports `Check` refuses, which is the
shortest life; three of them compete with the sweep. In ResultAuth half seconds show
every rounding (`PerSecond = 2`), `TTL = 3` is not a whole number of seconds, the clock
runs past every expiry, a second link is what it takes to replace a cookie and to combine
one link's signature with another's expiry, and the expiries a request may name are none,
a negative one, and those before, in and at the end of the run.
Requests are interchangeable, so symmetry is used in runs that check safety only (the
refinements there are of safety), never in liveness runs; so are the reports, and the
secrets, of `result_auth`.

Fairness. `WF(Tick)`: time passes. `WF(Sweep)`: the ticker goroutine keeps running
and its calls return. `WF(Call(r))`: a call returns, with success or error. The wait
returns by its timeout because `Tick` is fair. `SF(Acquire(r))`: Go serves blocked
senders of a channel in order, so a queued request gets a slot that is freed again
and again. No fairness is assumed of `Exit` (an analysis may hang), of arrivals or
of clients leaving. In KubernetesRunner, in addition, `WF(Expire(r))`: the deadline
of the wait passes; `WF(Gone)`: a deleted pod terminates (its grace period is
finite); `WF(GrowOld)`: time passes for pods too. `Progress` is not fair: an
analysis may hang in its pod. That the exec stream of the copy ends, with or
without an error, is an assumption about the cluster: `copyFromPod` has no timeout
of its own. In Workspace: `WF(GrowOld)`, `WF(Sweep)` and `WF(Step(r))`, that is, time
passes, the ticker sweeps, and the calls of a request return.

## Findings

1. `result_cache_deleted`: a report that is being downloaded while it is deleted
   comes back into the cache and is served afterwards.
2. `workspace_overlap`: without any failure, an analysis whose directory a second
   analysis of the same id clears stores a part of its report and answers 200.
3. `auth_ttl`: `RESULT_AUTH_TTL` bounds the cookie, not the signed links.

Limits of what the code guarantees, met while modelling. No run is spent on them;
they are the provisos of the passing properties, which would fail without them.

- A download that breaks off leaves its partial file in the cache
  (`storage.go:111`), which hides the intact object until the next analysis or
  deletion: the history `partial`.
- Failed deletions are logged and answered 200 (`handler.go:332`).
- A failed unlink of a cached copy is dropped and answered 200 (`handler.go:437`): the old
  report, or a deleted one, is served until a later unlink succeeds. So it is after a
  failed upload (`handler.go:183`), which returns before the cache is cleaned, and a crash
  before the cleaning: the history `stale`.
- A directory that cannot be cleared is filled all the same (`docker/runner.go:220`,
  `kubernetes/runner.go` alike), and what was left in it is stored with the new report:
  the history `marred` of `StoresOwnReport`.
- After a restart the old containers and as many new ones as there are slots run
  side by side (`docker/runner.go:116`): the condition `leaks = {}` of `WithinSlots`.
- If `ANALYSIS_TIMEOUT` is shorter than the start plus the copy of an analysis, the
  sweep takes the container of an active one: the assumption of `SweepIsSafe`.
- The Kubernetes sweep deletes by name what it has listed before
  (`kubernetes/runner.go:610`); a new pod of the id, created in between, goes
  in its stead. Its analysis notices: `ReadinessNeverMissed`, `disturbed` in `OwnResults`.
- The error of closing the archive is dropped (`zip.go:19`): the history `marred`, too.
- A failed `ZipDirectory` leaves the temporary archive (`handler.go:178`), and so does an
  `os.Remove` that fails at the end (line 181): the history `stray` of `TempZipRemoved`. The next analysis of the id removes it.
- The sweep of directories looks at the top directory's modification time, and may
  take one whose upload is slow (`docker/runner.go:379`): part of `disturbed`.
- A link opened in its last second gives a session cookie (`result_auth.go:178`): the
  condition `~session` of `CookieNeverOutlasts`. The server still checks the expiry
  inside it, as `ServedByGrant` shows.
- There is one cookie for all reports (`result_auth.go:173`): `AssetsLoad` speaks of
  the report opened last.
- A panic after the header appends plain text to a compressed stream, and is logged
  as 500 although 200 was sent (`compress.go:31`, `main.go:160`): the condition
  `panicked # "late"` of Middleware's properties.

## Proofs

There is a module of theorems for each component (for KubernetesRunner two: the slots
are in `KubernetesSlotsProofs`; ResultCacheStore builds on the proofs of ResultCache).
They hold for every set of requests, ids, files, secrets and statuses, every number of
slots and attempts, every timeout and every set of failures, and assume what the
modules' `ASSUME`s say:

| Modules | Assumed |
|---|---|
| ResultCache, ResultCacheStore, Workspace | `Nil`, and `Old` in the first two, are no requests; the failures that may happen are among those modelled; in Workspace, the web vitals are among the files |
| DockerRunner, KubernetesRunner | finite sets of requests, positive limits; for `SweepIsSafe` also what is said there |
| ResultAuth | `Nil` and "no secret" are no values, and the forged signature is of no secret; requests have no other signatures than these and those of links; the default lifetime is positive; a link is signed without expiry or for a second at least |
| Middleware | 200 and 500 may have a body; "not sent" is no header |

### ResultCache

- `TypeCorrect` and `CacheIsCoherent` rest on `IInv`, proved inductive in `Inductive`.
  Coherence is not inductive: between two steps of a download the file is empty. `IInv`
  adds what holds in the middle: a reader of a kind and a writer are in flight together
  only if the kind is stale (`Classes`, `Exclusion`); a cached inode belongs to a
  request that has created it, and to one path only (`Inodes`); a download in flight
  carries the current object, and what is open is what the cache names (`Downloads`); and
  each part of a cached file that no writer is about to unlink is the current version or
  is still to be written by a download that holds that very inode (`Contents`). All of
  this is about the kinds that are not stale or not partial. A kind leaves the histories
  only together with its cached copy and with no reader there (`Heals`), so there is
  nothing to show of it at that moment. When all is quiet nobody is left to write, and
  coherence follows.
- `TornOnlyDuringDownload` rests on `TornInv`, which adds `Filled`: what any inode in use
  lacks, be it cached or only held open, is still to be written by a download that has
  it open, unless the kind is partial. It speaks neither of versions nor of `stale`.

### ResultCacheStore

- `ServesCurrent` rests on `ServedInv`. A broken download must not make the next answer
  stale, and of that `Contents` says nothing: the part that nobody writes any more stays
  missing. `Fresh` says what is left of it for the kinds that are not stale: a cached
  copy no writer is about to unlink holds, where it holds anything, the current version;
  `Sent` the same of what a reader has taken. A writer may start unlinking or uploading
  only when no reader of the kind is there, or the kind becomes stale; hence a reader
  always finds a copy no writer is about to unlink.
- `CacheImplementsStore` rests on `StoreInv`: `ServedInv` for the answers of kinds
  that are not at risk, `Remembered` for the others: all data in the cache, in flight
  and in answers has once been stored, under the same kind. Every step changes the
  bucket as the store may, or completes an answer, or is invisible.

### DockerRunner and KubernetesRunner

- `NeverMoreThanSlots` rests on `SlotInv`: the number of taken slots is the number
  of requests between acquiring and returning, and as long as no removal, create or
  process has failed each container belongs to one of these. The counting is done
  with the cardinality theorems of the library.
- `SweepIsSafe` assumes `StartLimit + CopyLimit <= Timeout` and rests on `AgeInv`:
  the age of a container is at most the sum of the time limits of the steps before
  and the timer of the present one.

- `NothingMissed`, `ResultsAreOwn`, `PodsAreDeleted` (KubernetesRunner) rest on one
  `IInv`, proved inductive in `Inductive`. `ReadinessNeverMissed` speaks of empty
  queues only; `Fresh` extends it to full ones: the last event in a queue says how
  the pod is now. For own results, `Overlaps` (two requests under way know of each
  other) and `Owns` (the pod of an undisturbed request has the name and is not
  being deleted until its last step) lead to `Results`. `Reclaims` says that
  without leaks no Create is open and a pod is terminating or still has its request.

- `DockerIsARunner`, `KubernetesIsARunner`: every step of a backend is one of Runner or
  invisible in it. The counting invariant `SlotInv` is what `Admit` needs: the code
  compares a counter with the limit, Runner the number of analyses under way. The
  steps inside `RunAnalysis` stutter, its returns are `Finish`, a sweep is `Listen` or
  nothing, and a crash is `Restart`.
- `TypeCorrect` (of both runners) adds to `SlotInv` what the types say that is not
  about slots: no sweep removes what it has not listed (`Data`); an analysis that is
  about to create its pod has attempts left (`Counts`).

### Workspace

- `OwnReport` rests on `Alone` (who has met nobody has no other request of the id and
  no sweep beside it) and `Owns`: at each step of such a request that is not marred, what of its report is
  in the directory or the archive, that there is nothing else in them, and whose web
  vitals it has taken. The property speaks of the moment of the answer only; the
  invariant has to say how far extracting and archiving have got, file by file, and
  that the archive written is the one the path names.
- `NoTempLeft` rests on `Held`: as long as there is no stray, an archive
  that is there has a request that will still remove it. Overlapping requests truncate
  and remove each other's, but the last of them finds the path and removes it.
- `TypeCorrect` includes that an archive is open exactly while its request writes or
  uploads it.

### ResultAuth

- `LinksAuthorise` rests on `ValidIsGrant`: whatever grant a request presents, if it is
  valid its signature is that of a link (`ParsedPresentable`, `SignaturesType`), and as a
  signature is the term of what it is computed over (`Links`), that link is for the same
  report, secret and expiry. The cookie needs no argument of its own: it keeps such a
  grant, or the request has made it up.
- `FilesLoad` and `CookieLifetime` rest on `CookieOfOpened`: the cookie is, in all its
  fields, the one that the last opening has set, or it is gone and was a session cookie;
  and `OpenedInTime`: the link opened had not expired.
- The lifetimes are arithmetic, proved once for every grain of the clock in `DivMod`,
  `MaxAgeIsWhole` and `OpeningEffect`: cutting to whole seconds never lengthens a
  lifetime, and a `Max-Age` of zero comes only from less than a second.

### Middleware

- `ResponsesDecode` and `LogIsTrue` rest on `Writing` (while the handler runs, either
  nothing is written, or the header is out with the encoding of the compressor there is
  and the body is of that encoding throughout), `Panicking` (a panic before the header
  finds nothing written) and `Complete` (what closing and recovering leave). The bodies
  are of any length: that all their pieces are of one encoding is kept by lemmas about
  sequences.

### Not proved

Every invariant and action property that a passing run checks is proved, and so are
the refinements. The liveness properties (`EveryAnalysisReturns`, `LeaksReclaimed`,
`DirReclaimed`) are model-checked only: liveness under fairness, and `ENABLED`, are out
of the prover's reach.

## Not modelled

- Observability: exporters and loggers are set up once; no handler reads their state.
- Start-up: clients of Docker, Kubernetes and S3 are built from the environment once.
  What matters of it are constants and guards: limits, timeouts, the sweep before
  listening. No signal is handled, so a stop of the process is a `Crash`.
- The API bearer check is one comparison without state; ResultAuth takes its outcome
  as an input. Request validation and the JSON of web vitals are stateless, too:
  Workspace has whose vitals are read and that there may be none.
- Paths inside an archive (every entry has the same fate), headers and content types
  other than the encoding, the syntax of the query, the logs fetched for an error
  message, and the pull of the image at start-up.
- `internal/testhelper/s3mock.go` is test support.

## Plan

1. ResultCache, DockerRunner, KubernetesRunner with proofs (done).
2. Workspace, ResultStore and ResultCacheStore, Runner, ResultAuth, Middleware (done).
3. The refinements of Runner and the type invariants of the runners, proved (done).
4. Proofs of ResultCacheStore, Workspace, ResultAuth and Middleware (done).
5. Proofs: the safety part of the liveness properties, that is, what a request that has
   not returned still has ahead, so that a measure of it decreases with every step.
