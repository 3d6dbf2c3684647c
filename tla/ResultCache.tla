------------------------------ MODULE ResultCache ------------------------------
(***************************************************************************)
(* The stored results of one analysis id: the two objects of the bucket    *)
(* (results/<id>/result.zip and results/<id>/screenshot.png), the copies   *)
(* of them in <tmp>/sitespeed-cache, and the four HTTP handlers that work  *)
(* on them.  Nothing in the code locks them: a handler interleaves with    *)
(* the others at every call to S3 or to the file system.                   *)
(*                                                                         *)
(* Every path and key is built from the id, so ids do not interact here    *)
(* and one id is enough.  A version of a result is the request that        *)
(* produced it, or Old for what was stored before; an inode is the request *)
(* that created it.  A file is written and read in two parts: for the zip  *)
(* the "tail" is the central directory, without which the archive does not *)
(* open.                                                                   *)
(***************************************************************************)
CONSTANTS
    Requests,   \* the HTTP requests of a behaviour, each sent at most once
    Old,        \* the version that is stored before the first request, if any
    Nil,        \* no object, no file, no data
    Faults      \* the external calls that may fail: the bound of a run

Fault == {"GetObject", "Create", "Copy", "PutObject", "DeleteObject", "Unlink", "Crash"}

ASSUME NilAssumption == Nil \notin Requests \cup {Old} /\ Old \notin Requests
ASSUME FaultsAssumption == Faults \subseteq Fault

Kinds   == {"zip", "png"}
Parts   == {"body", "tail"}
Readers == {"HandleGetResult", "HandleGetScreenshot"}
Writers == {"HandleAnalyze", "HandleDeleteResult"}

VARIABLES
    bucket,     \* bucket[k]: the version of the S3 object of kind k
    cache,      \* cache[k]: the inode the cache path of kind k names
    file,       \* file[i][p]: the version whose data fills part p of inode i
    op,         \* op[r]: the handler that serves request r
    pc,         \* pc[r]: the next step of r; "ok" and "failed" are final
    obj,        \* obj[r]: the version of the object body r is downloading
    fd,         \* fd[r]: the inode r holds open
    got,        \* got[r][p]: what r read of part p and sent to its client
    stale,      \* history: the kinds whose cached copy may be of an old version
    partial     \* history: the kinds whose cached copy may lack a part

history == <<stale, partial>>
vars == <<bucket, cache, file, op, pc, obj, fd, got, history>>

Inode   == Requests \cup {Nil}
Version == Inode \cup {Old}
Copying == {"copyBody", "copyTail"}
Final   == {"ok", "failed"}
Labels  == {"idle", "getObject", "create", "open", "readBody", "readTail",
            "putZip", "delPng", "rmZip", "rmPng"} \cup Copying \cup Final
Empty   == [p \in Parts |-> Nil]

InFlight(r) == pc[r] \notin {"idle"} \cup Final
KindOf(h) == IF h = "HandleGetResult" THEN "zip" ELSE "png"
Kind(r) == KindOf(op[r])

\* The temporary directory of a new container is empty, the bucket need not be.
Init ==
    /\ bucket \in [Kinds -> {Old, Nil}]
    /\ cache = [k \in Kinds |-> Nil]
    /\ file = [i \in Requests |-> Empty]
    /\ op = [r \in Requests |-> Nil]
    /\ pc = [r \in Requests |-> "idle"]
    /\ obj = [r \in Requests |-> Nil]
    /\ fd = [r \in Requests |-> Nil]
    /\ got = [r \in Requests |-> Empty]
    /\ stale = {} /\ partial = {}

Goto(r, l) == pc' = [pc EXCEPT ![r] = l]

\* A request for h meets a request in flight of the other class: both may work on
\* the cached copies of these kinds at once.
Meets(h) ==
    {k \in Kinds : \E q \in Requests :
        /\ InFlight(q)
        /\ \/ h \in Writers /\ op[q] \in Readers /\ k = Kind(q)
           \/ h \in Readers /\ op[q] \in Writers /\ k = KindOf(h)}

\* Request r arrives and its handler h takes its first step.
Begin(r, h) ==
    /\ pc[r] = "idle"
    /\ op' = [op EXCEPT ![r] = h]
    /\ stale' = stale \cup Meets(h)
    /\ UNCHANGED partial

At(r, l) == pc[r] = l /\ UNCHANGED op

\* An external call f fails.
Fails(f) == f \in Faults

\* A call f that is to store v under kind k: it succeeds, or it fails, with
\* or without the store having carried it out.
Stored(k, v) == bucket' = [bucket EXCEPT ![k] = v]
StoreFails(f, k, v) == Fails(f) /\ (UNCHANGED bucket \/ Stored(k, v))

\* The cached copies of these kinds are left although their objects have changed.
Left(kinds) == stale' = stale \cup {k \in kinds : cache[k] # Nil}

--------------------------------------------------------------------------------
(* HandleGetResult and HandleGetScreenshot. *)

\* The handler looks for the cached copy and decides whether to download.
Stat(r, h) ==
    /\ Begin(r, h)
    /\ Goto(r, IF cache[KindOf(h)] = Nil THEN "getObject" ELSE "open")
    /\ UNCHANGED <<bucket, cache, file, obj, fd, got>>

\* DownloadFile asks S3 for the object.  The body is a snapshot of the version
\* that is current now.  Every error is answered with 404; a cache directory
\* that cannot be made counts as a failed GetObject.
GetObject(r) ==
    /\ At(r, "getObject")
    /\ \/ /\ bucket[Kind(r)] # Nil
          /\ obj' = [obj EXCEPT ![r] = bucket[Kind(r)]]
          /\ Goto(r, "create")
       \/ /\ bucket[Kind(r)] = Nil \/ Fails("GetObject")
          /\ Goto(r, "failed")
          /\ UNCHANGED obj
    /\ UNCHANGED <<bucket, cache, file, fd, got, history>>

\* DownloadFile creates the cache file in place.  os.Create truncates the file
\* that has appeared there since Stat, whoever is writing or reading it.
Created(r) == IF cache[Kind(r)] = Nil THEN r ELSE cache[Kind(r)]
Truncated(i) == [file EXCEPT ![i] = Empty]
Create(r) ==
    /\ At(r, "create")
    /\ \/ /\ cache' = [cache EXCEPT ![Kind(r)] = Created(r)]
          /\ file' = Truncated(Created(r))
          /\ fd' = [fd EXCEPT ![r] = Created(r)]
          /\ Goto(r, "copyBody")
          /\ UNCHANGED obj
       \/ /\ Fails("Create")
          /\ Goto(r, "failed")
          /\ obj' = [obj EXCEPT ![r] = Nil]
          /\ UNCHANGED <<cache, file, fd>>
    /\ UNCHANGED <<bucket, got, history>>

\* Mutant: only the first part of the body is copied.
CopyStopsShort(r) ==
    /\ At(r, "copyBody")
    /\ file' = [file EXCEPT ![fd[r]]["body"] = obj[r]]
    /\ Goto(r, "open")
    /\ fd' = [fd EXCEPT ![r] = Nil]
    /\ obj' = [obj EXCEPT ![r] = Nil]
    /\ UNCHANGED <<bucket, cache, got, history>>

\* io.Copy writes the next part of the object at this download's own offset.
Copy(r) ==
    \/ /\ At(r, "copyBody")
       /\ file' = [file EXCEPT ![fd[r]]["body"] = obj[r]]
       /\ Goto(r, "copyTail")
       /\ UNCHANGED <<bucket, cache, obj, fd, got, history>>
    \/ /\ At(r, "copyTail")
       /\ file' = [file EXCEPT ![fd[r]]["tail"] = obj[r]]
       /\ Goto(r, "open")
       /\ fd' = [fd EXCEPT ![r] = Nil]
       /\ obj' = [obj EXCEPT ![r] = Nil]
       /\ UNCHANGED <<bucket, cache, got, history>>

\* Mutant: the file stays open when the body breaks off.
CopyFailsLeaksFile(r) ==
    /\ \E l \in Copying : At(r, l)
    /\ Fails("Copy")
    /\ Goto(r, "failed")
    /\ obj' = [obj EXCEPT ![r] = Nil]
    /\ partial' = partial \cup {Kind(r)}
    /\ UNCHANGED <<bucket, cache, file, fd, got, stale>>

\* The body breaks off: the error goes to the client as 404 and what has been
\* written stays in the cache.
CopyFails(r) ==
    /\ \E l \in Copying : At(r, l)
    /\ Fails("Copy")
    /\ Goto(r, "failed")
    /\ fd' = [fd EXCEPT ![r] = Nil]
    /\ obj' = [obj EXCEPT ![r] = Nil]
    /\ partial' = partial \cup {Kind(r)}
    /\ UNCHANGED <<bucket, cache, file, got, stale>>

\* The handler opens the cache path anew.  zip.OpenReader needs the central
\* directory; os.Open takes any file.  Opening may fail, and the requested entry be
\* missing from the archive.
Open(r) ==
    LET i == cache[Kind(r)] IN
    /\ At(r, "open")
    /\ \/ /\ i # Nil
          /\ op[r] = "HandleGetResult" => file[i]["tail"] # Nil
          /\ got' = IF op[r] = "HandleGetResult"
                    THEN [got EXCEPT ![r]["tail"] = file[i]["tail"]]
                    ELSE got
          /\ fd' = [fd EXCEPT ![r] = i]
          /\ Goto(r, "readBody")
       \/ Goto(r, "failed") /\ UNCHANGED <<fd, got>>
    /\ UNCHANGED <<bucket, cache, file, obj, history>>

\* io.Copy sends the data with status 200; a part that is missing is missing
\* from the response, the status is already sent.  An archive entry whose own
\* header is missing is the exception, it is answered with 500.
Read(r) ==
    \/ /\ At(r, "readBody")
       /\ got' = [got EXCEPT ![r]["body"] = file[fd[r]]["body"]]
       /\ IF op[r] = "HandleGetResult"
          THEN Goto(r, "ok") /\ fd' = [fd EXCEPT ![r] = Nil]
          ELSE Goto(r, "readTail") /\ UNCHANGED fd
       /\ UNCHANGED <<bucket, cache, file, obj, history>>
    \/ /\ At(r, "readBody")
       /\ op[r] = "HandleGetResult" /\ file[fd[r]]["body"] = Nil
       /\ Goto(r, "failed")
       /\ fd' = [fd EXCEPT ![r] = Nil]
       /\ UNCHANGED <<bucket, cache, file, obj, got, history>>
    \/ /\ At(r, "readTail")
       /\ got' = [got EXCEPT ![r]["tail"] = file[fd[r]]["tail"]]
       /\ Goto(r, "ok")
       /\ fd' = [fd EXCEPT ![r] = Nil]
       /\ UNCHANGED <<bucket, cache, file, obj, history>>

--------------------------------------------------------------------------------
(* HandleAnalyze from the finished analysis on, and HandleDeleteResult. *)

\* The screenshot is uploaded first, if the analysis left one; a failure is
\* only logged.  An analysis without usable data has returned before that.
PutScreenshot(r) ==
    /\ Begin(r, "HandleAnalyze")
    /\ UNCHANGED bucket \/ Stored("png", r) \/ StoreFails("PutObject", "png", r)
    /\ Goto(r, "putZip")
    /\ UNCHANGED <<cache, file, obj, fd, got>>

\* Mutant: the analysis does not clean the cache after the upload.
PutZipKeepsCache(r) ==
    /\ At(r, "putZip")
    /\ \/ Stored("zip", r) /\ Goto(r, "ok") /\ UNCHANGED stale
       \/ /\ Fails("PutObject") /\ Goto(r, "failed")
          /\ \/ UNCHANGED bucket /\ Left({"png"})
             \/ Stored("zip", r) /\ Left(Kinds)
    /\ UNCHANGED <<cache, file, obj, fd, got, partial>>

\* A failed upload of the report ends the handler at once, before the cache is
\* cleaned, also of the copy of the screenshot; so does a zip that cannot be made.
PutZip(r) ==
    /\ At(r, "putZip")
    /\ \/ Stored("zip", r) /\ Goto(r, "rmZip") /\ UNCHANGED stale
       \/ /\ Fails("PutObject") /\ Goto(r, "failed")
          /\ \/ UNCHANGED bucket /\ Left({"png"})
             \/ Stored("zip", r) /\ Left(Kinds)
    /\ UNCHANGED <<cache, file, obj, fd, got, partial>>

\* Both deletions are attempted, a failure of either is only logged.
DeleteZip(r) ==
    /\ Begin(r, "HandleDeleteResult")
    /\ Stored("zip", Nil) \/ StoreFails("DeleteObject", "zip", Nil)
    /\ Goto(r, "delPng")
    /\ UNCHANGED <<cache, file, obj, fd, got>>

DeletePng(r) ==
    /\ At(r, "delPng")
    /\ Stored("png", Nil) \/ StoreFails("DeleteObject", "png", Nil)
    /\ Goto(r, "rmZip")
    /\ UNCHANGED <<cache, file, obj, fd, got, history>>

Reads(q, k) == InFlight(q) /\ op[q] \in Readers /\ Kind(q) = k

\* removeQuietly drops the error of os.Remove.  A copy that is gone, when nobody is
\* at work on it, is neither old nor incomplete any more.
Unlink(k) ==
    \/ /\ cache' = [cache EXCEPT ![k] = Nil]
       /\ IF \E q \in Requests : Reads(q, k)
          THEN UNCHANGED history
          ELSE stale' = stale \ {k} /\ partial' = partial \ {k}
    \/ Fails("Unlink") /\ UNCHANGED <<cache, partial>> /\ Left({k})

\* Mutant: the cached screenshot is forgotten.
CleanCacheZipOnly(r) ==
    /\ At(r, "rmZip") /\ Unlink("zip") /\ Goto(r, "ok")
    /\ UNCHANGED <<bucket, file, obj, fd, got>>

\* Both writers end by unlinking the two cached copies and answer 200.
CleanCache(r) ==
    /\ \/ At(r, "rmZip") /\ Unlink("zip") /\ Goto(r, "rmPng")
       \/ At(r, "rmPng") /\ Unlink("png") /\ Goto(r, "ok")
    /\ UNCHANGED <<bucket, file, obj, fd, got>>

--------------------------------------------------------------------------------

\* The steps at which a writer has changed the object of a kind, and has still to
\* unlink its cached copy.
Owing == [zip |-> {"delPng", "rmZip"}, png |-> {"putZip", "rmZip", "rmPng"}]
Unclean(k) == \E w \in Requests : pc[w] \in Owing[k]

\* The process dies with requests in flight and is started again: on the same
\* file system, or in a fresh container whose temporary directory is empty.
Crash ==
    /\ \E r \in Requests : InFlight(r)
    /\ Fails("Crash")
    /\ pc' = [r \in Requests |-> IF InFlight(r) THEN "failed" ELSE pc[r]]
    /\ fd' = [r \in Requests |-> Nil]
    /\ obj' = [r \in Requests |-> Nil]
    /\ \/ /\ Left({k \in Kinds : Unclean(k)})
          /\ partial' = partial \cup {Kind(r) : r \in {q \in Requests : pc[q] \in Copying}}
          /\ UNCHANGED cache
       \/ cache' = [k \in Kinds |-> Nil] /\ stale' = {} /\ partial' = {}
    /\ UNCHANGED <<bucket, file, op, got>>

Step(r) ==
    \/ \E h \in Readers : Stat(r, h)
    \/ GetObject(r) \/ Create(r) \/ Copy(r) \/ CopyFails(r) \/ Open(r) \/ Read(r)
    \/ PutScreenshot(r) \/ PutZip(r) \/ DeleteZip(r) \/ DeletePng(r)
    \/ CleanCache(r)

Next == Crash \/ \E r \in Requests : Step(r)

Spec == Init /\ [][Next]_vars

--------------------------------------------------------------------------------
(* Properties. *)

\* A file is held open, and a body is being downloaded, exactly as long as the
\* handler is in the steps that use it: no path out of DownloadFile and of the
\* two handlers leaks them.
HandleDiscipline ==
    \A r \in Requests :
        /\ fd[r] # Nil <=> pc[r] \in Copying \cup {"readBody", "readTail"}
        /\ obj[r] # Nil <=> pc[r] \in Copying \cup {"create"}

\* The types of the variables, and no leaked handle.
TypeOK ==
    /\ bucket \in [Kinds -> Version]
    /\ cache \in [Kinds -> Inode]
    /\ file \in [Requests -> [Parts -> Version]]
    /\ op \in [Requests -> Readers \cup Writers \cup {Nil}]
    /\ pc \in [Requests -> Labels]
    /\ obj \in [Requests -> Version]
    /\ fd \in [Requests -> Inode]
    /\ got \in [Requests -> [Parts -> Version]]
    /\ stale \subseteq Kinds /\ partial \subseteq Kinds
    /\ HandleDiscipline

Idle == \A r \in Requests : ~InFlight(r)

\* The cached copy of kind k is the whole object of the bucket.
Coherent(k) ==
    \/ cache[k] = Nil
    \/ /\ bucket[k] # Nil
       /\ \A p \in Parts : file[cache[k]][p] = bucket[k]

\* What the cache holds between the requests is the bucket's current object, whole,
\* of every kind that nothing has put at risk since its copy was last unlinked: no
\* download overlapped an analysis or deletion or broke off, and no writer that has
\* changed the object failed to upload the report or to unlink the copy, or died.
\* This holds however the downloads overlap, truncate and rewrite each other's file,
\* however the analyses and deletions overlap each other, and whichever other call
\* fails; and the next analysis or deletion that meets no download restores it.
CacheCoherent ==
    Idle => \A k \in Kinds \ (stale \cup partial) : Coherent(k)

Answers(r) == pc[r] # "ok" /\ pc'[r] = "ok"

\* What a download sends with status 200 is never taken from a version that the
\* bucket does not hold any more, unless the cached copy of that kind may be old;
\* after a broken download a part of it may at worst be missing.
ServedCurrent ==
    [][\A r \in Requests :
        Answers(r) /\ op[r] \in Readers /\ Kind(r) \notin stale
        => \A p \in Parts : got'[r][p] \in {Nil, bucket[Kind(r)]}]_vars

\* Request q still has to write part p of inode i.
StillWrites(q, i, p) ==
    fd[q] = i /\ pc[q] \in (IF p = "body" THEN {"copyBody"} ELSE Copying)

\* A client is sent an incomplete file with status 200 only while another request
\* that found no cached copy is downloading into the very same file, unless a download
\* of that kind has broken off since its copy was last unlinked: even when the file
\* is of an old version, or has lost its path to an analysis or deletion.
TornReadMeansConcurrentDownload ==
    [][\A r \in Requests, p \in Parts :
        /\ pc[r] \in {"readBody", "readTail"} /\ pc'[r] # pc[r]
        /\ p = (IF pc[r] = "readBody" THEN "body" ELSE "tail")
        /\ file[fd[r]][p] = Nil
        /\ Kind(r) \notin partial
        => \E q \in Requests \ {r} : StillWrites(q, fd[r], p)]_vars

--------------------------------------------------------------------------------
(* What a test says of deletions; refuted. *)

\* "Deleting the analysis invalidates access to the report it produced": when
\* all is quiet and the bucket holds no result, nothing is left to serve.
DeletedMeansGone ==
    Idle => \A k \in Kinds : bucket[k] = Nil => cache[k] = Nil

================================================================================
