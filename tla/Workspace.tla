-------------------------------- MODULE Workspace -------------------------------
(***************************************************************************)
(* The files an analysis leaves on its way to the bucket: the directory    *)
(* <base>/<id> that RunAnalysis fills from the container and HandleAnalyze *)
(* reads and removes, the archive <tmp>/<id>.zip that ZipDirectory makes   *)
(* of it, and the periodic CleanupStaleResultDirs.                         *)
(*                                                                         *)
(* Both paths are built from the analysis id, and the slot of an analysis  *)
(* is free again before its handler has read the directory: the requests   *)
(* here are the analyses of one id, from the end of their container on.    *)
(* The data of an analysis is the request that ran it; a file is copied in *)
(* one step, as only whose data it holds matters.  An inode of the archive *)
(* is the request that created it.                                         *)
(***************************************************************************)
EXTENDS Naturals

CONSTANTS
    Requests,   \* the analyses of a behaviour, all of one id
    Nil,        \* no file, no data
    Files,      \* the files of reports
    Vitals,     \* data/browsertime.summary-total.json; the others are pages
    Outputs,    \* the sets of files an analysis may produce
    Faults,     \* the calls that may fail
    MaxFaults   \* how many failures a behaviour has: the bound of a run

Fault == {"RemoveAll", "Extract", "PutObject", "Unlink", "Zip", "Close", "Crash"}

ASSUME RequestsAssumption == Nil \notin Requests
ASSUME FilesAssumption == Vitals \in Files /\ Outputs \subseteq SUBSET Files
ASSUME FaultsAssumption == Faults \subseteq Fault /\ MaxFaults \in Nat

VARIABLES
    pc,         \* pc[r]: the next step of r; "ok" and "failed" are final
    output,     \* output[r]: the files the analysis of r has produced
    left,       \* left[r]: the files r has still to extract, or to archive
    used,       \* used[r]: whose web vitals and screenshot r has taken
    fd,         \* fd[r]: the inode of the archive r writes or uploads
    answered,   \* answered[r]: the handler has got as far as answering 200
    dir,        \* dir[f]: whose data the file f of the directory holds
    aged,       \* the directory has not changed for longer than ten minutes
    zip,        \* the inode the path of the archive names
    archive,    \* archive[i][f]: whose data the entry f of inode i holds
    seal,       \* seal[i]: it is "open", "sealed" by its central directory,
                \* or "garbled" by two writers
    sweeping,   \* the sweep is removing the directory
    disturbed,  \* history: another analysis or the sweep has met r
    marred,     \* history: marred[r]: r's own clearing of the directory, or the
                \* closing of its own archive, has failed
    stray,      \* history: the archive's path names one nobody will remove
    budget      \* how many more calls may fail

request   == <<pc, output, left, used, fd, answered, disturbed>>
directory == <<dir, aged>>
tempfile  == <<zip, archive, seal>>
failures  == <<marred, stray, budget>>
vars      == <<request, directory, tempfile, sweeping, failures>>

Version  == Requests \cup {Nil}
Pages    == Files \ {Vitals}
Blank    == [f \in Files |-> Nil]
Seals    == {"open", "sealed", "garbled"}
Removing == {"clear", "rmDir"}
Zipping  == {"list", "zip"}
Final    == {"ok", "failed"}
Labels   == {"idle", "extract", "check", "shot", "rmZip", "create", "open", "put", "rmTmp"}
              \cup Removing \cup Zipping \cup Final

InFlight(r) == pc[r] \notin {"idle"} \cup Final

Init ==
    /\ pc = [r \in Requests |-> "idle"]
    /\ output = [r \in Requests |-> {}]
    /\ left = [r \in Requests |-> {}]
    /\ used = [r \in Requests |-> {}]
    /\ fd = [r \in Requests |-> Nil]
    /\ answered = [r \in Requests |-> FALSE]
    /\ dir = Blank
    /\ aged = FALSE
    /\ zip = Nil
    /\ archive = [i \in Requests |-> Blank]
    /\ seal = [i \in Requests |-> "open"]
    /\ sweeping = FALSE
    /\ disturbed = [r \in Requests |-> FALSE]
    /\ marred = [r \in Requests |-> FALSE]
    /\ stray = FALSE
    /\ budget = MaxFaults

\* A call f fails; by its failure r's report may suffer, or the archive be left.
Fails(f) == f \in Faults /\ budget > 0 /\ budget' = budget - 1
Mars(r)  == marred' = [marred EXCEPT ![r] = TRUE] /\ UNCHANGED stray
Strays   == stray' = (zip # Nil)
Harmless == UNCHANGED <<marred, stray>>

Goto(r, l) == pc' = [pc EXCEPT ![r] = l]
Open(r, i) == fd' = [fd EXCEPT ![r] = i]

\* r returns: what it has in memory is gone.
Return(r, l) ==
    /\ Goto(r, l)
    /\ left' = [left EXCEPT ![r] = {}]
    /\ used' = [used EXCEPT ![r] = {}]
    /\ answered' = [answered EXCEPT ![r] = FALSE]
    /\ disturbed' = [disturbed EXCEPT ![r] = FALSE]
    /\ marred' = [marred EXCEPT ![r] = FALSE]
    /\ UNCHANGED <<fd, stray>>

--------------------------------------------------------------------------------
(* os.RemoveAll of the directory: the files go one by one, in any order.  It *)
(* ends with the directory gone, or leaves what is extracted meanwhile.      *)

Gone == dir = Blank

RemoveOne ==
    /\ \E f \in Files : dir[f] # Nil /\ dir' = [dir EXCEPT ![f] = Nil]
    /\ aged' = FALSE

RemoveEnds ==
    /\ Gone \/ \E q \in Requests : pc[q] = "extract"
    /\ UNCHANGED directory

RemovedBesides(r) == sweeping \/ \E q \in Requests \ {r} : pc[q] \in Removing

--------------------------------------------------------------------------------
(* RunAnalysis, from the end of the container on. *)

Begin(r, out) ==
    /\ pc[r] = "idle"
    /\ Goto(r, "clear")
    /\ output' = [output EXCEPT ![r] = out]
    /\ LET others == {q \in Requests : InFlight(q)} IN
       disturbed' = [q \in Requests |->
                       \/ disturbed[q]
                       \/ others # {} /\ q \in others \cup {r}
                       \/ sweeping /\ q = r]
    /\ UNCHANGED <<left, used, fd, answered, directory, tempfile, sweeping, failures>>

Extracting(r) == Goto(r, "extract") /\ left' = [left EXCEPT ![r] = output[r]]

\* Mutant: what the directory holds is kept.
ClearKeeps(r) ==
    /\ pc[r] = "clear"
    /\ Extracting(r)
    /\ UNCHANGED <<output, used, fd, answered, directory, tempfile, sweeping, disturbed, failures>>

\* The directory of an earlier analysis is removed; a failure is only logged, and
\* the files are extracted over what is left.
Clear(r) ==
    /\ pc[r] = "clear"
    /\ \/ RemoveOne /\ UNCHANGED <<pc, left, failures>>
       \/ RemoveEnds /\ Extracting(r) /\ UNCHANGED failures
       \/ Fails("RemoveAll") /\ Mars(r) /\ Extracting(r) /\ UNCHANGED directory
    /\ UNCHANGED <<output, used, fd, answered, tempfile, sweeping, disturbed>>

\* copyFromContainer and extractTar make the directories a file needs, and write
\* the file.  It fails when the directory is removed in between, too.  Then
\* RunAnalysis fails, and HandleAnalyze returns without removing anything.
Extract(r) ==
    /\ pc[r] = "extract"
    /\ \/ \E f \in left[r] :
            /\ dir' = [dir EXCEPT ![f] = r]
            /\ aged' = FALSE
            /\ left' = [left EXCEPT ![r] = @ \ {f}]
            /\ UNCHANGED <<pc, used, fd, answered, disturbed, failures>>
       \/ /\ left[r] = {} /\ Goto(r, "check")
          /\ UNCHANGED <<left, used, fd, answered, disturbed, directory, failures>>
       \/ /\ Fails("Extract") \/ (RemovedBesides(r) /\ UNCHANGED budget)
          /\ Return(r, "failed") /\ UNCHANGED directory
    /\ UNCHANGED <<output, tempfile, sweeping>>

--------------------------------------------------------------------------------
(* HandleAnalyze. *)

Uses(r, q) == used' = [used EXCEPT ![r] = @ \cup {q}]

\* The report must have a page and the web vitals, which are read for the answer.
\* From here on the directory is removed on every way out.
Check(r) ==
    /\ pc[r] = "check"
    /\ IF dir[Vitals] # Nil /\ \E p \in Pages : dir[p] # Nil
       THEN Goto(r, "shot") /\ Uses(r, dir[Vitals])
       ELSE Goto(r, "rmDir") /\ UNCHANGED used
    /\ UNCHANGED <<output, left, fd, answered, directory, tempfile, sweeping, disturbed, failures>>

\* The screenshot of a page is uploaded if there is one; a failure is logged.
PutScreenshot(r) ==
    /\ pc[r] = "shot"
    /\ \/ UNCHANGED <<used, failures>>
       \/ \E p \in Pages : dir[p] # Nil /\ Uses(r, dir[p]) /\ UNCHANGED failures
       \/ Fails("PutObject") /\ Harmless /\ UNCHANGED used
    /\ Goto(r, "rmZip")
    /\ UNCHANGED <<output, left, fd, answered, directory, tempfile, sweeping, disturbed>>

\* os.Remove: an archive that no path names and nobody holds open is gone.
Unlink ==
    /\ zip' = Nil /\ stray' = FALSE
    /\ LET Kept(i) == \E r \in Requests : fd[r] = i IN
       /\ archive' = [i \in Requests |-> IF Kept(i) THEN archive[i] ELSE Blank]
       /\ seal' = [i \in Requests |-> IF Kept(i) THEN seal[i] ELSE "open"]

\* removeQuietly drops the error of os.Remove.
UnlinkFails == zip # Nil /\ Fails("Unlink") /\ UNCHANGED tempfile

RemoveZip(r) ==
    /\ pc[r] = "rmZip"
    /\ \/ Unlink /\ UNCHANGED <<marred, budget>>
       \/ UnlinkFails /\ Harmless
    /\ Goto(r, "create")
    /\ UNCHANGED <<output, left, used, fd, answered, directory, sweeping, disturbed>>

Sealed(i) == [seal EXCEPT ![i] = IF @ = "garbled" THEN @ ELSE "sealed"]

\* Mutant: a failure returns without closing the archive.
ZipFailedLeaks(r) ==
    /\ Strays
    /\ Goto(r, "rmDir")
    /\ UNCHANGED <<fd, zip, archive, seal, marred>>

\* ZipDirectory fails: the deferred Close seals what there is, the file stays.
ZipFailed(r) ==
    /\ Strays
    /\ Goto(r, "rmDir")
    /\ Open(r, Nil) /\ seal' = Sealed(fd[r])
    /\ UNCHANGED <<zip, archive, marred>>

\* os.Create: a file that is there is truncated, whoever is writing it.
Create(r) ==
    /\ pc[r] = "create"
    /\ \/ LET i == IF zip = Nil THEN r ELSE zip IN
          /\ zip' = i
          /\ Open(r, i)
          /\ archive' = [archive EXCEPT ![i] = Blank]
          /\ seal' = [seal EXCEPT ![i] =
               IF \E q \in Requests : pc[q] \in Zipping /\ fd[q] = i
               THEN "garbled" ELSE "open"]
          /\ Goto(r, "list") /\ UNCHANGED failures
       \/ Fails("Zip") /\ Harmless /\ Goto(r, "rmDir") /\ UNCHANGED <<fd, tempfile>>
    /\ UNCHANGED <<output, left, used, answered, directory, sweeping, disturbed>>

\* WalkDir begins with what there is, or finds no directory.
List(r) ==
    /\ pc[r] = "list"
    /\ left' = [left EXCEPT ![r] = {f \in Files : dir[f] # Nil}]
    /\ \/ Goto(r, "zip") /\ UNCHANGED <<fd, tempfile, failures>>
       \/ Gone /\ ZipFailed(r) /\ UNCHANGED budget
    /\ UNCHANGED <<output, used, answered, directory, sweeping, disturbed>>

\* The files are copied into the archive.  WalkDir reads each subdirectory when it
\* gets there: a file that has vanished by then is left out, one that has come is
\* taken; one that vanishes later is an error.  The error of Close is dropped.
Zip(r) ==
    /\ pc[r] = "zip"
    /\ \/ \E f \in Files :
            /\ dir[f] # Nil
            /\ f \in left[r] \/ archive[fd[r]][f] = Nil
            /\ archive' = [archive EXCEPT ![fd[r]][f] = dir[f]]
            /\ left' = [left EXCEPT ![r] = @ \ {f}]
            /\ UNCHANGED <<pc, fd, zip, seal, failures>>
       \/ /\ \E f \in left[r] : dir[f] = Nil /\ left' = [left EXCEPT ![r] = @ \ {f}]
          /\ UNCHANGED <<pc, fd, tempfile, failures>>
       \/ /\ \/ (\E f \in left[r] : dir[f] = Nil) /\ UNCHANGED budget
             \/ Fails("Zip")
          /\ ZipFailed(r)
          /\ UNCHANGED left
       \/ /\ left[r] = {}
          /\ \/ seal' = Sealed(fd[r]) /\ UNCHANGED failures
             \/ Fails("Close") /\ Mars(r) /\ UNCHANGED seal
          /\ Goto(r, "open") /\ Open(r, Nil)
          /\ UNCHANGED <<left, zip, archive>>
    /\ UNCHANGED <<output, used, answered, directory, sweeping, disturbed>>

\* UploadFile opens the path anew.
OpenZip(r) ==
    /\ pc[r] = "open"
    /\ IF zip # Nil THEN Open(r, zip) /\ Goto(r, "put")
                    ELSE UNCHANGED fd /\ Goto(r, "rmTmp")
    /\ UNCHANGED <<output, left, used, answered, directory, tempfile, sweeping, disturbed, failures>>

\* Mutant: a failed upload returns without removing the archive.
PutZipLeaves(r) ==
    /\ pc[r] = "put"
    /\ \/ answered' = [answered EXCEPT ![r] = TRUE] /\ Goto(r, "rmTmp") /\ UNCHANGED failures
       \/ Fails("PutObject") /\ Harmless /\ UNCHANGED answered /\ Goto(r, "rmDir")
    /\ Open(r, Nil)
    /\ UNCHANGED <<output, left, used, directory, tempfile, sweeping, disturbed>>

\* The upload stores what the open file holds now.  Every way out from here on
\* removes the archive, then the directory.  What the bucket holds after uploads
\* that fail, or overtake each other, is ResultCache's.
PutZip(r) ==
    /\ pc[r] = "put"
    /\ \/ answered' = [answered EXCEPT ![r] = TRUE] /\ UNCHANGED failures
       \/ Fails("PutObject") /\ Harmless /\ UNCHANGED answered
    /\ Goto(r, "rmTmp") /\ Open(r, Nil)
    /\ UNCHANGED <<output, left, used, directory, tempfile, sweeping, disturbed>>

RemoveTemp(r) ==
    /\ pc[r] = "rmTmp"
    /\ \/ Unlink /\ UNCHANGED <<marred, budget>>
       \/ UnlinkFails /\ Strays /\ UNCHANGED marred
    /\ Goto(r, "rmDir")
    /\ UNCHANGED <<output, left, used, fd, answered, directory, sweeping, disturbed>>

RemoveDir(r) ==
    /\ pc[r] = "rmDir"
    /\ \/ RemoveOne /\ UNCHANGED <<request, failures>>
       \/ /\ (RemoveEnds /\ UNCHANGED budget) \/ (Fails("RemoveAll") /\ UNCHANGED directory)
          /\ Return(r, IF answered[r] THEN "ok" ELSE "failed")
          /\ UNCHANGED output
    /\ UNCHANGED <<tempfile, sweeping>>

--------------------------------------------------------------------------------
(* CleanupStaleResultDirs, time, and the process.  Files that come in            *)
(* subdirectories leave the time of the directory as it is: it may be older than *)
(* ten minutes at any moment while there is one.                                 *)

GrowOld ==
    /\ ~Gone /\ ~aged
    /\ aged' = TRUE
    /\ UNCHANGED <<request, dir, tempfile, sweeping, failures>>

\* Mutant: the age is compared the wrong way round.
SweepListYoung ==
    /\ ~sweeping /\ ~Gone /\ ~aged
    /\ sweeping' = TRUE
    /\ disturbed' = [r \in Requests |-> disturbed[r] \/ InFlight(r)]
    /\ UNCHANGED <<pc, output, left, used, fd, answered, directory, tempfile, failures>>

\* The age of the directory is read, whoever is working in it.
SweepList ==
    /\ ~sweeping /\ ~Gone /\ aged
    /\ sweeping' = TRUE
    /\ disturbed' = [r \in Requests |-> disturbed[r] \/ InFlight(r)]
    /\ UNCHANGED <<pc, output, left, used, fd, answered, directory, tempfile, failures>>

SweepRemove ==
    /\ sweeping
    /\ \/ RemoveOne /\ UNCHANGED <<sweeping, failures>>
       \/ RemoveEnds /\ sweeping' = FALSE /\ UNCHANGED failures
       \/ Fails("RemoveAll") /\ Harmless /\ sweeping' = FALSE /\ UNCHANGED directory
    /\ UNCHANGED <<request, tempfile>>

Sweep == SweepList \/ SweepRemove

\* The process dies and is started again, on the same file system or on a new one.
Crash ==
    /\ Fails("Crash")
    /\ pc' = [r \in Requests |-> IF InFlight(r) THEN "failed" ELSE pc[r]]
    /\ left' = [r \in Requests |-> {}]
    /\ used' = [r \in Requests |-> {}]
    /\ fd' = [r \in Requests |-> Nil]
    /\ answered' = [r \in Requests |-> FALSE]
    /\ disturbed' = [r \in Requests |-> FALSE]
    /\ marred' = [r \in Requests |-> FALSE]
    /\ sweeping' = FALSE
    /\ \/ Strays /\ UNCHANGED <<directory, zip>>
       \/ stray' = FALSE /\ dir' = Blank /\ aged' = FALSE /\ zip' = Nil
    /\ UNCHANGED <<output, archive, seal>>

--------------------------------------------------------------------------------

Step(r) ==
    \/ Clear(r) \/ Extract(r) \/ Check(r) \/ PutScreenshot(r) \/ RemoveZip(r) \/ Create(r)
    \/ List(r) \/ Zip(r) \/ OpenZip(r) \/ PutZip(r) \/ RemoveTemp(r) \/ RemoveDir(r)

Next ==
    \/ \E r \in Requests : Step(r) \/ \E out \in Outputs : Begin(r, out)
    \/ GrowOld \/ Sweep \/ Crash

Spec == Init /\ [][Next]_vars

\* Time passes, the ticker keeps sweeping, and every call returns.
Fairness == WF_vars(GrowOld) /\ WF_vars(Sweep) /\ \A r \in Requests : WF_vars(Step(r))

FairSpec == Spec /\ Fairness

--------------------------------------------------------------------------------
(* Properties. *)

\* The types of the variables; and a handler holds an archive open exactly while
\* it writes or uploads it.
TypeOK ==
    /\ pc \in [Requests -> Labels]
    /\ output \in [Requests -> SUBSET Files]
    /\ left \in [Requests -> SUBSET Files]
    /\ used \in [Requests -> SUBSET Requests]
    /\ fd \in [Requests -> Version]
    /\ answered \in [Requests -> BOOLEAN]
    /\ dir \in [Files -> Version]
    /\ aged \in BOOLEAN
    /\ zip \in Version
    /\ archive \in [Requests -> [Files -> Version]]
    /\ seal \in [Requests -> Seals]
    /\ sweeping \in BOOLEAN
    /\ disturbed \in [Requests -> BOOLEAN]
    /\ marred \in [Requests -> BOOLEAN]
    /\ stray \in BOOLEAN
    /\ budget \in 0..MaxFaults
    /\ \A r \in Requests : fd[r] # Nil <=> pc[r] \in Zipping \cup {"put"}

Reported(r) == ~answered[r] /\ answered'[r]

\* The archive i holds the report of r, all of it and nothing else.
ReportOf(r, i) == archive[i] = [f \in Files |-> IF f \in output[r] THEN r ELSE Nil]

\* An analysis that no other of its id and no sweep meets, and whose own clearing of
\* the directory and closing of the archive succeed, answers 200 only with its own
\* web vitals, and when it has uploaded all its files, no file of any other, and its
\* own screenshot or none: whatever earlier analyses, failed copies, uploads, removals
\* and sweeps, or a crash, have left in the directory and in the temporary archive.
\* (RunAnalysis goes on when the clearing fails, and ZipDirectory drops the error of
\* Close: then the report may hold another's files, or be no archive.)
StoresOwnReport ==
    [][\A r \in Requests :
        Reported(r) /\ ~disturbed[r] /\ ~marred[r] =>
            /\ used[r] = {r}
            /\ ReportOf(r, fd[r])
            /\ seal[fd[r]] = "sealed"]_vars

Idle == \A r \in Requests : ~InFlight(r)

\* When all requests are done no archive is left, even when analyses of one id have
\* truncated, uploaded and removed each other's: unless making an archive, its last
\* removal or the process has failed, and then only until a later analysis of the id
\* removes what is there.
TempZipRemoved == Idle /\ ~stray => zip = Nil

\* No directory stays: what a failed copy, a failed removal or a crash leaves is
\* removed by the sweep, also when it has to compete with new analyses.
DirReclaimed == ~Gone ~> Gone

--------------------------------------------------------------------------------
(* What the documentation says of the results; refuted. *)

\* "Results are stored in S3-compatible storage": what a 200 answer has stored is
\* the result of one analysis, with all its files.
ReportOfOneAnalysis ==
    [][\A r \in Requests : Reported(r) => \E q \in Requests : ReportOf(q, fd[r])]_vars

================================================================================
