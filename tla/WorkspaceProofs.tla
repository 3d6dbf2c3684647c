---------------------------- MODULE WorkspaceProofs ----------------------------
(***************************************************************************)
(* Theorems about Workspace, for all sets of requests, files and outputs,  *)
(* and any number of failures of any calls.                                *)
(***************************************************************************)
EXTENDS Workspace, TLAPS

--------------------------------------------------------------------------------
(* The inductive invariant. *)

\* r is at work, and has met nobody.
Solo(r) == InFlight(r) /\ ~disturbed[r]

\* The report of r, and what of it is not left to be extracted, or archived.
Report(r) == [f \in Files |-> IF f \in output[r] THEN r ELSE Nil]
Part(r)   == [f \in Files |-> IF f \in output[r] \ left[r] THEN r ELSE Nil]

\* How far a request that has met nobody has got with its report.
Own(r) ==
    /\ pc[r] \in {"clear", "extract", "check"} => used[r] = {}
    /\ pc[r] = "extract" => left[r] \subseteq output[r] /\ dir = Part(r)
    /\ pc[r] \in {"check", "shot", "rmZip", "create", "list", "zip"} => dir = Report(r)
    /\ pc[r] \in {"shot", "rmZip", "create", "list", "zip", "open", "put"} => used[r] = {r}
    /\ pc[r] \in {"list", "zip", "put"} => fd[r] = zip
    /\ pc[r] = "list" => archive[zip] = Blank
    /\ pc[r] = "zip" => left[r] \subseteq output[r] /\ archive[zip] = Part(r)
    /\ pc[r] \in {"list", "zip"} => seal[zip] = "open"
    /\ pc[r] \in {"open", "put"} => zip # Nil /\ archive[zip] = Report(r) /\ seal[zip] = "sealed"

Unstarted == \A r \in Requests : pc[r] = "idle" => used[r] = {}

\* Where a request answers for the archive; where none does, it is stray.
Holding == Zipping \cup {"open", "put", "rmTmp"}

Held ==
    ~stray /\ zip # Nil => \E r \in Requests : pc[r] \in Holding

Alone ==
    \A r \in Requests : Solo(r) =>
        ~sweeping /\ \A q \in Requests : q # r => ~InFlight(q)

Owns == \A r \in Requests : Solo(r) /\ ~marred[r] => Own(r)

IInv == TypeOK /\ Unstarted /\ Held /\ Alone /\ Owns

--------------------------------------------------------------------------------
(* The types, a group of variables at a time. *)

RequestTypes ==
    /\ pc \in [Requests -> Labels]
    /\ output \in [Requests -> SUBSET Files]
    /\ left \in [Requests -> SUBSET Files]
    /\ used \in [Requests -> SUBSET Requests]
    /\ fd \in [Requests -> Version]
    /\ answered \in [Requests -> BOOLEAN]
    /\ disturbed \in [Requests -> BOOLEAN]

Handles == \A r \in Requests : fd[r] # Nil <=> pc[r] \in Zipping \cup {"put"}

DirectoryTypes == dir \in [Files -> Version] /\ aged \in BOOLEAN

TempTypes ==
    /\ zip \in Version
    /\ archive \in [Requests -> [Files -> Version]]
    /\ seal \in [Requests -> Seals]

FailureTypes ==
    /\ marred \in [Requests -> BOOLEAN]
    /\ stray \in BOOLEAN
    /\ budget \in 0..MaxFaults

LEMMA Types ==
  TypeOK <=> RequestTypes /\ Handles /\ DirectoryTypes /\ TempTypes /\ FailureTypes
                /\ sweeping \in BOOLEAN
  BY DEF TypeOK, RequestTypes, Handles, DirectoryTypes, TempTypes, FailureTypes

LEMMA TypesNext ==
  ASSUME RequestTypes', Handles', DirectoryTypes', TempTypes', FailureTypes', (sweeping \in BOOLEAN)'
  PROVE  TypeOK'
  BY DEF TypeOK, RequestTypes, Handles, DirectoryTypes, TempTypes, FailureTypes

LEMMA RequestSame ==
  ASSUME UNCHANGED <<pc, output, left, used, fd, answered, disturbed>>, RequestTypes, Handles
  PROVE  RequestTypes' /\ Handles'
  BY DEF RequestTypes, Handles

LEMMA DirectorySame ==
  ASSUME UNCHANGED directory, DirectoryTypes
  PROVE  DirectoryTypes' /\ dir' = dir
  BY DEF directory, DirectoryTypes

LEMMA TempSame ==
  ASSUME UNCHANGED tempfile, TempTypes
  PROVE  TempTypes' /\ zip' = zip /\ archive' = archive /\ seal' = seal
  BY DEF tempfile, TempTypes

LEMMA FailuresSame ==
  ASSUME UNCHANGED failures, FailureTypes
  PROVE  FailureTypes' /\ marred' = marred /\ stray' = stray
  BY DEF failures, FailureTypes

\* At most one call has failed.
Spends == budget' = budget \/ (budget > 0 /\ budget' = budget - 1)

LEMMA SpendsEffect ==
  ASSUME FailureTypes, Spends
  PROVE  (budget \in 0..MaxFaults)'
  BY FaultsAssumption DEF Spends, FailureTypes

\* What a step of r in its course notes of failures.
Noted(r) ==
    /\ Spends
    /\ marred' = marred \/ marred' = [marred EXCEPT ![r] = TRUE]
    /\ stray' = stray \/ stray' = (zip # Nil) \/ stray' = FALSE

LEMMA NotedEffect ==
  ASSUME FailureTypes, NEW r \in Requests, Noted(r)
  PROVE  /\ FailureTypes'
         /\ \A q \in Requests : q # r => marred'[q] = marred[q]
         /\ marred[r] => marred'[r]
  <1>1. (budget \in 0..MaxFaults)'
    BY SpendsEffect DEF Noted
  <1>2. marred \in [Requests -> BOOLEAN] /\ stray \in BOOLEAN
    BY DEF FailureTypes
  <1>3. (stray \in BOOLEAN)'
    BY <1>2, Zenon DEF Noted
  <1>4. CASE marred' = marred
    BY <1>1, <1>2, <1>3, <1>4 DEF FailureTypes
  <1>5. CASE marred' = [marred EXCEPT ![r] = TRUE]
    <2>1. /\ marred' \in [Requests -> BOOLEAN] /\ marred'[r]
          /\ \A q \in Requests : q # r => marred'[q] = marred[q]
      BY <1>2, <1>5
    <2> QED
      BY <1>1, <1>3, <2>1 DEF FailureTypes
  <1> QED
    BY <1>4, <1>5 DEF Noted

LEMMA MarsEffect ==
  ASSUME FailureTypes, NEW r \in Requests, marred' = [marred EXCEPT ![r] = TRUE]
  PROVE  marred'[r]
  BY DEF FailureTypes

LEMMA RemoveOneTypes ==
  ASSUME RemoveOne, DirectoryTypes
  PROVE  DirectoryTypes'
  BY DEF RemoveOne, DirectoryTypes, Version

--------------------------------------------------------------------------------
(* What a step of one request leaves to the others. *)

\* r has made a step, on its own behalf alone.
Acts(r) ==
    /\ \A q \in Requests : q # r =>
          /\ pc'[q] = pc[q] /\ disturbed'[q] = disturbed[q] /\ used'[q] = used[q]
          /\ marred'[q] = marred[q]
    /\ pc'[r] # "idle"
    /\ InFlight(r)' => disturbed'[r] = disturbed[r] /\ (marred[r] => marred'[r])
    /\ sweeping' = sweeping

\* What one request does cannot touch another that has met nobody: there is none.
LEMMA ActorStep ==
  ASSUME IInv, NEW r \in Requests, InFlight(r), Acts(r), TypeOK', Held',
         ~marred'[r] /\ Solo(r) /\ Solo(r)' => Own(r)'
  PROVE  IInv'
  <1> USE DEF IInv
  <1>1. Unstarted'
    BY DEF Unstarted, Acts
  <1>2. ASSUME NEW q \in Requests, Solo(q)'
        PROVE  q = r /\ Solo(q)
    <2>1. CASE q # r
      <3>1. Solo(q)
        BY <1>2, <2>1 DEF Acts, Solo, InFlight
      <3> QED
        BY <2>1, <3>1 DEF Alone
    <2>2. CASE q = r
      BY <1>2, <2>2 DEF Acts, Solo
    <2> QED
      BY <2>1, <2>2
  <1>3. Alone'
    <2> SUFFICES ASSUME NEW q \in Requests, Solo(q)',
                        NEW p \in Requests, p # q
                 PROVE  ~sweeping' /\ ~InFlight(p)'
      BY <1>2 DEF Alone, Acts
    <2>1. q = r /\ Solo(r)
      BY <1>2
    <2>2. ~sweeping /\ ~InFlight(p) /\ pc'[p] = pc[p] /\ sweeping' = sweeping
      BY <2>1 DEF Alone, Acts
    <2> QED
      BY <2>2 DEF InFlight
  <1>4. Owns'
    BY <1>2 DEF Owns
  <1> QED
    BY <1>1, <1>3, <1>4

LEMMA GotoEffect ==
  ASSUME RequestTypes, NEW r \in Requests, NEW l \in Labels, Goto(r, l)
  PROVE  /\ pc' \in [Requests -> Labels] /\ pc'[r] = l
         /\ \A q \in Requests : q # r => pc'[q] = pc[q]
  BY DEF Goto, RequestTypes

LEMMA OpenEffect ==
  ASSUME RequestTypes, NEW r \in Requests, NEW i \in Version, Open(r, i)
  PROVE  /\ fd' \in [Requests -> Version] /\ fd'[r] = i
         /\ \A q \in Requests : q # r => fd'[q] = fd[q]
  BY DEF Open, RequestTypes

LEMMA ReturnEffect ==
  ASSUME RequestTypes, Handles, NEW r \in Requests, pc[r] \notin Zipping \cup {"put"},
         NEW l \in Final, Return(r, l), output' = output, FailureTypes, Spends
  PROVE  /\ RequestTypes' /\ Handles' /\ FailureTypes'
         /\ pc'[r] = l /\ ~InFlight(r)' /\ pc'[r] # "idle" /\ stray' = stray
         /\ \A q \in Requests : q # r =>
                /\ pc'[q] = pc[q] /\ disturbed'[q] = disturbed[q] /\ used'[q] = used[q]
                /\ marred'[q] = marred[q]
  <1>1. l \in Labels
    BY DEF Labels
  <1>2. Goto(r, l)
    BY DEF Return
  <1>3. /\ pc' \in [Requests -> Labels] /\ pc'[r] = l
        /\ \A q \in Requests : q # r => pc'[q] = pc[q]
    BY <1>1, <1>2, GotoEffect
  <1>4. left' \in [Requests -> SUBSET Files] /\ used' \in [Requests -> SUBSET Requests]
    BY DEF Return, RequestTypes
  <1>5. answered' \in [Requests -> BOOLEAN] /\ disturbed' \in [Requests -> BOOLEAN]
    BY DEF Return, RequestTypes
  <1>6. \A q \in Requests : q # r => disturbed'[q] = disturbed[q] /\ used'[q] = used[q]
    BY DEF Return, RequestTypes
  <1>7. fd' = fd
    BY DEF Return
  <1>8. RequestTypes'
    BY <1>3, <1>4, <1>5, <1>7 DEF RequestTypes
  <1>9. Handles'
    BY <1>3, <1>7 DEF Handles, Final, Zipping
  <1>10. /\ stray' = stray /\ marred' \in [Requests -> BOOLEAN]
         /\ \A q \in Requests : q # r => marred'[q] = marred[q]
    BY DEF Return, FailureTypes
  <1>11. FailureTypes'
    BY <1>10, SpendsEffect DEF FailureTypes
  <1> QED
    BY <1>3, <1>6, <1>8, <1>9, <1>10, <1>11 DEF InFlight, Final

\* A step that leaves no archive that nobody answers for, or notes it.
Keeps(r) ==
    \/ pc'[r] \in Holding
    \/ zip' = Nil
    \/ pc[r] \notin Holding /\ zip' = zip /\ stray' = stray
    \/ zip' = zip /\ stray' = (zip # Nil)

LEMMA HeldKept ==
  ASSUME Held, NEW r \in Requests, \A q \in Requests : q # r => pc'[q] = pc[q], Keeps(r)
  PROVE  Held'
  <1>1. CASE pc'[r] \in Holding \/ zip' = Nil
    BY <1>1 DEF Held
  <1>2. CASE pc[r] \notin Holding /\ zip' = zip /\ stray' = stray
    BY <1>2 DEF Held
  <1>3. CASE zip' = zip /\ stray' = (zip # Nil)
    BY <1>3, Zenon DEF Held
  <1> QED
    BY <1>1, <1>2, <1>3 DEF Keeps

--------------------------------------------------------------------------------
(* RunAnalysis. *)

LEMMA ClearStep ==
  ASSUME IInv, NEW r \in Requests, Clear(r)
  PROVE  IInv'
  <1> USE DEF IInv
  <1>1. /\ pc[r] = "clear" /\ output' = output /\ used' = used /\ fd' = fd /\ answered' = answered
        /\ disturbed' = disturbed /\ sweeping' = sweeping /\ UNCHANGED tempfile
    BY DEF Clear
  <1>2. /\ RequestTypes /\ Handles /\ DirectoryTypes /\ TempTypes /\ FailureTypes
        /\ sweeping \in BOOLEAN
    BY Types
  <1>3. TempTypes' /\ zip' = zip /\ archive' = archive /\ seal' = seal
    BY <1>1, <1>2, TempSame
  <1>4. Noted(r) /\ stray' = stray
    BY DEF Clear, Noted, Spends, Fails, Mars, failures
  <1>5. DirectoryTypes'
    BY <1>2, RemoveOneTypes, DirectorySame DEF Clear, RemoveEnds
  <1>6. \/ RemoveOne /\ pc' = pc /\ left' = left
        \/ /\ pc' = [pc EXCEPT ![r] = "extract"] /\ left' = [left EXCEPT ![r] = output[r]]
           /\ UNCHANGED directory
           /\ RemoveEnds \/ marred' = [marred EXCEPT ![r] = TRUE]
    BY DEF Clear, Extracting, Goto, Mars, RemoveEnds
  <1>7. RequestTypes' /\ Handles'
    <2>1. pc' \in [Requests -> Labels] /\ left' \in [Requests -> SUBSET Files]
      BY <1>2, <1>6 DEF RequestTypes, Labels
    <2>2. RequestTypes'
      BY <1>1, <1>2, <2>1 DEF RequestTypes
    <2>3. Handles'
      BY <1>1, <1>2, <1>6 DEF RequestTypes, Handles, Zipping
    <2> QED
      BY <2>2, <2>3
  <1>8. TypeOK' /\ (marred[r] => marred'[r])
    BY <1>1, <1>2, <1>3, <1>4, <1>5, <1>7, NotedEffect, TypesNext
  <1>9. Acts(r) /\ InFlight(r)
    BY <1>1, <1>2, <1>4, <1>6, NotedEffect DEF Acts, RequestTypes, InFlight, Final
  <1>10. Held'
    BY <1>1, <1>3, <1>4, <1>9, HeldKept DEF Holding, Zipping, Acts, Keeps
  <1>11. ASSUME ~marred'[r], Solo(r) PROVE Own(r)'
    <2>1. used'[r] = {}
      BY <1>1, <1>8, <1>11 DEF Owns, Own
    <2>2. CASE pc' = pc
      BY <1>1, <2>1, <2>2 DEF Own
    <2>3. CASE /\ pc' = [pc EXCEPT ![r] = "extract"] /\ left' = [left EXCEPT ![r] = output[r]]
               /\ UNCHANGED directory /\ RemoveEnds
      <3>1. pc'[r] = "extract" /\ left'[r] = output'[r]
        BY <1>1, <1>2, <2>3 DEF RequestTypes
      <3>2. \A q \in Requests : pc[q] # "extract"
        BY <1>1, <1>11 DEF Alone, InFlight, Final
      <3>3. dir' = Blank
        BY <2>3, <3>2 DEF RemoveEnds, Gone, directory
      <3>4. Part(r)' = Blank
        BY <3>1 DEF Part, Blank
      <3> QED
        BY <2>1, <3>1, <3>3, <3>4 DEF Own
    <2> QED
      BY <1>2, <1>6, <1>11, <2>2, <2>3, MarsEffect
  <1> QED
    BY <1>8, <1>9, <1>10, <1>11, ActorStep

LEMMA ExtractStep ==
  ASSUME IInv, NEW r \in Requests, Extract(r)
  PROVE  IInv'
  <1> USE DEF IInv
  <1>1. pc[r] = "extract" /\ output' = output /\ sweeping' = sweeping /\ UNCHANGED tempfile
    BY DEF Extract
  <1>2. /\ RequestTypes /\ Handles /\ DirectoryTypes /\ TempTypes /\ FailureTypes
        /\ sweeping \in BOOLEAN
    BY Types
  <1>3. TempTypes' /\ zip' = zip /\ archive' = archive /\ seal' = seal
    BY <1>1, <1>2, TempSame
  <1>5. InFlight(r)
    BY <1>1 DEF InFlight, Final
  <1>6. ASSUME NEW f \in left[r],
               dir' = [dir EXCEPT ![f] = r], aged' = FALSE,
               left' = [left EXCEPT ![r] = @ \ {f}],
               UNCHANGED <<pc, used, fd, answered, disturbed, failures>>
        PROVE  IInv'
    <2>1. /\ pc' = pc /\ used' = used /\ fd' = fd /\ answered' = answered
          /\ disturbed' = disturbed
          /\ FailureTypes' /\ marred' = marred /\ stray' = stray
      BY <1>2, <1>6, FailuresSame
    <2>2. f \in Files
      BY <1>2 DEF RequestTypes
    <2>3. DirectoryTypes'
      <3>1. dir' \in [Files -> Version]
        BY <1>2, <1>6, <2>2 DEF DirectoryTypes, Version
      <3> QED
        BY <1>6, <3>1 DEF DirectoryTypes
    <2>4. RequestTypes' /\ Handles'
      <3>1. left' \in [Requests -> SUBSET Files] /\ left'[r] = left[r] \ {f}
        BY <1>2, <1>6 DEF RequestTypes
      <3> QED
        BY <1>1, <1>2, <2>1, <3>1 DEF RequestTypes, Handles
    <2>5. TypeOK'
      BY <1>1, <1>2, <1>3, <2>1, <2>3, <2>4, TypesNext
    <2>6. Acts(r)
      BY <1>1, <2>1 DEF Acts
    <2>7. Held'
      BY <1>1, <1>3, <2>1, HeldKept DEF Holding, Zipping, Keeps
    <2>8. ASSUME ~marred'[r], Solo(r) PROVE Own(r)'
      <3>1. used[r] = {} /\ left[r] \subseteq output[r] /\ dir = Part(r)
        BY <1>1, <2>1, <2>8 DEF Owns, Own
      <3>2. left'[r] = left[r] \ {f} /\ pc'[r] = "extract"
        BY <1>1, <1>2, <1>6, <2>1 DEF RequestTypes
      <3>3. dir' = Part(r)'
        BY <1>1, <1>6, <3>1, <3>2 DEF Part
      <3> QED
        BY <1>1, <2>1, <3>1, <3>2, <3>3 DEF Own
    <2> QED
      BY <1>5, <2>5, <2>6, <2>7, <2>8, ActorStep
  <1>7. ASSUME left[r] = {}, Goto(r, "check"),
               UNCHANGED <<left, used, fd, answered, disturbed, directory, failures>>
        PROVE  IInv'
    <2>1. /\ left' = left /\ used' = used /\ fd' = fd /\ answered' = answered
          /\ disturbed' = disturbed /\ UNCHANGED directory
          /\ FailureTypes' /\ marred' = marred /\ stray' = stray
      BY <1>2, <1>7, FailuresSame
    <2>2. /\ pc' \in [Requests -> Labels] /\ pc'[r] = "check"
          /\ \A q \in Requests : q # r => pc'[q] = pc[q]
      BY <1>2, <1>7, GotoEffect DEF Labels
    <2>3. DirectoryTypes' /\ dir' = dir
      BY <1>2, <2>1, DirectorySame
    <2>4. RequestTypes' /\ Handles'
      BY <1>1, <1>2, <2>1, <2>2 DEF RequestTypes, Handles, Zipping
    <2>5. TypeOK'
      BY <1>1, <1>2, <1>3, <2>1, <2>3, <2>4, TypesNext
    <2>6. Acts(r)
      BY <1>1, <2>1, <2>2 DEF Acts
    <2>7. Held'
      BY <1>1, <1>3, <2>1, <2>2, HeldKept DEF Holding, Zipping, Keeps
    <2>8. ASSUME ~marred'[r], Solo(r) PROVE Own(r)'
      <3>1. used[r] = {} /\ dir = Part(r)
        BY <1>1, <2>1, <2>8 DEF Owns, Own
      <3>2. Part(r) = Report(r)'
        BY <1>1, <1>7 DEF Part, Report
      <3> QED
        BY <2>1, <2>2, <2>3, <3>1, <3>2 DEF Own
    <2> QED
      BY <1>5, <2>5, <2>6, <2>7, <2>8, ActorStep
  <1>8. ASSUME Return(r, "failed"), UNCHANGED directory, Spends
        PROVE  IInv'
    <2>1. /\ RequestTypes' /\ Handles' /\ FailureTypes'
          /\ ~InFlight(r)' /\ pc'[r] # "idle" /\ stray' = stray
          /\ \A q \in Requests : q # r =>
                /\ pc'[q] = pc[q] /\ disturbed'[q] = disturbed[q] /\ used'[q] = used[q]
                /\ marred'[q] = marred[q]
      BY <1>1, <1>2, <1>8, ReturnEffect DEF Final, Zipping
    <2>2. DirectoryTypes'
      BY <1>2, <1>8, DirectorySame
    <2>3. TypeOK'
      BY <1>1, <1>2, <1>3, <2>1, <2>2, TypesNext
    <2>4. Acts(r)
      BY <1>1, <2>1 DEF Acts
    <2>5. Held'
      BY <1>1, <1>3, <2>1, HeldKept DEF Holding, Zipping, Keeps
    <2>6. ~Solo(r)'
      BY <2>1 DEF Solo
    <2> QED
      BY <1>5, <2>3, <2>4, <2>5, <2>6, ActorStep
  <1> QED
    BY <1>6, <1>7, <1>8 DEF Extract, Fails, Spends

--------------------------------------------------------------------------------
(* HandleAnalyze. *)

\* The part that all its steps have in common: r goes to l, still the one it was.
LEMMA HandlerStep ==
  ASSUME IInv, NEW r \in Requests, InFlight(r), NEW l \in Labels \ {"idle"}, Goto(r, l),
         output' = output, disturbed' = disturbed, sweeping' = sweeping,
         Noted(r), DirectoryTypes', TempTypes',
         left' \in [Requests -> SUBSET Files],
         used' \in [Requests -> SUBSET Requests],
         \A q \in Requests : q # r => used'[q] = used[q],
         fd' \in [Requests -> Version],
         \A q \in Requests : q # r => fd'[q] = fd[q],
         fd'[r] # Nil <=> l \in Zipping \cup {"put"},
         answered' \in [Requests -> BOOLEAN],
         pc'[r] = l => Keeps(r),
         ~marred'[r] /\ Solo(r) /\ Own(r) /\ pc'[r] = l => Own(r)'
  PROVE  IInv'
  <1> USE DEF IInv
  <1>1. RequestTypes /\ Handles /\ sweeping \in BOOLEAN /\ FailureTypes
    BY Types
  <1>2. /\ pc' \in [Requests -> Labels] /\ pc'[r] = l
        /\ \A q \in Requests : q # r => pc'[q] = pc[q]
    BY <1>1, GotoEffect
  <1>3. RequestTypes'
    BY <1>1, <1>2 DEF RequestTypes
  <1>4. Handles'
    BY <1>1, <1>2 DEF Handles
  <1>5. /\ FailureTypes' /\ \A q \in Requests : q # r => marred'[q] = marred[q]
        /\ marred[r] => marred'[r]
    BY <1>1, NotedEffect
  <1>6. TypeOK'
    BY <1>1, <1>3, <1>4, <1>5, TypesNext
  <1>7. Acts(r)
    BY <1>2, <1>5 DEF Acts
  <1>8. Held'
    BY <1>2, HeldKept
  <1>9. ~marred'[r] /\ Solo(r) => Own(r)'
    BY <1>2, <1>5 DEF Owns
  <1> QED
    BY <1>6, <1>7, <1>8, <1>9, ActorStep

LEMMA CheckStep ==
  ASSUME IInv, NEW r \in Requests, Check(r)
  PROVE  IInv'
  <1> USE DEF IInv
  <1> DEFINE good == dir[Vitals] # Nil /\ \E p \in Pages : dir[p] # Nil
             l == IF good THEN "shot" ELSE "rmDir"
  <1>1. /\ pc[r] = "check" /\ output' = output /\ left' = left /\ fd' = fd /\ answered' = answered
        /\ sweeping' = sweeping /\ disturbed' = disturbed
        /\ UNCHANGED directory /\ UNCHANGED tempfile /\ UNCHANGED failures
    BY DEF Check
  <1>2. /\ RequestTypes /\ Handles /\ DirectoryTypes /\ TempTypes /\ FailureTypes
    BY Types
  <1>3. /\ Goto(r, l)
        /\ good => used' = [used EXCEPT ![r] = @ \cup {dir[Vitals]}]
        /\ ~good => used' = used
    BY DEF Check, Uses
  <1>4. l \in Labels \ {"idle"} /\ l \notin Zipping \cup {"put"}
    BY DEF Labels, Removing, Zipping
  <1>5. /\ used' \in [Requests -> SUBSET Requests]
        /\ \A q \in Requests : q # r => used'[q] = used[q]
        /\ good => used'[r] = used[r] \cup {dir[Vitals]}
    <2>1. good => dir[Vitals] \in Requests
      BY <1>2, FilesAssumption DEF DirectoryTypes, Version
    <2> QED
      BY <1>2, <1>3, <2>1 DEF RequestTypes
  <1>6. /\ TempTypes' /\ DirectoryTypes' /\ dir' = dir /\ zip' = zip
        /\ Noted(r) /\ stray' = stray
    BY <1>1, <1>2, TempSame, DirectorySame DEF Noted, Spends, failures
  <1>7. ASSUME Own(r), pc'[r] = l PROVE Own(r)'
    <2>1. used[r] = {} /\ dir = Report(r) /\ Report(r)' = Report(r)
      BY <1>1, <1>7 DEF Own, Report
    <2>2. CASE good
      <3>1. dir[Vitals] = r
        BY <2>1, <2>2, FilesAssumption DEF Report
      <3> QED
        BY <1>5, <1>6, <1>7, <2>1, <2>2, <3>1 DEF Own
    <2>3. CASE ~good
      BY <1>7, <2>3 DEF Own
    <2> QED
      BY <2>2, <2>3
  <1>8. /\ InFlight(r) /\ Keeps(r)
        /\ fd' \in [Requests -> Version] /\ fd'[r] = Nil
        /\ left' \in [Requests -> SUBSET Files] /\ answered' \in [Requests -> BOOLEAN]
    BY <1>1, <1>2, <1>6 DEF InFlight, Final, Holding, Zipping, RequestTypes, Handles, Keeps
  <1> HIDE DEF l
  <1> QED
    BY <1>1, <1>3, <1>4, <1>5, <1>6, <1>7, <1>8, HandlerStep

LEMMA PutScreenshotStep ==
  ASSUME IInv, NEW r \in Requests, PutScreenshot(r)
  PROVE  IInv'
  <1> USE DEF IInv
  <1>1. /\ pc[r] = "shot" /\ output' = output /\ left' = left /\ fd' = fd /\ answered' = answered
        /\ sweeping' = sweeping /\ disturbed' = disturbed
        /\ Goto(r, "rmZip") /\ UNCHANGED directory /\ UNCHANGED tempfile
    BY DEF PutScreenshot
  <1>2. /\ RequestTypes /\ Handles /\ DirectoryTypes /\ TempTypes /\ FailureTypes
    BY Types
  <1>3. \/ used' = used
        \/ \E p \in Pages : dir[p] # Nil /\ used' = [used EXCEPT ![r] = @ \cup {dir[p]}]
    BY DEF PutScreenshot, Uses
  <1>4. "rmZip" \in Labels \ {"idle"} /\ "rmZip" \notin Zipping \cup {"put"}
    BY DEF Labels, Zipping
  <1>5. /\ used' \in [Requests -> SUBSET Requests]
        /\ \A q \in Requests : q # r => used'[q] = used[q]
        /\ used'[r] = used[r] \/ \E p \in Pages : dir[p] # Nil /\ used'[r] = used[r] \cup {dir[p]}
    <2>1. \A p \in Pages : dir[p] # Nil => dir[p] \in Requests
      BY <1>2 DEF DirectoryTypes, Version, Pages
    <2> QED
      BY <1>2, <1>3, <2>1 DEF RequestTypes
  <1>6. /\ TempTypes' /\ DirectoryTypes' /\ dir' = dir /\ zip' = zip
    BY <1>1, <1>2, TempSame, DirectorySame
  <1>7. Noted(r) /\ stray' = stray
    BY DEF PutScreenshot, Noted, Spends, Fails, Harmless, failures
  <1>8. ASSUME Own(r), pc'[r] = "rmZip" PROVE Own(r)'
    <2>1. used[r] = {r} /\ dir = Report(r) /\ Report(r)' = Report(r)
      BY <1>1, <1>8 DEF Own, Report
    <2>2. \A p \in Pages : dir[p] # Nil => dir[p] = r
      BY <2>1 DEF Report, Pages
    <2>3. used'[r] = {r}
      BY <1>5, <2>1, <2>2
    <2> QED
      BY <1>6, <1>8, <2>1, <2>3 DEF Own
  <1>9. /\ InFlight(r) /\ Keeps(r)
        /\ fd' \in [Requests -> Version] /\ fd'[r] = Nil
        /\ left' \in [Requests -> SUBSET Files] /\ answered' \in [Requests -> BOOLEAN]
    BY <1>1, <1>2, <1>6, <1>7 DEF InFlight, Final, Holding, Zipping, RequestTypes, Handles, Keeps
  <1> QED
    BY <1>1, <1>4, <1>5, <1>6, <1>7, <1>8, <1>9, HandlerStep

--------------------------------------------------------------------------------
(* The archive. *)

LEMMA UnlinkEffect ==
  ASSUME Unlink, TempTypes
  PROVE  TempTypes' /\ zip' = Nil /\ stray' = FALSE
  <1>1. zip' = Nil /\ stray' = FALSE
    BY DEF Unlink
  <1> DEFINE Kept(i) == \E r \in Requests : fd[r] = i
  <1>2. /\ archive' = [i \in Requests |-> IF Kept(i) THEN archive[i] ELSE Blank]
        /\ seal' = [i \in Requests |-> IF Kept(i) THEN seal[i] ELSE "open"]
    BY DEF Unlink
  <1>3. Blank \in [Files -> Version] /\ "open" \in Seals /\ Nil \in Version
    BY DEF Blank, Version, Seals
  <1> HIDE DEF Kept
  <1> QED
    BY <1>1, <1>2, <1>3 DEF TempTypes

LEMMA RemoveZipStep ==
  ASSUME IInv, NEW r \in Requests, RemoveZip(r)
  PROVE  IInv'
  <1> USE DEF IInv
  <1>1. /\ pc[r] = "rmZip" /\ output' = output /\ left' = left /\ fd' = fd /\ answered' = answered
        /\ sweeping' = sweeping /\ disturbed' = disturbed /\ used' = used
        /\ Goto(r, "create") /\ UNCHANGED directory
    BY DEF RemoveZip
  <1>2. /\ RequestTypes /\ Handles /\ DirectoryTypes /\ TempTypes /\ FailureTypes
    BY Types
  <1>3. "create" \in Labels \ {"idle"} /\ "create" \notin Zipping \cup {"put"}
    BY DEF Labels, Zipping
  <1>4. DirectoryTypes' /\ dir' = dir
    BY <1>1, <1>2, DirectorySame
  <1>5. TempTypes' /\ Noted(r) /\ Keeps(r)
    <2>1. CASE Unlink /\ UNCHANGED <<marred, budget>>
      BY <1>2, <2>1, UnlinkEffect DEF Noted, Spends, Keeps
    <2>2. CASE UnlinkFails /\ Harmless
      <3>1. TempTypes' /\ zip' = zip
        BY <1>2, <2>2, TempSame DEF UnlinkFails
      <3>2. Noted(r) /\ stray' = stray
        BY <2>2 DEF UnlinkFails, Fails, Harmless, Noted, Spends
      <3> QED
        BY <1>1, <3>1, <3>2 DEF Keeps, Holding, Zipping
    <2> QED
      BY <2>1, <2>2 DEF RemoveZip
  <1>6. ASSUME Own(r), pc'[r] = "create" PROVE Own(r)'
    <2>1. used[r] = {r} /\ dir = Report(r) /\ Report(r)' = Report(r)
      BY <1>1, <1>6 DEF Own, Report
    <2> QED
      BY <1>1, <1>4, <1>6, <2>1 DEF Own
  <1>7. /\ InFlight(r) /\ fd' \in [Requests -> Version] /\ fd'[r] = Nil
        /\ used' \in [Requests -> SUBSET Requests]
        /\ left' \in [Requests -> SUBSET Files] /\ answered' \in [Requests -> BOOLEAN]
    BY <1>1, <1>2 DEF InFlight, Final, Zipping, RequestTypes, Handles
  <1> QED
    BY <1>1, <1>3, <1>4, <1>5, <1>6, <1>7, HandlerStep

LEMMA CreateStep ==
  ASSUME IInv, NEW r \in Requests, Create(r)
  PROVE  IInv'
  <1> USE DEF IInv
  <1> DEFINE i == IF zip = Nil THEN r ELSE zip
             writers == \E q \in Requests : pc[q] \in Zipping /\ fd[q] = i
  <1>1. /\ pc[r] = "create" /\ output' = output /\ left' = left /\ answered' = answered
        /\ sweeping' = sweeping /\ disturbed' = disturbed /\ used' = used
        /\ UNCHANGED directory
    BY DEF Create
  <1>2. /\ RequestTypes /\ Handles /\ DirectoryTypes /\ TempTypes /\ FailureTypes
    BY Types
  <1>3. DirectoryTypes' /\ dir' = dir
    BY <1>1, <1>2, DirectorySame
  <1>4. Noted(r) /\ stray' = stray
    BY DEF Create, Noted, Spends, Fails, Harmless, failures
  <1>5. /\ InFlight(r) /\ pc[r] \notin Holding /\ fd[r] = Nil
        /\ used' \in [Requests -> SUBSET Requests]
        /\ left' \in [Requests -> SUBSET Files] /\ answered' \in [Requests -> BOOLEAN]
    BY <1>1, <1>2 DEF InFlight, Final, Holding, Zipping, RequestTypes, Handles
  <1>6. i \in Requests
    BY <1>2 DEF TempTypes, Version
  <1>7. ASSUME zip' = i, Open(r, i), Goto(r, "list"),
               archive' = [archive EXCEPT ![i] = Blank],
               seal' = [seal EXCEPT ![i] = IF writers THEN "garbled" ELSE "open"]
        PROVE  IInv'
    <2> HIDE DEF i
    <2>1. /\ fd' \in [Requests -> Version] /\ fd'[r] = i /\ i # Nil
          /\ \A q \in Requests : q # r => fd'[q] = fd[q]
      BY <1>2, <1>6, <1>7, OpenEffect, RequestsAssumption DEF Version
    <2>2. /\ TempTypes' /\ archive'[i] = Blank
          /\ seal'[i] = IF writers THEN "garbled" ELSE "open"
      <3> HIDE DEF writers
      <3>1. Blank \in [Files -> Version]
        BY DEF Blank, Version
      <3> QED
        BY <1>2, <1>6, <1>7, <3>1 DEF TempTypes, Version, Seals
    <2>3. "list" \in Labels \ {"idle"} /\ "list" \in Zipping /\ (pc'[r] = "list" => Keeps(r))
      BY DEF Labels, Zipping, Holding, Keeps
    <2>4. ASSUME Solo(r), Own(r), pc'[r] = "list" PROVE Own(r)'
      <3>1. used[r] = {r} /\ dir = Report(r) /\ Report(r)' = Report(r)
        BY <1>1, <2>4 DEF Own, Report
      <3>2. ~writers
        BY <1>1, <2>4 DEF Alone, InFlight, Zipping, Final
      <3> QED
        BY <1>1, <1>3, <1>7, <2>1, <2>2, <2>4, <3>1, <3>2 DEF Own
    <2> QED
      BY <1>1, <1>3, <1>4, <1>5, <1>7, <2>1, <2>2, <2>3, <2>4, HandlerStep
  <1>8. ASSUME Fails("Zip"), Goto(r, "rmDir"), UNCHANGED <<fd, tempfile>>
        PROVE  IInv'
    <2>1. fd' = fd /\ TempTypes' /\ zip' = zip
      BY <1>2, <1>8, TempSame
    <2>2. /\ "rmDir" \in Labels \ {"idle"} /\ "rmDir" \notin Zipping \cup {"put"}
          /\ fd' \in [Requests -> Version] /\ Keeps(r)
      BY <1>2, <1>4, <1>5, <2>1 DEF Labels, Removing, Zipping, RequestTypes, Keeps
    <2>3. pc'[r] = "rmDir" => Own(r)'
      BY DEF Own
    <2> QED
      BY <1>1, <1>3, <1>4, <1>5, <1>8, <2>1, <2>2, <2>3, HandlerStep
  <1> QED
    BY <1>7, <1>8 DEF Create

LEMMA SealedTypes ==
  ASSUME TempTypes, NEW i \in Requests
  PROVE  /\ Sealed(i) \in [Requests -> Seals]
         /\ seal[i] = "open" => Sealed(i)[i] = "sealed"
  BY DEF TempTypes, Sealed, Seals

\* An archive that could not be made: the request goes on without it.
LEMMA ZipFailedEffect ==
  ASSUME IInv, NEW r \in Requests, pc[r] \in Zipping, ZipFailed(r),
         UNCHANGED budget \/ Fails("Zip"),
         output' = output, used' = used, answered' = answered, sweeping' = sweeping,
         disturbed' = disturbed, UNCHANGED directory,
         left' \in [Requests -> SUBSET Files]
  PROVE  IInv'
  <1> USE DEF IInv
  <1>1. /\ Goto(r, "rmDir") /\ Open(r, Nil) /\ seal' = Sealed(fd[r]) /\ marred' = marred
        /\ zip' = zip /\ archive' = archive /\ stray' = (zip # Nil)
    BY Zenon DEF ZipFailed, Strays
  <1>2. /\ RequestTypes /\ Handles /\ DirectoryTypes /\ TempTypes /\ FailureTypes
    BY Types
  <1>3. Noted(r) /\ Keeps(r)
    <2>1. Spends
      BY DEF Spends, Fails
    <2> QED
      BY <1>1, <2>1, Zenon DEF Noted, Keeps
  <1>4. /\ fd' \in [Requests -> Version] /\ fd'[r] = Nil
        /\ \A q \in Requests : q # r => fd'[q] = fd[q]
    BY <1>1, <1>2, OpenEffect DEF Version
  <1>5. "rmDir" \in Labels \ {"idle"} /\ "rmDir" \notin Zipping \cup {"put"}
    BY DEF Labels, Removing, Zipping
  <1>6. DirectoryTypes' /\ InFlight(r)
    BY <1>2, DirectorySame DEF InFlight, Zipping, Final
  <1>7. pc'[r] = "rmDir" => Own(r)'
    BY DEF Own
  <1>8. used' \in [Requests -> SUBSET Requests] /\ answered' \in [Requests -> BOOLEAN]
    BY <1>2 DEF RequestTypes
  <1>9. TempTypes'
    <2>1. fd[r] \in Requests
      BY <1>2 DEF Handles, RequestTypes, Version
    <2>2. seal' \in [Requests -> Seals]
      BY <1>1, <1>2, <2>1, SealedTypes
    <2> QED
      BY <1>1, <1>2, <2>2 DEF TempTypes
  <1> QED
    BY <1>1, <1>3, <1>4, <1>5, <1>6, <1>7, <1>8, <1>9, HandlerStep

LEMMA ListStep ==
  ASSUME IInv, NEW r \in Requests, List(r)
  PROVE  IInv'
  <1> USE DEF IInv
  <1>1. /\ pc[r] = "list" /\ output' = output /\ answered' = answered /\ used' = used
        /\ sweeping' = sweeping /\ disturbed' = disturbed
        /\ UNCHANGED directory
        /\ left' = [left EXCEPT ![r] = {f \in Files : dir[f] # Nil}]
    BY DEF List
  <1>2. /\ RequestTypes /\ Handles /\ DirectoryTypes /\ TempTypes /\ FailureTypes
    BY Types
  <1>3. /\ left' \in [Requests -> SUBSET Files] /\ left'[r] = {f \in Files : dir[f] # Nil}
        /\ used' \in [Requests -> SUBSET Requests] /\ answered' \in [Requests -> BOOLEAN]
    BY <1>1, <1>2 DEF RequestTypes
  <1>4. DirectoryTypes' /\ dir' = dir
    BY <1>1, <1>2, DirectorySame
  <1>5. pc[r] \in Zipping /\ InFlight(r)
    BY <1>1 DEF Zipping, InFlight, Final
  <1>6. ASSUME Goto(r, "zip"), UNCHANGED <<fd, tempfile, failures>>
        PROVE  IInv'
    <2>1. fd' = fd /\ fd' \in [Requests -> Version] /\ fd'[r] # Nil
      BY <1>2, <1>5, <1>6 DEF RequestTypes, Handles
    <2>2. /\ TempTypes' /\ zip' = zip /\ archive' = archive /\ seal' = seal
          /\ Noted(r)
      BY <1>2, <1>6, TempSame DEF Noted, Spends, failures
    <2>3. "zip" \in Labels \ {"idle"} /\ "zip" \in Zipping /\ (pc'[r] = "zip" => Keeps(r))
      BY DEF Labels, Zipping, Holding, Keeps
    <2>4. ASSUME Own(r), pc'[r] = "zip" PROVE Own(r)'
      <3>1. /\ used[r] = {r} /\ dir = Report(r) /\ Report(r)' = Report(r)
            /\ fd[r] = zip /\ archive[zip] = Blank /\ seal[zip] = "open"
        BY <1>1, <2>4 DEF Own, Report
      <3>2. left'[r] = output[r] \cap Files
        BY <1>3, <3>1, RequestsAssumption DEF Report
      <3>3. Part(r)' = Blank /\ left'[r] \subseteq output'[r]
        BY <1>1, <3>2 DEF Part, Blank
      <3> QED
        BY <1>1, <1>4, <2>1, <2>2, <2>4, <3>1, <3>3 DEF Own
    <2> QED
      BY <1>1, <1>3, <1>4, <1>5, <1>6, <2>1, <2>2, <2>3, <2>4, HandlerStep
  <1>7. ASSUME ZipFailed(r), UNCHANGED budget PROVE IInv'
    BY <1>1, <1>3, <1>5, <1>7, ZipFailedEffect
  <1> QED
    BY <1>6, <1>7 DEF List

LEMMA EntryTypes ==
  ASSUME TempTypes, NEW i \in Requests, NEW f \in Files, NEW v \in Version,
         archive' = [archive EXCEPT ![i][f] = v]
  PROVE  /\ archive' \in [Requests -> [Files -> Version]]
         /\ archive'[i] = [archive[i] EXCEPT ![f] = v]
  <1> DEFINE a == [archive[i] EXCEPT ![f] = v]
  <1>1. archive \in [Requests -> [Files -> Version]] /\ archive[i] \in [Files -> Version]
    BY DEF TempTypes
  <1>2. a \in [Files -> Version]
    BY <1>1
  <1>3. archive' = [archive EXCEPT ![i] = a]
    OBVIOUS
  <1> HIDE DEF a
  <1>4. archive' \in [Requests -> [Files -> Version]] /\ archive'[i] = a
    BY <1>1, <1>2, <1>3
  <1> QED
    BY <1>4 DEF a

LEMMA ZipStep ==
  ASSUME IInv, NEW r \in Requests, Zip(r)
  PROVE  IInv'
  <1> USE DEF IInv
  <1> DEFINE i == fd[r]
  <1>1. /\ pc[r] = "zip" /\ output' = output /\ answered' = answered /\ used' = used
        /\ sweeping' = sweeping /\ disturbed' = disturbed
        /\ UNCHANGED directory
    BY DEF Zip
  <1>2. /\ RequestTypes /\ Handles /\ DirectoryTypes /\ TempTypes /\ FailureTypes
    BY Types
  <1>3. /\ used' \in [Requests -> SUBSET Requests] /\ answered' \in [Requests -> BOOLEAN]
        /\ DirectoryTypes' /\ dir' = dir
    BY <1>1, <1>2, DirectorySame DEF RequestTypes
  <1>4. pc[r] \in Zipping /\ InFlight(r) /\ i \in Requests
    BY <1>1, <1>2 DEF Zipping, InFlight, Final, Handles, RequestTypes, Version
  <1>5. Report(r)' = Report(r)
    BY <1>1 DEF Report
  <1> HIDE DEF i
  \* A file is dealt with: copied, or left out.
  <1>6. ASSUME NEW f \in Files, left' = [left EXCEPT ![r] = @ \ {f}],
               \/ dir[f] # Nil /\ archive' = [archive EXCEPT ![i][f] = dir[f]]
               \/ dir[f] = Nil /\ archive' = archive,
               UNCHANGED <<pc, fd, zip, seal, failures>>
        PROVE  IInv'
    <2>1. pc' = pc /\ fd' = fd /\ zip' = zip /\ seal' = seal /\ Goto(r, "zip")
      <3>1. pc = [pc EXCEPT ![r] = "zip"]
        BY <1>1, <1>2 DEF RequestTypes
      <3> QED
        BY <1>6, <3>1 DEF Goto
    <2>2. left' \in [Requests -> SUBSET Files] /\ left'[r] = left[r] \ {f}
      BY <1>2, <1>6 DEF RequestTypes
    <2>3. /\ archive' \in [Requests -> [Files -> Version]]
          /\ dir[f] # Nil => archive'[i] = [archive[i] EXCEPT ![f] = dir[f]]
          /\ dir[f] = Nil => archive'[i] = archive[i]
      <3>1. dir[f] \in Version
        BY <1>2 DEF DirectoryTypes
      <3>2. CASE dir[f] # Nil
        BY <1>2, <1>4, <1>6, <3>1, <3>2, EntryTypes
      <3>3. CASE dir[f] = Nil
        BY <1>2, <1>6, <3>3 DEF TempTypes
      <3> QED
        BY <3>2, <3>3
    <2>4. TempTypes'
      BY <1>1, <1>2, <2>1, <2>3 DEF TempTypes
    <2>5. Noted(r)
      BY <1>6 DEF Noted, Spends, failures
    <2>6. /\ "zip" \in Labels \ {"idle"} /\ "zip" \in Zipping /\ (pc'[r] = "zip" => Keeps(r))
          /\ fd' \in [Requests -> Version] /\ fd'[r] # Nil
      BY <1>2, <1>4, <2>1 DEF Labels, Zipping, Holding, RequestTypes, Handles, Keeps
    <2>7. ASSUME Own(r), pc'[r] = "zip" PROVE Own(r)'
      <3>1. /\ used[r] = {r} /\ dir = Report(r) /\ i = zip
            /\ left[r] \subseteq output[r] /\ archive[i] = Part(r) /\ seal[i] = "open"
        BY <1>1, <2>7 DEF Own, i
      <3>2. archive'[i] = Part(r)'
        <4>1. CASE dir[f] # Nil
          <5>1. dir[f] = r /\ f \in output[r]
            BY <3>1, <4>1 DEF Report
          <5> QED
            BY <1>1, <2>2, <2>3, <3>1, <4>1, <5>1 DEF Part
        <4>2. CASE dir[f] = Nil
          <5>1. f \notin output[r]
            BY <3>1, <4>2, RequestsAssumption DEF Report
          <5> QED
            BY <1>1, <2>2, <2>3, <3>1, <4>2, <5>1 DEF Part
        <4> QED
          BY <4>1, <4>2
      <3>3. fd'[r] = zip' /\ seal'[zip'] = "open" /\ left'[r] \subseteq output'[r]
        BY <1>1, <2>1, <2>2, <3>1 DEF i
      <3>4. archive'[zip'] = Part(r)'
        BY <2>1, <3>1, <3>2
      <3> QED
        BY <1>1, <1>3, <1>5, <2>7, <3>1, <3>3, <3>4 DEF Own
    <2> QED
      BY <1>1, <1>3, <1>4, <2>1, <2>2, <2>4, <2>5, <2>6, <2>7, HandlerStep
  <1>7. ASSUME UNCHANGED budget \/ Fails("Zip"), ZipFailed(r), UNCHANGED left
        PROVE  IInv'
    <2>1. left' \in [Requests -> SUBSET Files]
      BY <1>2, <1>7 DEF RequestTypes
    <2> QED
      BY <1>1, <1>3, <1>4, <1>7, <2>1, ZipFailedEffect
  <1>8. ASSUME left[r] = {},
               \/ seal' = Sealed(i) /\ UNCHANGED failures
               \/ Fails("Close") /\ Mars(r) /\ UNCHANGED seal,
               Goto(r, "open"), Open(r, Nil), UNCHANGED <<left, zip, archive>>
        PROVE  IInv'
    <2>1. /\ left' = left /\ left' \in [Requests -> SUBSET Files]
          /\ zip' = zip /\ archive' = archive
      BY <1>2, <1>8 DEF RequestTypes
    <2>2. TempTypes'
      <3>1. seal' \in [Requests -> Seals]
        BY <1>2, <1>4, <1>8, SealedTypes DEF TempTypes
      <3> QED
        BY <1>2, <2>1, <3>1 DEF TempTypes
    <2>3. /\ Noted(r)
          /\ seal' = Sealed(i) \/ marred' = [marred EXCEPT ![r] = TRUE]
      BY <1>8 DEF Noted, Spends, Fails, Mars, failures
    <2>4. /\ fd' \in [Requests -> Version] /\ fd'[r] = Nil
          /\ \A q \in Requests : q # r => fd'[q] = fd[q]
      BY <1>2, <1>8, OpenEffect DEF Version
    <2>5. /\ "open" \in Labels \ {"idle"} /\ "open" \notin Zipping \cup {"put"}
          /\ pc'[r] = "open" => Keeps(r)
      BY DEF Labels, Zipping, Holding, Keeps
    <2>6. ASSUME ~marred'[r], Own(r), pc'[r] = "open" PROVE Own(r)'
      <3>1. /\ used[r] = {r} /\ i = zip /\ archive[i] = Part(r) /\ seal[i] = "open"
        BY <1>1, <2>6 DEF Own, i
      <3>2. Part(r) = Report(r)
        BY <1>8 DEF Part, Report
      <3>3. seal' = Sealed(i)
        BY <1>2, <2>3, <2>6, MarsEffect
      <3>4. seal'[i] = "sealed" /\ i # Nil
        BY <1>2, <1>4, <3>1, <3>3, SealedTypes, RequestsAssumption
      <3> QED
        BY <1>1, <1>5, <2>1, <2>6, <3>1, <3>2, <3>4 DEF Own
    <2> QED
      BY <1>1, <1>3, <1>4, <1>8, <2>1, <2>2, <2>3, <2>4, <2>5, <2>6, HandlerStep
  <1> QED
    <2>1. \A f \in left[r] : f \in Files
      BY <1>2 DEF RequestTypes
    <2>2. CASE \E f \in Files :
                 /\ dir[f] # Nil
                 /\ archive' = [archive EXCEPT ![i][f] = dir[f]]
                 /\ left' = [left EXCEPT ![r] = @ \ {f}]
                 /\ UNCHANGED <<pc, fd, zip, seal, failures>>
      BY <1>6, <2>2
    <2>3. CASE /\ \E f \in left[r] : dir[f] = Nil /\ left' = [left EXCEPT ![r] = @ \ {f}]
               /\ UNCHANGED <<pc, fd, tempfile, failures>>
      BY <1>6, <2>1, <2>3 DEF tempfile
    <2> QED
      BY <1>7, <1>8, <2>2, <2>3, Zenon DEF Zip, i

LEMMA OpenZipStep ==
  ASSUME IInv, NEW r \in Requests, OpenZip(r)
  PROVE  IInv'
  <1> USE DEF IInv
  <1> DEFINE l == IF zip # Nil THEN "put" ELSE "rmTmp"
  <1>1. /\ pc[r] = "open" /\ output' = output /\ left' = left /\ answered' = answered
        /\ sweeping' = sweeping /\ disturbed' = disturbed /\ used' = used
        /\ UNCHANGED directory /\ UNCHANGED tempfile /\ UNCHANGED failures
    BY DEF OpenZip
  <1>2. /\ RequestTypes /\ Handles /\ DirectoryTypes /\ TempTypes /\ FailureTypes
    BY Types
  <1>3. /\ TempTypes' /\ DirectoryTypes' /\ zip' = zip /\ archive' = archive /\ seal' = seal
        /\ Noted(r)
    BY <1>1, <1>2, TempSame, DirectorySame DEF Noted, Spends, failures
  <1>4. /\ Goto(r, l)
        /\ zip # Nil => Open(r, zip)
        /\ zip = Nil => fd' = fd
    BY DEF OpenZip
  <1>5. fd[r] = Nil /\ InFlight(r)
    BY <1>1, <1>2 DEF Handles, Zipping, InFlight, Final
  <1>6. /\ fd' \in [Requests -> Version] /\ fd'[r] = zip
        /\ \A q \in Requests : q # r => fd'[q] = fd[q]
    <2>1. CASE zip # Nil
      BY <1>2, <1>4, <2>1, OpenEffect DEF TempTypes
    <2>2. CASE zip = Nil
      BY <1>2, <1>4, <1>5, <2>2 DEF RequestTypes
    <2> QED
      BY <2>1, <2>2
  <1>7. /\ l \in Labels \ {"idle"} /\ (pc'[r] = l => Keeps(r))
        /\ fd'[r] # Nil <=> l \in Zipping \cup {"put"}
    BY <1>6 DEF Labels, Zipping, Holding, Keeps
  <1>8. ASSUME Own(r), pc'[r] = l PROVE Own(r)'
    <2>1. used[r] = {r} /\ zip # Nil /\ archive[zip] = Report(r) /\ seal[zip] = "sealed"
      BY <1>1, <1>8 DEF Own
    <2>2. pc'[r] = "put" /\ Report(r)' = Report(r)
      BY <1>1, <1>8, <2>1 DEF Report
    <2> QED
      BY <1>1, <1>3, <1>6, <2>1, <2>2 DEF Own
  <1>9. /\ used' \in [Requests -> SUBSET Requests]
        /\ left' \in [Requests -> SUBSET Files] /\ answered' \in [Requests -> BOOLEAN]
    BY <1>1, <1>2 DEF RequestTypes
  <1> HIDE DEF l
  <1> QED
    BY <1>1, <1>3, <1>4, <1>5, <1>6, <1>7, <1>8, <1>9, HandlerStep

LEMMA PutZipStep ==
  ASSUME IInv, NEW r \in Requests, PutZip(r)
  PROVE  IInv'
  <1> USE DEF IInv
  <1>1. /\ pc[r] = "put" /\ output' = output /\ left' = left
        /\ sweeping' = sweeping /\ disturbed' = disturbed /\ used' = used
        /\ UNCHANGED directory /\ UNCHANGED tempfile
        /\ Goto(r, "rmTmp") /\ Open(r, Nil)
    BY DEF PutZip
  <1>2. /\ RequestTypes /\ Handles /\ DirectoryTypes /\ TempTypes /\ FailureTypes
    BY Types
  <1>3. /\ TempTypes' /\ DirectoryTypes'
    BY <1>1, <1>2, TempSame, DirectorySame
  <1>4. Noted(r)
    BY DEF PutZip, Noted, Spends, Fails, Harmless, failures
  <1>5. answered' \in [Requests -> BOOLEAN]
    BY <1>2 DEF PutZip, RequestTypes
  <1>6. /\ fd' \in [Requests -> Version] /\ fd'[r] = Nil
        /\ \A q \in Requests : q # r => fd'[q] = fd[q]
    BY <1>1, <1>2, OpenEffect DEF Version
  <1>7. /\ "rmTmp" \in Labels \ {"idle"} /\ "rmTmp" \notin Zipping \cup {"put"}
        /\ pc'[r] = "rmTmp" => Keeps(r)
    BY DEF Labels, Zipping, Holding, Keeps
  <1>8. pc'[r] = "rmTmp" => Own(r)'
    BY DEF Own
  <1>9. /\ used' \in [Requests -> SUBSET Requests] /\ left' \in [Requests -> SUBSET Files]
        /\ InFlight(r)
    BY <1>1, <1>2 DEF RequestTypes, InFlight, Final
  <1> QED
    BY <1>1, <1>3, <1>4, <1>5, <1>6, <1>7, <1>8, <1>9, HandlerStep

LEMMA RemoveTempStep ==
  ASSUME IInv, NEW r \in Requests, RemoveTemp(r)
  PROVE  IInv'
  <1> USE DEF IInv
  <1>1. /\ pc[r] = "rmTmp" /\ output' = output /\ left' = left /\ fd' = fd /\ answered' = answered
        /\ sweeping' = sweeping /\ disturbed' = disturbed /\ used' = used
        /\ Goto(r, "rmDir") /\ UNCHANGED directory
    BY DEF RemoveTemp
  <1>2. /\ RequestTypes /\ Handles /\ DirectoryTypes /\ TempTypes /\ FailureTypes
    BY Types
  <1>3. "rmDir" \in Labels \ {"idle"} /\ "rmDir" \notin Zipping \cup {"put"}
    BY DEF Labels, Removing, Zipping
  <1>4. DirectoryTypes'
    BY <1>1, <1>2, DirectorySame
  <1>5. TempTypes' /\ Noted(r) /\ Keeps(r)
    <2>1. CASE Unlink /\ UNCHANGED <<marred, budget>>
      BY <1>2, <2>1, UnlinkEffect DEF Noted, Spends, Keeps
    <2>2. CASE UnlinkFails /\ Strays /\ UNCHANGED marred
      <3>1. TempTypes' /\ zip' = zip
        BY <1>2, <2>2, TempSame DEF UnlinkFails
      <3>2. Noted(r) /\ stray' = (zip # Nil)
        BY <2>2, Zenon DEF UnlinkFails, Fails, Strays, Noted, Spends
      <3> QED
        BY <3>1, <3>2, Zenon DEF Keeps
    <2> QED
      BY <2>1, <2>2 DEF RemoveTemp
  <1>6. pc'[r] = "rmDir" => Own(r)'
    BY DEF Own
  <1>7. /\ InFlight(r) /\ fd' \in [Requests -> Version] /\ fd'[r] = Nil
        /\ used' \in [Requests -> SUBSET Requests]
        /\ left' \in [Requests -> SUBSET Files] /\ answered' \in [Requests -> BOOLEAN]
    BY <1>1, <1>2 DEF InFlight, Final, Zipping, RequestTypes, Handles
  <1> QED
    BY <1>1, <1>3, <1>4, <1>5, <1>6, <1>7, HandlerStep

LEMMA RemoveDirStep ==
  ASSUME IInv, NEW r \in Requests, RemoveDir(r)
  PROVE  IInv'
  <1> USE DEF IInv
  <1>1. pc[r] = "rmDir" /\ sweeping' = sweeping /\ UNCHANGED tempfile
    BY DEF RemoveDir
  <1>2. /\ RequestTypes /\ Handles /\ DirectoryTypes /\ TempTypes /\ FailureTypes
        /\ sweeping \in BOOLEAN
    BY Types
  <1>3. TempTypes' /\ zip' = zip
    BY <1>1, <1>2, TempSame
  <1>5. DirectoryTypes'
    BY <1>2, RemoveOneTypes, DirectorySame DEF RemoveDir, RemoveEnds
  <1>6. InFlight(r)
    BY <1>1 DEF InFlight, Final
  <1>7. CASE UNCHANGED <<request, failures>>
    <2>1. /\ pc' = pc /\ output' = output /\ left' = left /\ used' = used /\ fd' = fd
          /\ answered' = answered /\ disturbed' = disturbed
          /\ FailureTypes' /\ marred' = marred /\ stray' = stray
      BY <1>2, <1>7, FailuresSame DEF request
    <2>2. TypeOK'
      BY <1>1, <1>2, <1>3, <1>5, <2>1, RequestSame, TypesNext
    <2>3. Acts(r) /\ Held' /\ Own(r)'
      BY <1>1, <1>3, <2>1, HeldKept DEF Acts, Own, Holding, Zipping, Keeps
    <2> QED
      BY <1>6, <2>2, <2>3, ActorStep
  <1>8. ASSUME NEW l \in Final, Return(r, l), output' = output, Spends
        PROVE  IInv'
    <2>1. /\ RequestTypes' /\ Handles' /\ FailureTypes'
          /\ ~InFlight(r)' /\ pc'[r] # "idle" /\ stray' = stray
          /\ \A q \in Requests : q # r =>
                /\ pc'[q] = pc[q] /\ disturbed'[q] = disturbed[q] /\ used'[q] = used[q]
                /\ marred'[q] = marred[q]
      BY <1>1, <1>2, <1>8, ReturnEffect DEF Zipping
    <2>2. TypeOK'
      BY <1>1, <1>2, <1>3, <1>5, <2>1, TypesNext
    <2>3. Acts(r) /\ Held' /\ ~Solo(r)'
      BY <1>1, <1>3, <2>1, HeldKept DEF Acts, Solo, Holding, Zipping, Keeps
    <2> QED
      BY <1>6, <2>2, <2>3, ActorStep
  <1> QED
    BY <1>7, <1>8 DEF RemoveDir, Final, Fails, Spends

--------------------------------------------------------------------------------
(* The beginning of a request, the sweep, and a crash. *)

LEMMA InvInit == Init => IInv
  <1> SUFFICES ASSUME Init PROVE IInv
    OBVIOUS
  <1>1. RequestTypes /\ Handles
    <2>1. answered \in [Requests -> BOOLEAN] /\ disturbed \in [Requests -> BOOLEAN]
      BY DEF Init
    <2>2. \A r \in Requests : fd[r] = Nil /\ pc[r] = "idle"
      BY DEF Init
    <2> QED
      BY <2>1, <2>2 DEF Init, RequestTypes, Handles, Labels, Version, Zipping
  <1>2. DirectoryTypes /\ sweeping \in BOOLEAN
    <2>1. dir \in [Files -> Version]
      BY DEF Init, Blank, Version
    <2>2. aged = FALSE /\ sweeping = FALSE
      BY DEF Init
    <2> QED
      BY <2>1, <2>2 DEF DirectoryTypes
  <1>3. TempTypes /\ FailureTypes
    <2>1. TempTypes
      BY DEF Init, TempTypes, Blank, Version, Seals
    <2>2. marred \in [Requests -> BOOLEAN] /\ stray \in BOOLEAN
      BY DEF Init
    <2>3. budget \in 0..MaxFaults
      BY FaultsAssumption DEF Init
    <2> QED
      BY <2>1, <2>2, <2>3 DEF FailureTypes
  <1>4. Unstarted /\ Held
    BY DEF Init, Unstarted, Held
  <1>5. \A r \in Requests : ~Solo(r)
    BY DEF Init, Solo, InFlight
  <1> QED
    BY <1>1, <1>2, <1>3, <1>4, <1>5, Types DEF IInv, Alone, Owns

LEMMA BeginStep ==
  ASSUME IInv, NEW r \in Requests, NEW out \in Outputs, Begin(r, out)
  PROVE  IInv'
  <1> USE DEF IInv
  <1> DEFINE others == {q \in Requests : InFlight(q)}
  <1>1. /\ pc[r] = "idle" /\ Goto(r, "clear") /\ output' = [output EXCEPT ![r] = out]
        /\ left' = left /\ used' = used /\ fd' = fd /\ answered' = answered
        /\ sweeping' = sweeping
        /\ UNCHANGED directory /\ UNCHANGED tempfile /\ UNCHANGED failures
    BY DEF Begin
  <1>2. disturbed' = [q \in Requests |->
                       \/ disturbed[q]
                       \/ others # {} /\ q \in others \cup {r}
                       \/ sweeping /\ q = r]
    BY DEF Begin
  <1>3. /\ RequestTypes /\ Handles /\ DirectoryTypes /\ TempTypes /\ FailureTypes
        /\ sweeping \in BOOLEAN
    BY Types
  <1>4. /\ TempTypes' /\ DirectoryTypes' /\ FailureTypes' /\ zip' = zip /\ stray' = stray
    BY <1>1, <1>3, TempSame, DirectorySame, FailuresSame
  <1>5. /\ pc' \in [Requests -> Labels] /\ pc'[r] = "clear"
        /\ \A q \in Requests : q # r => pc'[q] = pc[q]
    BY <1>1, <1>3, GotoEffect DEF Labels, Removing
  <1>6. disturbed' \in [Requests -> BOOLEAN]
    BY <1>2, Zenon
  <1>7. output' \in [Requests -> SUBSET Files]
    BY <1>1, <1>3, FilesAssumption DEF RequestTypes
  <1>8. RequestTypes' /\ Handles'
    BY <1>1, <1>3, <1>5, <1>6, <1>7 DEF RequestTypes, Handles, Zipping
  <1>9. TypeOK'
    BY <1>1, <1>3, <1>4, <1>8, TypesNext
  <1>10. Unstarted' /\ Held'
    <2>1. Unstarted'
      BY <1>1, <1>5 DEF Unstarted
    <2>2. ASSUME NEW q \in Requests, pc[q] \in Holding PROVE pc'[q] \in Holding
      BY <1>1, <1>5, <2>2 DEF Holding, Zipping
    <2> QED
      BY <1>4, <2>1, <2>2 DEF Held
  \* Who has met nobody now is r, and there is nobody else.
  <1>11. ASSUME NEW q \in Requests, Solo(q)'
         PROVE  q = r /\ others = {} /\ ~sweeping
    <2>1. ~disturbed'[q] /\ InFlight(q)'
      BY <1>11 DEF Solo
    <2>2. ~(others # {} /\ q \in others \cup {r}) /\ ~(sweeping /\ q = r)
      BY <1>2, <2>1
    <2>3. q # r => q \in others
      BY <1>5, <2>1 DEF InFlight
    <2> QED
      BY <2>2, <2>3
  <1>12. Alone'
    <2> SUFFICES ASSUME NEW q \in Requests, Solo(q)', NEW p \in Requests, p # q
                 PROVE  ~sweeping' /\ ~InFlight(p)'
      BY <1>11, <1>1 DEF Alone
    <2>1. q = r /\ others = {} /\ ~sweeping
      BY <1>11
    <2>2. ~InFlight(p) /\ pc'[p] = pc[p]
      BY <1>5, <2>1
    <2> QED
      BY <1>1, <2>1, <2>2 DEF InFlight
  <1>13. Owns'
    <2>1. Own(r)'
      BY <1>1, <1>5 DEF Own, Unstarted
    <2> QED
      BY <1>11, <2>1 DEF Owns
  <1> QED
    BY <1>9, <1>10, <1>12, <1>13

\* A step of nobody, after which nobody is left who has met nobody, or who has it
\* as it was.
LEMMA Bystanders ==
  ASSUME IInv, TypeOK', UNCHANGED <<pc, used, zip, marred, stray>>,
         \A r \in Requests : Solo(r)' => Solo(r) /\ ~sweeping' /\ (Own(r)' <=> Own(r))
  PROVE  IInv'
  <1> USE DEF IInv
  <1>1. pc' = pc /\ used' = used /\ zip' = zip /\ marred' = marred /\ stray' = stray
    OBVIOUS
  <1>2. Unstarted' /\ Held'
    BY <1>1 DEF Unstarted, Held
  <1>3. Alone'
    BY <1>1 DEF Alone, InFlight
  <1>4. Owns'
    BY <1>1 DEF Owns
  <1> QED
    BY <1>2, <1>3, <1>4

LEMMA GrowOldStep ==
  ASSUME IInv, GrowOld
  PROVE  IInv'
  <1> USE DEF IInv
  <1>1. /\ aged' = TRUE /\ dir' = dir /\ sweeping' = sweeping
        /\ UNCHANGED request /\ UNCHANGED tempfile /\ UNCHANGED failures
    BY DEF GrowOld
  <1>2. /\ pc' = pc /\ output' = output /\ left' = left /\ used' = used /\ fd' = fd
        /\ answered' = answered /\ disturbed' = disturbed
        /\ zip' = zip /\ archive' = archive /\ seal' = seal
    BY <1>1 DEF request, tempfile
  <1>3. /\ RequestTypes /\ Handles /\ DirectoryTypes /\ TempTypes /\ FailureTypes
        /\ sweeping \in BOOLEAN
    BY Types
  <1>4. DirectoryTypes'
    BY <1>1, <1>3 DEF DirectoryTypes
  <1>5. /\ TempTypes' /\ RequestTypes' /\ Handles'
        /\ FailureTypes' /\ marred' = marred /\ stray' = stray
    BY <1>1, <1>2, <1>3, TempSame, FailuresSame, RequestSame
  <1>6. TypeOK'
    BY <1>1, <1>3, <1>4, <1>5, TypesNext
  <1>7. ASSUME NEW r \in Requests, Solo(r)'
        PROVE  Solo(r) /\ ~sweeping' /\ (Own(r)' <=> Own(r))
    <2>1. Solo(r)
      BY <1>2, <1>7 DEF Solo, InFlight
    <2>2. (Own(r)' <=> Own(r))
      BY <1>1, <1>2 DEF Own, Part, Report, Blank
    <2> QED
      BY <1>1, <2>1, <2>2 DEF Alone
  <1> QED
    BY <1>2, <1>5, <1>6, <1>7, Bystanders

LEMMA SweepStep ==
  ASSUME IInv, Sweep
  PROVE  IInv'
  <1> USE DEF IInv
  <1>1. /\ pc' = pc /\ output' = output /\ left' = left /\ used' = used /\ fd' = fd
        /\ answered' = answered /\ UNCHANGED tempfile
    BY DEF Sweep, SweepList, SweepRemove, request
  <1>2. /\ RequestTypes /\ Handles /\ DirectoryTypes /\ TempTypes /\ FailureTypes
        /\ sweeping \in BOOLEAN
    BY Types
  <1>3. TempTypes' /\ zip' = zip
    BY <1>1, <1>2, TempSame
  <1>4. FailureTypes' /\ marred' = marred /\ stray' = stray
    <2>1. Spends /\ marred' = marred /\ stray' = stray
      BY DEF Sweep, SweepList, SweepRemove, Fails, Harmless, Spends, failures
    <2> QED
      BY <1>2, <2>1, SpendsEffect DEF FailureTypes
  <1>5. DirectoryTypes'
    BY <1>2, RemoveOneTypes, DirectorySame DEF Sweep, SweepList, SweepRemove, RemoveEnds
  <1>6. sweeping' \in BOOLEAN
    BY <1>2, Zenon DEF Sweep, SweepList, SweepRemove
  <1>7. \/ disturbed' = disturbed /\ sweeping
        \/ disturbed' = [r \in Requests |-> disturbed[r] \/ InFlight(r)]
    BY DEF Sweep, SweepList, SweepRemove, request
  <1>8. disturbed' \in [Requests -> BOOLEAN]
    <2>1. CASE disturbed' = disturbed
      BY <1>2, <2>1 DEF RequestTypes
    <2>2. CASE disturbed' = [r \in Requests |-> disturbed[r] \/ InFlight(r)]
      BY <2>2, Zenon
    <2> QED
      BY <1>7, <2>1, <2>2
  <1>9. RequestTypes' /\ Handles'
    BY <1>1, <1>2, <1>8 DEF RequestTypes, Handles
  <1>10. TypeOK'
    BY <1>2, <1>3, <1>4, <1>5, <1>6, <1>9, TypesNext
  <1>11. ASSUME NEW r \in Requests, Solo(r)'
         PROVE  FALSE
    <2>1. InFlight(r) /\ ~disturbed'[r]
      BY <1>1, <1>11 DEF Solo, InFlight
    <2>2. CASE disturbed' = disturbed /\ sweeping
      BY <2>1, <2>2 DEF Alone, Solo
    <2>3. CASE disturbed' = [q \in Requests |-> disturbed[q] \/ InFlight(q)]
      BY <2>1, <2>3
    <2> QED
      BY <1>7, <2>2, <2>3
  <1> QED
    BY <1>1, <1>3, <1>4, <1>10, <1>11, Bystanders

LEMMA CrashStep ==
  ASSUME IInv, Crash
  PROVE  IInv'
  <1> USE DEF IInv
  <1>1. /\ pc' = [r \in Requests |-> IF InFlight(r) THEN "failed" ELSE pc[r]]
        /\ left' = [r \in Requests |-> {}] /\ used' = [r \in Requests |-> {}]
        /\ fd' = [r \in Requests |-> Nil]
        /\ output' = output /\ archive' = archive /\ seal' = seal
    BY DEF Crash
  <1>2. /\ RequestTypes /\ Handles /\ DirectoryTypes /\ TempTypes /\ FailureTypes
        /\ sweeping \in BOOLEAN
    BY Types
  <1>3. FailureTypes'
    <2>1. (budget \in 0..MaxFaults)'
      BY <1>2, SpendsEffect DEF Crash, Fails, Spends
    <2>2. (marred \in [Requests -> BOOLEAN])' /\ (stray \in BOOLEAN)'
      BY Zenon DEF Crash, Strays
    <2> QED
      BY <2>1, <2>2 DEF FailureTypes
  <1>4. /\ answered' \in [Requests -> BOOLEAN] /\ disturbed' \in [Requests -> BOOLEAN]
        /\ (sweeping \in BOOLEAN)'
    BY Zenon DEF Crash
  <1>5. DirectoryTypes' /\ zip' \in Version
    <2>1. CASE Strays /\ UNCHANGED <<directory, zip>>
      <3>1. UNCHANGED directory /\ zip' = zip
        BY <2>1
      <3> QED
        BY <1>2, <3>1, DirectorySame DEF TempTypes
    <2>2. CASE dir' = Blank /\ aged' = FALSE /\ zip' = Nil
      BY <2>2 DEF DirectoryTypes, Blank, Version
    <2> QED
      BY <2>1, <2>2 DEF Crash
  <1>6. TempTypes'
    BY <1>1, <1>2, <1>5 DEF TempTypes
  <1>7. pc' \in [Requests -> Labels] /\ \A r \in Requests : pc'[r] \in {"idle"} \cup Final
    BY <1>1, <1>2 DEF RequestTypes, InFlight, Labels, Final
  <1>8. RequestTypes'
    BY <1>1, <1>2, <1>4, <1>7 DEF RequestTypes, Version
  <1>9. Handles'
    BY <1>1, <1>7 DEF Handles, Zipping, Final
  <1>10. TypeOK'
    BY <1>3, <1>4, <1>5, <1>6, <1>8, <1>9, TypesNext
  <1>11. Unstarted' /\ Held'
    <2>1. \/ zip' = zip /\ stray' = (zip # Nil)
          \/ zip' = Nil
      BY Zenon DEF Crash, Strays
    <2>2. Held'
      BY <2>1, Zenon DEF Held
    <2> QED
      BY <1>1, <2>2 DEF Unstarted
  <1>12. \A r \in Requests : ~Solo(r)'
    BY <1>7 DEF Solo, InFlight
  <1> QED
    BY <1>10, <1>11, <1>12 DEF Alone, Owns

LEMMA InvNext == IInv /\ [Next]_vars => IInv'
  <1> SUFFICES ASSUME IInv, [Next]_vars PROVE IInv'
    OBVIOUS
  <1>1. CASE \E r \in Requests : Step(r)
    BY <1>1, ClearStep, ExtractStep, CheckStep, PutScreenshotStep, RemoveZipStep, CreateStep,
       ListStep, ZipStep, OpenZipStep, PutZipStep, RemoveTempStep, RemoveDirStep DEF Step
  <1>2. CASE \E r \in Requests : \E out \in Outputs : Begin(r, out)
    BY <1>2, BeginStep
  <1>3. CASE GrowOld
    BY <1>3, GrowOldStep
  <1>4. CASE Sweep
    BY <1>4, SweepStep
  <1>5. CASE Crash
    BY <1>5, CrashStep
  <1>6. CASE UNCHANGED vars
    <2>1. /\ UNCHANGED request /\ UNCHANGED directory /\ UNCHANGED tempfile
          /\ UNCHANGED failures /\ sweeping' = sweeping
      BY <1>6 DEF vars
    <2>2. /\ pc' = pc /\ output' = output /\ left' = left /\ used' = used /\ fd' = fd
          /\ answered' = answered /\ disturbed' = disturbed
          /\ dir' = dir /\ zip' = zip /\ archive' = archive /\ seal' = seal
      BY <2>1 DEF request, directory, tempfile
    <2>3. TypeOK'
      BY <2>1, <2>2, Types, RequestSame, DirectorySame, TempSame, FailuresSame, TypesNext DEF IInv
    <2>4. marred' = marred /\ stray' = stray
      BY <2>1, Types, FailuresSame DEF IInv
    <2>5. ASSUME NEW r \in Requests, Solo(r)'
          PROVE  Solo(r) /\ ~sweeping' /\ (Own(r)' <=> Own(r))
      <3>1. Solo(r)
        BY <2>2, <2>5 DEF Solo, InFlight
      <3>2. Own(r)' <=> Own(r)
        BY <2>2 DEF Own, Part, Report, Blank
      <3> QED
        BY <2>1, <3>1, <3>2 DEF Alone, IInv
    <2> QED
      BY <2>2, <2>3, <2>4, <2>5, Bystanders
  <1> QED
    BY <1>1, <1>2, <1>3, <1>4, <1>5, <1>6 DEF Next

--------------------------------------------------------------------------------
(* The theorems. *)

\* The invariant holds in every state.
THEOREM Inductive == Spec => []IInv
  BY InvInit, InvNext, PTL DEF Spec

\* The variables have their types, and a handler holds an archive open exactly while
\* it writes or uploads it.
THEOREM TypeCorrect == Spec => []TypeOK
  <1>1. IInv => TypeOK
    BY DEF IInv
  <1> QED
    BY <1>1, Inductive, PTL

\* An archive that is there is one that some request will still remove, unless making
\* it, its last removal or the process has failed and no later request has removed it:
\* none is left when all requests are done.
THEOREM NoTempLeft == Spec => []TempZipRemoved
  <1>1. IInv => TempZipRemoved
    <2> SUFFICES ASSUME IInv, Idle, ~stray
                 PROVE  zip = Nil
      BY DEF TempZipRemoved
    <2> QED
      BY DEF IInv, Held, Idle, InFlight, Holding, Zipping, Final
  <1> QED
    BY <1>1, Inductive, PTL

\* Only a finished upload makes a request answer 200.
LEMMA OnlyUploadsReport ==
  ASSUME TypeOK, [Next]_vars, NEW r \in Requests, Reported(r)
  PROVE  PutZip(r)
  <1>1. ~answered[r] /\ answered'[r] /\ answered \in [Requests -> BOOLEAN]
    BY DEF Reported, TypeOK
  <1>2. answered' # answered
    BY <1>1
  <1>3. ASSUME NEW q \in Requests, NEW l, Return(q, l)
        PROVE  FALSE
    <2>1. answered' = [answered EXCEPT ![q] = FALSE]
      BY <1>3 DEF Return
    <2>2. CASE q = r
      BY <1>1, <2>1, <2>2
    <2>3. CASE q # r
      <3>1. answered'[r] = answered[r]
        BY <1>1, <2>1, <2>3
      <3> QED
        BY <1>1, <3>1
    <2> QED
      BY <2>2, <2>3
  <1>4. ASSUME NEW q \in Requests, Step(q)
        PROVE  PutZip(r)
    <2>1. PutZip(q)
      BY <1>2, <1>3, <1>4
      DEF Step, Clear, Extract, Check, PutScreenshot, RemoveZip, Create, List, Zip, OpenZip,
          RemoveTemp, RemoveDir, request
    <2>2. q = r
      <3>1. CASE q # r /\ answered' = [answered EXCEPT ![q] = TRUE]
        <4>1. answered'[r] = answered[r]
          BY <1>1, <3>1
        <4> QED
          BY <1>1, <4>1
      <3> QED
        BY <1>2, <2>1, <3>1 DEF PutZip
    <2> QED
      BY <2>1, <2>2
  <1>5. ASSUME Crash PROVE FALSE
    <2>1. answered' = [q \in Requests |-> FALSE]
      BY <1>5 DEF Crash
    <2> QED
      BY <1>1, <2>1
  <1> QED
    BY <1>2, <1>4, <1>5 DEF Next, Begin, GrowOld, Sweep, SweepList, SweepRemove, request, vars

\* Who answers 200, has met nobody, and has cleared the directory and closed its
\* archive, has taken its own data alone, and uploaded its report, all of it and nothing
\* else: whatever failures and crashes of others, and what other failures of its own,
\* have left in the directory and in the archive.
THEOREM OwnReport == Spec => StoresOwnReport
  <1> DEFINE Stores ==
        \A r \in Requests :
            Reported(r) /\ ~disturbed[r] /\ ~marred[r] =>
                /\ used[r] = {r}
                /\ ReportOf(r, fd[r])
                /\ seal[fd[r]] = "sealed"
  <1>1. IInv /\ [Next]_vars => Stores
    <2> SUFFICES ASSUME IInv, [Next]_vars, NEW r \in Requests, Reported(r), ~disturbed[r], ~marred[r]
                 PROVE  used[r] = {r} /\ ReportOf(r, fd[r]) /\ seal[fd[r]] = "sealed"
      OBVIOUS
    <2>1. pc[r] = "put"
      BY OnlyUploadsReport DEF PutZip, IInv
    <2>2. Own(r)
      BY <2>1 DEF IInv, Owns, Solo, InFlight, Final
    <2> QED
      BY <2>1, <2>2 DEF Own, ReportOf, Report
  <1>2. IInv /\ [Next]_vars => [Stores]_vars
    BY <1>1
  <1> QED
    BY <1>2, Inductive, PTL DEF Spec, StoresOwnReport

================================================================================
