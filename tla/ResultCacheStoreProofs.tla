------------------------- MODULE ResultCacheStoreProofs ------------------------
(***************************************************************************)
(* Theorems about what ResultCache sends to its clients: that it is never  *)
(* out of date while nothing puts it at risk, and that the cache is        *)
(* invisible behind the abstract store.                                    *)
(***************************************************************************)
EXTENDS ResultCacheStore, ResultCacheProofs

--------------------------------------------------------------------------------
(* What is sent is current.  A broken download spoils the contents of the cache, *)
(* but only by what it leaves out: the invariant of ResultCacheProofs says       *)
(* nothing of it then.                                                           *)

\* A cached copy no writer is about to unlink is current where there is anything.
Fresh ==
    \A k \in Kinds \ stale :
        cache[k] # Nil /\ ~Unclean(k)
            => \A p \in Parts : file[cache[k]][p] \in {Nil, bucket[k]}

\* So is what a reader has taken from it.
Sent ==
    /\ \A r \in Requests : pc[r] \notin Reading \cup Final => got[r] = Empty
    /\ \A r \in Requests : pc[r] \in Reading /\ Kind(r) \notin stale =>
           \A p \in Parts : got[r][p] \in {Nil, bucket[Kind(r)]}

ServedInv == IInv /\ Fresh /\ Sent

--------------------------------------------------------------------------------
(* What is sent has once been stored. *)

\* What a request is at work on tells what it is.
Roles ==
    \A r \in Requests :
        /\ pc[r] = "idle" => op[r] = Nil
        /\ pc[r] = "putZip" => op[r] = "HandleAnalyze"
        /\ pc[r] = "delPng" => op[r] = "HandleDeleteResult"

\* All data of kind k, wherever it is, has been in the bucket as kind k.
Remembered ==
    /\ past \in [Kinds -> SUBSET (Requests \cup {Old})]
    /\ \A k \in Kinds : bucket[k] \in past[k] \cup {Nil}
    /\ \A r \in Requests : obj[r] \in past[Kind(r)] \cup {Nil}
    /\ \A i \in Requests, p \in Parts :
           file[i][p] # Nil => pc[i] # "idle" /\ file[i][p] \in past[Kind(i)]
    /\ \A r \in Requests, p \in Parts : got[r][p] \in past[Kind(r)] \cup {Nil}

StoreInv == ServedInv /\ Roles /\ Remembered

--------------------------------------------------------------------------------
(* ServedInv is inductive. *)

\* A reader finds what is current, or nothing: no writer is there to unlink it.
LEMMA FoundCurrent ==
  ASSUME IInv, Fresh, NEW r \in Requests, Kind(r) \notin stale, pc[r] \in ReadPc,
         cache[Kind(r)] # Nil, NEW p \in Parts
  PROVE  file[cache[Kind(r)]][p] \in {Nil, bucket[Kind(r)]}
  <1>1. ~Unclean(Kind(r))
    BY KindType DEF IInv, Exclusion, Unclean, Owing, WritePc, Kinds
  <1> QED
    BY <1>1, KindType DEF Fresh

\* And it reads that file, whatever has been truncated since it opened it.
LEMMA OpenedCurrent ==
  ASSUME IInv, Fresh, NEW r \in Requests, Kind(r) \notin stale, pc[r] \in Reading,
         NEW p \in Parts
  PROVE  file[fd[r]][p] \in {Nil, bucket[Kind(r)]}
  <1>1. fd[r] = cache[Kind(r)] /\ fd[r] # Nil /\ pc[r] \in ReadPc
    BY DEF IInv, Downloads, Current, TypeOK, HandleDiscipline, Reading, ReadPc
  <1> QED
    BY <1>1, FoundCurrent

LEMMA FreshStep ==
  ASSUME IInv, Fresh, NEW r \in Requests, Step(r)
  PROVE  Fresh'
  <1> SUFFICES ASSUME NEW k \in Kinds, k \notin stale', cache'[k] # Nil, ~Unclean(k)',
                      NEW p \in Parts
               PROVE  file'[cache'[k]][p] \in {Nil, bucket'[k]}
    BY DEF Fresh
  <1>1. k \notin stale /\ ~Unclean(k)
    BY Heals, StillClean DEF IInv
  <1>2. bucket'[k] = bucket[k]
    BY BucketStep DEF IInv, Unclean
  <1>3. /\ file \in [Requests -> [Parts -> Version]] /\ cache \in [Kinds -> Inode]
        /\ fd \in [Requests -> Inode] /\ HandleDiscipline
    BY DEF IInv, TypeOK
  <1>4. cache[k] # Nil => file[cache[k]][p] \in {Nil, bucket[k]}
    BY <1>1 DEF Fresh
  <1>5. CASE Create(r)
    <2> DEFINE i == Created(r)
    <2>0. CASE UNCHANGED <<cache, file>>
      BY <1>2, <1>4, <2>0
    <2>1. \/ UNCHANGED <<cache, file>>
          \/ /\ cache' = [cache EXCEPT ![Kind(r)] = i] /\ file' = [file EXCEPT ![i] = Empty]
      BY <1>5, Zenon DEF Create, Truncated
    <2>2. i \in Requests
      BY <1>3, KindType DEF Created, Inode
    <2>3. CASE k = Kind(r) /\ ~UNCHANGED <<cache, file>>
      <3>1. cache'[k] = i /\ file'[i] = Empty
        BY <1>3, <2>1, <2>2, <2>3
      <3> QED
        BY <3>1 DEF Empty
    <2>4. CASE k # Kind(r) /\ ~UNCHANGED <<cache, file>>
      <3>1. cache'[k] = cache[k]
        BY <1>3, <2>1, <2>4
      <3>2. cache[k] # i
        BY <1>3, <2>4, <3>1, KindType DEF IInv, Inodes, Owned, Created
      <3>3. file'[cache[k]] = file[cache[k]]
        BY <1>3, <2>1, <3>1, <3>2 DEF Inode
      <3> QED
        BY <1>2, <1>4, <3>1, <3>3
    <2> QED
      BY <2>0, <2>3, <2>4
  <1>6. CASE Copy(r)
    <2>1. PICK x \in Parts : file' = [file EXCEPT ![fd[r]][x] = obj[r]]
      BY <1>6 DEF Copy, Parts
    <2>2. cache' = cache /\ pc[r] \in Copying
      BY <1>6 DEF Copy, At, Copying
    <2>3. fd[r] # Nil /\ fd[r] \in Requests /\ cache[k] \in Requests
      BY <1>3, <2>2 DEF HandleDiscipline, Inode
    <2>4. fd[r] = cache[k] => obj[r] = bucket[k]
      BY <1>1, <2>2, <2>3 DEF IInv, Inodes, Owned, Downloads, Current, Loading
    <2>5. \/ file'[cache[k]][p] = file[cache[k]][p]
          \/ fd[r] = cache[k] /\ file'[cache[k]][p] = obj[r]
      BY <1>3, <2>1, <2>3
    <2> QED
      BY <1>2, <1>4, <2>2, <2>4, <2>5
  <1>7. CASE ~(Create(r) \/ Copy(r))
    <2>1. cache'[k] = cache[k] /\ file' = file
      <3>1. CASE CleanCache(r)
        BY <1>3, <3>1 DEF CleanCache, Unlink, Kinds
      <3>2. CASE ~CleanCache(r)
        BY <1>7, <3>2, Zenon DEF Step, Stat, GetObject, CopyFails, Open, Read,
           PutScreenshot, PutZip, DeleteZip, DeletePng
      <3> QED
        BY <3>1, <3>2
    <2> QED
      BY <1>2, <1>4, <2>1
  <1> QED
    BY <1>5, <1>6, <1>7

\* What a step does to what its request has read.
LEMMA GotStep ==
  ASSUME IInv, NEW r \in Requests, Step(r)
  PROVE  /\ \A q \in Requests : q # r => got'[q] = got[q]
         /\ \/ got' = got /\ ~Read(r) /\ pc'[r] \notin {"readTail"}
            \/ /\ Open(r) /\ pc[r] = "open" /\ pc'[r] = "readBody" /\ cache[Kind(r)] # Nil
               /\ got'[r] = [got[r] EXCEPT !["tail"] = file[cache[Kind(r)]]["tail"]]
            \/ /\ Read(r) /\ pc[r] = "readBody" /\ pc'[r] \in {"ok", "readTail"}
               /\ got'[r] = [got[r] EXCEPT !["body"] = file[fd[r]]["body"]]
            \/ Read(r) /\ pc[r] = "readBody" /\ pc'[r] = "failed" /\ got' = got
            \/ /\ Read(r) /\ pc[r] = "readTail" /\ pc'[r] = "ok"
               /\ got'[r] = [got[r] EXCEPT !["tail"] = file[fd[r]]["tail"]]
  <1>1. got \in [Requests -> [Parts -> Version]] /\ pc \in [Requests -> Labels]
    BY DEF IInv, TypeOK
  <1>2. CASE Open(r)
    <2>1. pc[r] = "open" /\ pc'[r] \in {"readBody", "failed"} /\ ~Read(r)
      BY <1>1, <1>2 DEF Open, At, Goto, Read
    <2>2. \/ got' = got
          \/ /\ cache[Kind(r)] # Nil /\ pc' = [pc EXCEPT ![r] = "readBody"]
             /\ got' = [got EXCEPT ![r]["tail"] = file[cache[Kind(r)]]["tail"]]
      BY <1>2 DEF Open, Goto
    <2> QED
      BY <1>1, <1>2, <2>1, <2>2
  <1>3. CASE Read(r)
    <2>1. \/ /\ pc[r] = "readBody" /\ \E l \in {"ok", "readTail"} : pc' = [pc EXCEPT ![r] = l]
             /\ got' = [got EXCEPT ![r]["body"] = file[fd[r]]["body"]]
          \/ /\ pc[r] = "readBody" /\ pc' = [pc EXCEPT ![r] = "failed"] /\ got' = got
          \/ /\ pc[r] = "readTail" /\ pc' = [pc EXCEPT ![r] = "ok"]
             /\ got' = [got EXCEPT ![r]["tail"] = file[fd[r]]["tail"]]
      BY <1>3 DEF Read, At, Goto
    <2> QED
      BY <1>1, <1>3, <2>1
  <1>4. CASE ~(Open(r) \/ Read(r))
    <2>1. got' = got
      BY <1>4, Zenon DEF Step, Stat, GetObject, Create, Copy, CopyFails, PutScreenshot, PutZip,
         DeleteZip, DeletePng, CleanCache
    <2>2. \E l \in Labels \ {"readTail"} : Goto(r, l)
      BY <1>4 DEF Step, Stat, GetObject, Create, Copy, CopyFails, PutScreenshot, PutZip,
         DeleteZip, DeletePng, CleanCache, Labels, Copying, Final
    <2> QED
      BY <1>1, <1>4, <2>1, <2>2 DEF Goto
  <1> QED
    BY <1>2, <1>3, <1>4

\* A request that is reading has begun as a reader, and while no writer has met it the
\* bucket stays as it is.
LEMMA ReadingSteady ==
  ASSUME IInv, NEW r \in Requests, Step(r), NEW q \in Requests, Kind(q)' \notin stale',
         pc'[q] \in Reading \/ (pc[q] \in Reading /\ pc'[q] = "ok")
  PROVE  /\ Kind(q) \notin stale /\ bucket' = bucket
         /\ Kind(q)' = Kind(q) /\ pc[q] \in ReadPc
  <1>1. pc[q] \in ReadPc /\ op'[q] = op[q]
    BY Moves DEF IInv, TypeOK, Goto, Begin, Final, Reading, ReadPc, WritePc, Loading, Copying
  <1>2. Kind(q)' = Kind(q)
    BY <1>1 DEF Kind
  <1>3. Kind(q) \notin stale
    BY <1>1, <1>2, Heals, KindType DEF IInv
  <1>4. pc[r] \notin WritePc
    BY <1>1, <1>3 DEF IInv, Exclusion
  <1>5. pc'[r] \notin WritePc
    <2>1. CASE pc'[q] \in Reading
      BY <2>1, ExclusionStep DEF IInv, Exclusion, ReadPc
    <2>2. CASE pc[q] \in Reading /\ pc'[q] = "ok"
      BY <2>2, Frame DEF IInv, Reading, WritePc
    <2> QED
      BY <2>1, <2>2
  <1>6. bucket' = bucket
    BY <1>4, <1>5, BucketOnly DEF IInv
  <1> QED
    BY <1>1, <1>2, <1>3, <1>6

\* Unless the copy may be stale, what a reader adds to what it has read is current.
LEMMA GotCurrent ==
  ASSUME IInv, Fresh, Sent, NEW r \in Requests, Step(r),
         NEW q \in Requests, Kind(q)' \notin stale',
         pc'[q] \in Reading \/ (pc[q] \in Reading /\ pc'[q] = "ok"),
         NEW p \in Parts
  PROVE  got'[q][p] \in {Nil, bucket'[Kind(q)']}
  <1>1. /\ Kind(q) \notin stale /\ bucket' = bucket
        /\ Kind(q)' = Kind(q) /\ pc[q] \in ReadPc
    BY ReadingSteady
  <1>2. got[q] \in [Parts -> Version]
    BY DEF IInv, TypeOK
  <1>3. got[q][p] \in {Nil, bucket[Kind(q)]}
    <2>1. CASE pc[q] \in Reading
      BY <1>1, <2>1 DEF Sent
    <2>2. CASE pc[q] \notin Reading
      BY <1>1, <2>2 DEF Sent, ReadPc, Loading, Copying, Final, Empty
    <2> QED
      BY <2>1, <2>2
  <1>4. CASE q = r
    <2>1. /\ "tail" \in Parts /\ "body" \in Parts
      BY DEF Parts
    <2>2. cache[Kind(q)] # Nil => file[cache[Kind(q)]]["tail"] \in {Nil, bucket[Kind(q)]}
      BY <1>1, <2>1, FoundCurrent
    <2>3. pc[q] \in Reading => \A x \in Parts : file[fd[q]][x] \in {Nil, bucket[Kind(q)]}
      BY <1>1, OpenedCurrent
    <2>4. got'[q][p] \in {got[q][p]} \cup {Nil, bucket[Kind(q)]}
      <3>1. CASE got' = got
        BY <3>1
      <3>2. CASE /\ cache[Kind(r)] # Nil
                 /\ got'[r] = [got[r] EXCEPT !["tail"] = file[cache[Kind(r)]]["tail"]]
        BY <1>2, <1>4, <2>1, <2>2, <3>2
      <3>3. CASE /\ pc[r] = "readBody"
                 /\ got'[r] = [got[r] EXCEPT !["body"] = file[fd[r]]["body"]]
        BY <1>2, <1>4, <2>1, <2>3, <3>3 DEF Reading
      <3>4. CASE /\ pc[r] = "readTail"
                 /\ got'[r] = [got[r] EXCEPT !["tail"] = file[fd[r]]["tail"]]
        BY <1>2, <1>4, <2>1, <2>3, <3>4 DEF Reading
      <3> QED
        BY <3>1, <3>2, <3>3, <3>4, GotStep
    <2> QED
      BY <1>1, <1>3, <2>4
  <1>5. CASE q # r
    BY <1>1, <1>3, <1>5, GotStep
  <1> QED
    BY <1>4, <1>5

LEMMA SentStep ==
  ASSUME IInv, Fresh, Sent, NEW r \in Requests, Step(r)
  PROVE  Sent'
  <1>1. ASSUME NEW q \in Requests, pc'[q] \notin Reading \cup Final
        PROVE  got'[q] = Empty
    <2>1. CASE q # r
      <3>1. pc'[q] = pc[q] /\ got'[q] = got[q]
        BY <2>1, Frame, GotStep DEF IInv
      <3> QED
        BY <1>1, <3>1 DEF Sent
    <2>2. CASE q = r
      <3>1. got'[r] = got[r] /\ ~Read(r)
        BY <1>1, <2>2, GotStep DEF Reading, Final
      <3>2. pc[r] \notin Final
        BY Moves DEF IInv, Final, ReadPc, WritePc, Loading, Copying, Reading
      <3>3. pc[r] \notin Reading
        BY <3>1 DEF Reading, Step, Stat, GetObject, Create, Copy, CopyFails, Open,
           PutScreenshot, PutZip, DeleteZip, DeletePng, CleanCache, Begin, At, Copying
      <3> QED
        BY <2>2, <3>1, <3>2, <3>3 DEF Sent
    <2> QED
      BY <2>1, <2>2
  <1> QED
    BY <1>1, GotCurrent DEF Sent

LEMMA ServedInit == Init => ServedInv
  BY InductiveInit DEF Init, ServedInv, Fresh, Sent, Reading, Final

\* A crash leaves the copies as they are, and takes note of those that were to be
\* unlinked; what has been read stays.
LEMMA ServedCrash ==
  ASSUME ServedInv, Crash
  PROVE  ServedInv'
  <1>1. IInv'
    BY InductiveCrash DEF ServedInv
  <1>2. \A q \in Requests : pc'[q] \notin Reading \cup Final => pc[q] = "idle" /\ got'[q] = got[q]
    BY DEF Crash, InFlight, Final, Reading
  <1>3. \A q \in Requests : pc'[q] \notin Reading \cup Final => got'[q] = Empty
    BY <1>2 DEF ServedInv, Sent, Reading, Final
  <1>4. \A q \in Requests : pc'[q] \notin Reading
    BY DEF Crash, InFlight, Final, Reading
  <1>5. Fresh'
    <2> SUFFICES ASSUME NEW k \in Kinds, k \notin stale', cache'[k] # Nil, NEW p \in Parts
                 PROVE  file'[cache'[k]][p] \in {Nil, bucket'[k]}
      BY DEF Fresh
    <2>1. /\ UNCHANGED <<cache, bucket, file>>
          /\ stale' = stale \cup {j \in {c \in Kinds : Unclean(c)} : cache[j] # Nil}
      BY DEF Crash, Left
    <2> QED
      BY <2>1 DEF ServedInv, Fresh
  <1> QED
    BY <1>1, <1>3, <1>4, <1>5 DEF ServedInv, Sent

LEMMA ServedStutter ==
  ASSUME ServedInv, UNCHANGED vars
  PROVE  ServedInv'
  <1>1. IInv'
    BY InductiveStutter DEF ServedInv
  <1>2. Fresh' /\ Sent'
    BY DEF ServedInv, Fresh, Sent, Unclean, Kind, vars, history
  <1> QED
    BY <1>1, <1>2 DEF ServedInv

LEMMA ServedNext == ServedInv /\ [Next]_vars => ServedInv'
  <1>1. ASSUME ServedInv, NEW r \in Requests, Step(r)
        PROVE  ServedInv'
    BY <1>1, InductiveStep, FreshStep, SentStep DEF ServedInv
  <1> QED
    BY <1>1, ServedCrash, ServedStutter DEF Next

\* Only reading makes a reader answer with status 200.
LEMMA AnswersByReading ==
  ASSUME IInv, [Next]_vars, NEW r \in Requests, Answers(r), op[r] \in Readers
  PROVE  Read(r) /\ pc[r] \in Reading
  <1>1. pc \in [Requests -> Labels] /\ pc[r] # "ok" /\ pc'[r] = "ok"
    BY DEF IInv, TypeOK, Answers
  <1>2. ~(UNCHANGED vars) /\ ~Crash
    BY <1>1 DEF vars, history, Crash, InFlight
  <1>3. PICK q \in Requests : Step(q)
    BY <1>2 DEF Next
  <1>4. q = r
    BY <1>1, <1>3, Frame DEF IInv
  <1>5. pc[r] \notin WritePc
    BY DEF IInv, Classes, Readers, Writers
  <1> QED
    BY <1>1, <1>3, <1>4, <1>5 DEF Step, Stat, GetObject, Create, Copy, CopyFails, Open, Read,
       PutScreenshot, PutZip, DeleteZip, DeletePng, CleanCache, Begin, At, Goto, Reading, WritePc

--------------------------------------------------------------------------------
(* The first theorem. *)

\* The invariant holds in every state.
THEOREM ServedInductive == Spec => []ServedInv
  BY ServedInit, ServedNext, PTL DEF Spec

\* Whatever the number of requests, their interleaving and the calls that fail: a
\* download with status 200 sends nothing of a version that the bucket does not hold
\* any more, unless the cached copy of that kind may be stale.
THEOREM ServesCurrent == Spec => ServedCurrent
  <1> DEFINE AllCurrent ==
        \A r \in Requests :
            Answers(r) /\ op[r] \in Readers /\ Kind(r) \notin stale
            => \A p \in Parts : got'[r][p] \in {Nil, bucket[Kind(r)]}
  <1>1. ServedInv /\ [Next]_vars => [AllCurrent]_vars
    <2> SUFFICES ASSUME ServedInv, [Next]_vars, NEW r \in Requests,
                        Answers(r), op[r] \in Readers, Kind(r) \notin stale, NEW p \in Parts
                 PROVE  got'[r][p] \in {Nil, bucket[Kind(r)]}
      OBVIOUS
    <2>1. Read(r) /\ pc[r] \in Reading /\ Step(r) /\ pc'[r] = "ok"
      BY AnswersByReading DEF ServedInv, Step, Answers
    <2>2. stale' = stale /\ bucket' = bucket /\ Kind(r)' = Kind(r)
      BY <2>1 DEF Read, At, Kind, history
    <2> QED
      BY <2>1, <2>2, GotCurrent DEF ServedInv
  <1> QED
    BY <1>1, ServedInductive, PTL DEF Spec, ServedCurrent

--------------------------------------------------------------------------------
(* StoreInv is inductive. *)

\* A request that has begun is what it is from then on.
LEMMA RoleKept ==
  ASSUME IInv, NEW r \in Requests, Step(r), NEW q \in Requests
  PROVE  /\ q # r => op'[q] = op[q] /\ Kind(q)' = Kind(q) /\ pc'[q] = pc[q]
         /\ pc[q] # "idle" => op'[q] = op[q] /\ Kind(q)' = Kind(q)
         /\ pc'[r] # "idle"
  <1>1. /\ q # r => op'[q] = op[q] /\ pc'[q] = pc[q]
        /\ pc[q] # "idle" => op'[q] = op[q]
        /\ pc'[r] # "idle"
    BY Moves, Frame DEF IInv, TypeOK, Begin, Goto, Final, ReadPc, WritePc, Loading, Reading, Copying
  <1> QED
    BY <1>1 DEF Kind

LEMMA RolesStep ==
  ASSUME IInv, Roles, NEW r \in Requests, Step(r)
  PROVE  Roles'
  <1> SUFFICES ASSUME NEW q \in Requests
               PROVE  /\ pc'[q] = "idle" => op'[q] = Nil
                      /\ pc'[q] = "putZip" => op'[q] = "HandleAnalyze"
                      /\ pc'[q] = "delPng" => op'[q] = "HandleDeleteResult"
    BY DEF Roles
  <1>1. CASE q # r
    BY <1>1, RoleKept DEF Roles
  <1>2. CASE q = r
    <2>1. op \in [Requests -> Readers \cup Writers \cup {Nil}] /\ pc \in [Requests -> Labels]
      BY DEF IInv, TypeOK
    <2>2. CASE PutScreenshot(r) \/ DeleteZip(r)
      BY <1>2, <2>1, <2>2 DEF PutScreenshot, DeleteZip, Begin, Goto
    <2>3. CASE ~(PutScreenshot(r) \/ DeleteZip(r))
      <3>1. pc'[r] \notin {"putZip", "delPng"}
        BY <2>1, <2>3 DEF Step, Stat, GetObject, Create, Copy, CopyFails, Open, Read,
           PutZip, DeletePng, CleanCache, Goto
      <3> QED
        BY <1>2, <3>1, RoleKept
    <2> QED
      BY <2>2, <2>3
  <1> QED
    BY <1>1, <1>2

\* The past grows by what the bucket holds.
LEMMA PastStep ==
  ASSUME TypeOK', Remembered, PastNext
  PROVE  /\ past' \in [Kinds -> SUBSET (Requests \cup {Old})]
         /\ \A k \in Kinds : past[k] \subseteq past'[k] /\ bucket'[k] \in past'[k] \cup {Nil}
         /\ (\A k \in Kinds : bucket'[k] \in {Nil, bucket[k]}) => past' = past
  <1>1. bucket' \in [Kinds -> Version] /\ past \in [Kinds -> SUBSET (Requests \cup {Old})]
    BY DEF TypeOK, Remembered
  <1>2. past' = [k \in Kinds |-> past[k] \cup ({bucket'[k]} \ {Nil})]
    BY DEF PastNext
  <1>3. ASSUME \A k \in Kinds : bucket'[k] \in {Nil, bucket[k]}
        PROVE  past' = past
    <2>1. \A k \in Kinds : past[k] \cup ({bucket'[k]} \ {Nil}) = past[k]
      BY <1>3 DEF Remembered
    <2> QED
      BY <1>1, <1>2, <2>1
  <1>4. past' \in [Kinds -> SUBSET (Requests \cup {Old})]
    BY <1>1, <1>2 DEF Version, Inode
  <1>5. \A k \in Kinds : past[k] \subseteq past'[k] /\ bucket'[k] \in past'[k] \cup {Nil}
    BY <1>2
  <1> QED
    BY <1>3, <1>4, <1>5

\* What is in a file that is cached or open is of the kind of the file.
LEMMA FileRemembered ==
  ASSUME IInv, Remembered, NEW p \in Parts
  PROVE  /\ \A k \in Kinds : cache[k] # Nil => file[cache[k]][p] \in past[k] \cup {Nil}
         /\ \A r \in Requests : fd[r] # Nil => file[fd[r]][p] \in past[Kind(r)] \cup {Nil}
  BY DEF IInv, Inodes, Owned, Remembered

LEMMA FileStep ==
  ASSUME IInv, Remembered, NEW r \in Requests, Step(r),
         NEW i \in Requests, NEW p \in Parts, file'[i][p] # Nil
  PROVE  /\ pc[i] # "idle"
         /\ file'[i][p] \in past[Kind(i)]
  <1>1. file \in [Requests -> [Parts -> Version]] /\ HandleDiscipline
    BY DEF IInv, TypeOK
  <1>2. CASE file'[i][p] = file[i][p]
    BY <1>2 DEF Remembered
  <1>3. CASE Create(r)
    <2>1. CASE i = Created(r)
      BY <1>1, <1>2, <1>3, <2>1 DEF Create, Truncated, Empty
    <2>2. CASE i # Created(r)
      BY <1>1, <1>2, <1>3, <2>2 DEF Create, Truncated
    <2> QED
      BY <2>1, <2>2
  <1>4. CASE Copy(r) /\ file'[i][p] # file[i][p]
    <2>1. PICK x \in Parts : file' = [file EXCEPT ![fd[r]][x] = obj[r]]
      BY <1>4 DEF Copy, Parts
    <2>2. i = fd[r] /\ file'[i][p] = obj[r]
      BY <1>1, <1>4, <2>1
    <2>3. fd[r] # Nil
      BY <1>1, <1>4 DEF Copy, At, HandleDiscipline, Copying
    <2>4. pc[i] # "idle" /\ Kind(i) = Kind(r)
      BY <2>2, <2>3 DEF IInv, Inodes, Owned
    <2>5. obj[r] \in past[Kind(r)] \cup {Nil}
      BY DEF Remembered
    <2> QED
      BY <2>2, <2>4, <2>5
  <1>5. CASE ~(Create(r) \/ Copy(r))
    <2>1. file' = file
      BY <1>5, Zenon DEF Step, Stat, GetObject, CopyFails, Open, Read,
         PutScreenshot, PutZip, DeleteZip, DeletePng, CleanCache
    <2> QED
      BY <1>2, <2>1
  <1> QED
    BY <1>2, <1>3, <1>4, <1>5

LEMMA ObjStep ==
  ASSUME IInv, Remembered, NEW r \in Requests, Step(r), NEW q \in Requests
  PROVE  \/ obj'[q] = Nil
         \/ pc[q] # "idle" /\ obj'[q] \in past[Kind(q)] \cup {Nil}
  <1>1. obj \in [Requests -> Version] /\ HandleDiscipline /\ obj[q] \in past[Kind(q)] \cup {Nil}
    BY DEF IInv, TypeOK, Remembered
  <1>2. obj[q] # Nil => pc[q] # "idle"
    BY <1>1 DEF HandleDiscipline, Copying
  <1>3. CASE GetObject(r) /\ q = r
    <2>1. bucket[Kind(r)] \in past[Kind(r)] \cup {Nil}
      BY KindType DEF Remembered
    <2> QED
      BY <1>1, <1>2, <1>3, <2>1 DEF GetObject, At
  <1>4. CASE q # r
    BY <1>1, <1>2, <1>4, Frame DEF IInv
  <1>5. CASE ~GetObject(r)
    <2>1. obj' = obj \/ obj' = [obj EXCEPT ![r] = Nil]
      BY <1>5, Zenon DEF Step, Stat, Create, Copy, CopyFails, Open, Read,
         PutScreenshot, PutZip, DeleteZip, DeletePng, CleanCache
    <2> QED
      BY <1>1, <1>2, <2>1
  <1> QED
    BY <1>3, <1>4, <1>5

LEMMA RememberedStep ==
  ASSUME StoreInv, NEW r \in Requests, Step(r), PastNext
  PROVE  Remembered'
  <1>0. IInv /\ Sent /\ Remembered /\ TypeOK'
    BY InductiveStep DEF StoreInv, ServedInv, IInv
  <1>1. /\ past' \in [Kinds -> SUBSET (Requests \cup {Old})]
        /\ \A k \in Kinds : past[k] \subseteq past'[k] /\ bucket'[k] \in past'[k] \cup {Nil}
    BY <1>0, PastStep
  <1>2. \A q \in Requests : pc[q] # "idle" => past[Kind(q)] \subseteq past'[Kind(q)']
    BY <1>0, <1>1, RoleKept, KindType
  <1>3. \A q \in Requests : obj'[q] \in past'[Kind(q)'] \cup {Nil}
    BY <1>0, <1>2, ObjStep
  <1>4. ASSUME NEW i \in Requests, NEW p \in Parts, file'[i][p] # Nil
        PROVE  pc'[i] # "idle" /\ file'[i][p] \in past'[Kind(i)']
    BY <1>0, <1>2, <1>4, FileStep, RoleKept
  <1>5. ASSUME NEW q \in Requests, NEW p \in Parts
        PROVE  got'[q][p] \in past'[Kind(q)'] \cup {Nil}
    <2>1. got[q] \in [Parts -> Version] /\ got[q][p] \in past[Kind(q)] \cup {Nil}
      BY <1>0 DEF IInv, TypeOK, Remembered
    <2>2. CASE pc[q] = "idle"
      <3>1. got[q] = Empty
        BY <1>0, <2>2 DEF Sent, Reading, Final
      <3>2. got'[q] = got[q]
        BY <1>0, <2>2, GotStep
      <3> QED
        BY <3>1, <3>2 DEF Empty
    <2>3. CASE pc[q] # "idle"
      <3>1. /\ "tail" \in Parts /\ "body" \in Parts
        BY DEF Parts
      <3>2. cache[Kind(q)] # Nil => file[cache[Kind(q)]]["tail"] \in past[Kind(q)] \cup {Nil}
        BY <1>0, <3>1, FileRemembered, KindType
      <3>3. pc[q] \in Reading => \A x \in Parts : file[fd[q]][x] \in past[Kind(q)] \cup {Nil}
        BY <1>0, FileRemembered DEF IInv, TypeOK, HandleDiscipline, Reading
      <3>4. got'[q][p] \in past[Kind(q)] \cup {Nil}
        <4>1. CASE q = r
          <5>1. got'[r][p] \in {got[r][p]} \cup past[Kind(q)] \cup {Nil}
            <6>1. /\ got[r] \in [Parts -> Version]
                  /\ cache[Kind(r)] # Nil =>
                        file[cache[Kind(r)]]["tail"] \in past[Kind(q)] \cup {Nil}
                  /\ pc[r] \in {"readBody", "readTail"} =>
                        \A x \in {"tail", "body"} : file[fd[r]][x] \in past[Kind(q)] \cup {Nil}
              BY <2>1, <3>1, <3>2, <3>3, <4>1 DEF Reading
            <6>2. CASE got' = got
              BY <6>2
            <6>3. CASE /\ cache[Kind(r)] # Nil
                       /\ got'[r] = [got[r] EXCEPT !["tail"] = file[cache[Kind(r)]]["tail"]]
              BY <6>1, <6>3
            <6>4. CASE /\ pc[r] = "readBody"
                       /\ got'[r] = [got[r] EXCEPT !["body"] = file[fd[r]]["body"]]
              BY <6>1, <6>4
            <6>5. CASE /\ pc[r] = "readTail"
                       /\ got'[r] = [got[r] EXCEPT !["tail"] = file[fd[r]]["tail"]]
              BY <6>1, <6>5
            <6> QED
              BY <1>0, <6>2, <6>3, <6>4, <6>5, GotStep
          <5> QED
            BY <2>1, <4>1, <5>1
        <4>2. CASE q # r
          BY <1>0, <2>1, <4>2, GotStep
        <4> QED
          BY <4>1, <4>2
      <3> QED
        BY <1>2, <2>3, <3>4
    <2> QED
      BY <2>2, <2>3
  <1> QED
    BY <1>1, <1>3, <1>4, <1>5 DEF Remembered

RecordedVars == <<vars, past>>

LEMMA StoreInvInit == Init /\ PastInit => StoreInv
  <1> SUFFICES ASSUME Init, PastInit PROVE StoreInv
    OBVIOUS
  <1>1. Roles /\ Remembered
    BY DEF Init, PastInit, Roles, Remembered, Empty
  <1> QED
    BY <1>1, ServedInit DEF StoreInv

LEMMA StoreInvCrash ==
  ASSUME StoreInv, Crash, PastNext
  PROVE  StoreInv'
  <1>1. ServedInv' /\ TypeOK'
    BY ServedCrash DEF StoreInv, ServedInv, IInv
  <1>2. /\ past' \in [Kinds -> SUBSET (Requests \cup {Old})]
        /\ \A k \in Kinds : past[k] \subseteq past'[k] /\ bucket'[k] \in past'[k] \cup {Nil}
    BY <1>1, PastStep DEF StoreInv
  <1>3. /\ op' = op /\ got' = got /\ file' = file /\ obj' = [r \in Requests |-> Nil]
        /\ pc' = [r \in Requests |-> IF InFlight(r) THEN "failed" ELSE pc[r]]
    BY DEF Crash
  <1>4. \A r \in Requests : past[Kind(r)] \subseteq past'[Kind(r)'] /\ Kind(r)' = Kind(r)
    BY <1>2, <1>3, KindType DEF Kind
  <1>5. Roles'
    BY <1>3 DEF StoreInv, Roles, InFlight, Final
  <1>6. \A i \in Requests, p \in Parts :
           file'[i][p] # Nil => pc'[i] # "idle" /\ file'[i][p] \in past'[Kind(i)']
    BY <1>3, <1>4 DEF StoreInv, Remembered, InFlight
  <1>7. /\ \A r \in Requests : obj'[r] \in past'[Kind(r)'] \cup {Nil}
        /\ \A r \in Requests, p \in Parts : got'[r][p] \in past'[Kind(r)'] \cup {Nil}
    BY <1>3, <1>4 DEF StoreInv, Remembered
  <1>8. Remembered'
    BY <1>2, <1>6, <1>7 DEF Remembered
  <1> QED
    BY <1>1, <1>5, <1>8 DEF StoreInv

LEMMA StoreInvNext == StoreInv /\ [Next /\ PastNext]_RecordedVars => StoreInv'
  <1>1. ASSUME StoreInv, NEW r \in Requests, Step(r), PastNext
        PROVE  StoreInv'
    <2>1. ServedInv'
      BY <1>1, ServedNext DEF StoreInv, Next
    <2> QED
      BY <1>1, <2>1, RolesStep, RememberedStep DEF StoreInv, ServedInv
  <1>2. ASSUME StoreInv, UNCHANGED RecordedVars
        PROVE  StoreInv'
    <2>1. UNCHANGED vars /\ past' = past
      BY <1>2 DEF RecordedVars
    <2>2. bucket' = bucket /\ file' = file /\ op' = op /\ pc' = pc /\ obj' = obj /\ got' = got
      BY <2>1 DEF vars, history
    <2> QED
      BY <1>2, <2>1, <2>2, ServedStutter DEF StoreInv, Roles, Remembered, Kind
  <1> QED
    BY <1>1, <1>2, StoreInvCrash DEF Next

--------------------------------------------------------------------------------
(* The refinement. *)

\* What the clients have been answered.
Shown == [r \in Requests |-> IF Answered(r) THEN got[r] ELSE Nil]

\* A request is answered by its last reading step, and only its own answer changes.
LEMMA ShownStep ==
  ASSUME IInv, NEW r \in Requests, Step(r)
  PROVE  IF Read(r) /\ pc'[r] = "ok"
         THEN Shown[r] = Nil /\ op[r] \in Readers /\ Shown' = [Shown EXCEPT ![r] = got'[r]]
         ELSE Shown' = Shown
  <1>1. ASSUME NEW q \in Requests, q # r
        PROVE  Shown'[q] = Shown[q]
    BY <1>1, RoleKept, GotStep DEF Shown, Answered
  <1>2. pc[r] \notin Final
    BY Moves DEF IInv, Final, ReadPc, WritePc, Loading, Copying, Reading
  <1>3. Shown[r] = Nil
    BY <1>2 DEF Shown, Answered, Final
  <1>4. CASE Read(r) /\ pc'[r] = "ok"
    <2>1. op[r] \in Readers /\ op' = op
      BY <1>4 DEF Read, At, IInv, Classes, ReadPc, Reading
    <2>2. Shown'[r] = got'[r]
      BY <1>4, <2>1 DEF Shown, Answered
    <2> QED
      BY <1>1, <1>3, <1>4, <2>1, <2>2 DEF Shown
  <1>5. CASE ~(Read(r) /\ pc'[r] = "ok")
    <2>1. ~Answered(r)'
      <3> SUFFICES ASSUME pc'[r] = "ok", op'[r] \in Readers
                   PROVE  FALSE
        BY DEF Answered
      <3>1. pc[r] # "idle"
        BY Moves DEF IInv, TypeOK, Goto, ReadPc, WritePc, Loading, Copying, Reading
      <3>2. op[r] \in Readers
        BY <3>1, RoleKept
      <3> QED
        BY <1>2, <1>5, <3>2, AnswersByReading DEF Answers, Next, Final
    <2>2. Shown'[r] = Nil
      BY <2>1 DEF Shown
    <2> QED
      BY <1>1, <1>3, <1>5, <2>2 DEF Shown
  <1> QED
    BY <1>4, <1>5

\* Only unlinking the copies makes a kind safe again.
LEMMA RiskStep ==
  ASSUME IInv, NEW r \in Requests, Step(r), ~CleanCache(r)
  PROVE  stale \subseteq stale'
  BY Heals DEF IInv, TypeOK

LEMMA StoreInit == Init /\ PastInit => Store!Init
  <1> SUFFICES ASSUME Init, PastInit PROVE Store!Init
    OBVIOUS
  <1>1. Store!Kinds = Kinds
    BY DEF Store!Kinds, Kinds
  <1>2. [r \in Requests |-> IF Answered(r) THEN got[r] ELSE Nil] = [r \in Requests |-> Nil]
    BY DEF Init, Answered
  <1>3. bucket \in [Kinds -> {Old, Nil}] /\ stale = {} /\ op = [r \in Requests |-> Nil]
    BY DEF Init
  <1>4. past = [k \in Kinds |-> {bucket[k]} \ {Nil}]
    BY DEF PastInit
  <1> QED
    BY <1>1, <1>2, <1>3, <1>4 DEF Store!Init

LEMMA StoreNames ==
  /\ Store!Kinds = Kinds /\ Store!Parts = Parts
  /\ Readers \cup Writers = Store!Handlers
  /\ \A r : op[r] \in Readers => op[r] = Store!Download[Kind(r)]
  BY DEF Store!Kinds, Kinds, Store!Parts, Parts, Readers, Writers, Store!Handlers,
     Store!Download, Kind, KindOf

\* A request begins, and nothing else is to be seen of it.
LEMMA StoreArrive ==
  ASSUME Roles, NEW r \in Requests, NEW h \in Readers \cup Writers, Begin(r, h),
         bucket' = bucket, past' = past, Shown' = Shown, stale \subseteq stale'
  PROVE  \E x \in Store!Handlers : Store!Arrive(r, x)
  <1>1. op[r] = Nil /\ op' = [op EXCEPT ![r] = h]
    BY DEF Begin, Roles
  <1>2. Store!Arrive(r, h)
    BY <1>1 DEF Store!Arrive, Store!Asks, Store!Endangers, Shown
  <1> QED
    BY <1>2, StoreNames

\* Nothing is to be seen at all.
LEMMA StoreUnseen ==
  ASSUME bucket' = bucket, past' = past, op' = op, Shown' = Shown,
         stale \subseteq stale' \/ stale' \subseteq stale
  PROVE  Store!Endanger \/ Store!Recover
  BY DEF Store!Endanger, Store!Recover, Store!Endangers, Shown

\* The asking that goes with a change of the store: the request has just begun, or is
\* what it has been.
LEMMA StoreAsks ==
  ASSUME IInv, Roles, NEW r \in Requests, NEW h \in Writers,
         Begin(r, h) \/ (op[r] = h /\ op' = op), stale \subseteq stale'
  PROVE  Store!Asks(r, h)
  <1>1. op[r] \in {Nil, h} /\ op \in [Requests -> Readers \cup Writers \cup {Nil}]
    BY DEF Begin, Roles, IInv, TypeOK
  <1>2. op' = [op EXCEPT ![r] = h]
    BY <1>1 DEF Begin
  <1> QED
    BY <1>1, <1>2 DEF Store!Asks, Store!Endangers

LEMMA StoreWrites ==
  ASSUME StoreInv, TypeOK', PastNext, NEW r \in Requests, NEW k \in Kinds,
         Stored(k, r), Store!Asks(r, "HandleAnalyze"), Shown' = Shown
  PROVE  Store!Store(r, k)
  <1>1. /\ past \in [Kinds -> SUBSET (Requests \cup {Old})] /\ bucket \in [Kinds -> Version]
        /\ bucket' = [bucket EXCEPT ![k] = r]
        /\ \A x \in Kinds : bucket[x] \in past[x] \cup {Nil}
    BY DEF StoreInv, ServedInv, IInv, TypeOK, Remembered, Stored
  <1>2. past' = [x \in Kinds |-> past[x] \cup ({bucket'[x]} \ {Nil})]
    BY DEF PastNext
  <1>3. \A x \in Kinds : past'[x] = IF x = k THEN past[x] \cup {r} ELSE past[x]
    BY <1>1, <1>2, NilAssumption
  <1>4. past' = [past EXCEPT ![k] = @ \cup {r}]
    BY <1>1, <1>2, <1>3
  <1> QED
    BY <1>1, <1>4 DEF Store!Store, Shown

LEMMA StoreRemoves ==
  ASSUME StoreInv, TypeOK', PastNext, NEW r \in Requests, NEW k \in Kinds,
         Stored(k, Nil), Store!Asks(r, "HandleDeleteResult"), Shown' = Shown
  PROVE  Store!Remove(r, k)
  <1>1. bucket \in [Kinds -> Version] /\ bucket' = [bucket EXCEPT ![k] = Nil]
    BY DEF StoreInv, ServedInv, IInv, TypeOK, Stored
  <1>2. past' = past
    BY <1>1, PastStep DEF StoreInv
  <1> QED
    BY <1>1, <1>2 DEF Store!Remove, Shown

\* An answer is made of what the store holds, or has held when it is at risk.
LEMMA StoreAnswers ==
  ASSUME StoreInv, StoreInv', NEW r \in Requests, NEW k \in Kinds, k = Kind(r),
         Step(r), Read(r), pc'[r] = "ok", past' = past
  PROVE  Store!Answer(r, k)
  <1>1. /\ IInv /\ Fresh /\ Sent
        /\ got' \in [Requests -> [Parts -> Version]] /\ Remembered'
    BY DEF StoreInv, ServedInv, IInv, TypeOK
  <1>2. /\ Shown[r] = Nil /\ op[r] \in Readers /\ Shown' = [Shown EXCEPT ![r] = got'[r]]
    BY <1>1, ShownStep
  <1>3. /\ pc[r] \in Reading /\ op' = op /\ bucket' = bucket
        /\ stale' = stale
    BY DEF Read, At, Reading, history
  <1>4. op[r] = Store!Download[k] /\ Kind(r)' = k
    BY <1>2, <1>3, StoreNames DEF Kind
  <1>5. ASSUME NEW p \in Parts
        PROVE  got'[r][p] \in {Nil} \cup (IF k \in stale THEN past[k] ELSE {bucket[k]})
    <2>1. CASE k \in stale
      BY <1>1, <1>4, <2>1 DEF Remembered
    <2>2. CASE k \notin stale
      BY <1>1, <1>3, <1>4, <2>2, GotCurrent
    <2> QED
      BY <2>1, <2>2
  <1>6. got'[r] \in [Store!Parts -> Store!Available(k)]
    <2>1. got'[r] \in [Parts -> Version]
      BY <1>1
    <2>2. Store!Available(k) =
            {Nil} \cup (IF k \in stale THEN past[k] ELSE {bucket[k]})
      BY DEF Store!Available
    <2> QED
      BY <1>5, <2>1, <2>2, StoreNames
  <1> QED
    BY <1>2, <1>3, <1>4, <1>6 DEF Store!Answer, Shown

\* One step of a request is one of the store, or one it does not see.
LEMMA StoreStep ==
  ASSUME StoreInv, NEW r \in Requests, Step(r), PastNext
  PROVE  \/ Store!Endanger \/ Store!Recover
         \/ \E h \in Store!Handlers : Store!Arrive(r, h)
         \/ \E k \in Kinds : Store!Store(r, k) \/ Store!Remove(r, k) \/ Store!Answer(r, k)
  <1>0. /\ IInv /\ Roles /\ Remembered /\ StoreInv' /\ TypeOK'
    BY StoreInvNext DEF StoreInv, ServedInv, IInv, Next
  <1>1. bucket' = bucket => past' = past
    BY <1>0, PastStep DEF IInv, TypeOK
  <1>2. ~Read(r) => Shown' = Shown
    BY <1>0, ShownStep
  <1>3. "zip" \in Kinds /\ "png" \in Kinds
    BY DEF Kinds
  <1>11. ~CleanCache(r) => stale \subseteq stale'
    BY <1>0, RiskStep
  <1>4. CASE \E h \in Readers : Stat(r, h)
    <2>1. PICK h \in Readers : Begin(r, h) /\ bucket' = bucket
      BY <1>4 DEF Stat
    <2>2. ~Read(r) /\ ~CleanCache(r)
      BY <2>1 DEF Begin, Read, CleanCache, At
    <2> QED
      BY <1>0, <1>1, <1>2, <1>11, <2>1, <2>2, StoreArrive
  <1>5. CASE GetObject(r) \/ Create(r) \/ Copy(r) \/ CopyFails(r) \/ Open(r) \/ CleanCache(r)
    <2>1. bucket' = bucket /\ op' = op
      BY <1>5 DEF GetObject, Create, Copy, CopyFails, Open, CleanCache, At
    <2>2. ~Read(r)
      BY <1>5 DEF GetObject, Create, Copy, CopyFails, Open, CleanCache, At, Read, Copying
    <2>3. stale \subseteq stale' \/ stale' \subseteq stale
      BY <1>11 DEF CleanCache, Unlink, Left, history
    <2> QED
      BY <1>1, <1>2, <2>1, <2>2, <2>3, StoreUnseen
  <1>6. CASE Read(r)
    <2>1. bucket' = bucket /\ op' = op /\ stale' = stale
      BY <1>6 DEF Read, At, history
    <2>2. CASE pc'[r] = "ok"
      <3>1. PICK k \in Kinds : k = Kind(r)
        BY KindType
      <3>2. Store!Answer(r, k)
        BY <1>0, <1>1, <1>6, <2>1, <2>2, <3>1, StoreAnswers
      <3> QED
        BY <3>2
    <2>3. CASE pc'[r] # "ok"
      <3>1. Shown' = Shown
        BY <1>0, <2>3, ShownStep
      <3> QED
        BY <1>1, <2>1, <3>1, StoreUnseen
    <2> QED
      BY <2>2, <2>3
  <1>7. CASE PutScreenshot(r)
    <2>1. /\ Begin(r, "HandleAnalyze") /\ (bucket' = bucket \/ Stored("png", r))
          /\ ~Read(r) /\ ~CleanCache(r)
      BY <1>7 DEF PutScreenshot, StoreFails, Begin, Read, CleanCache, At
    <2>2. "HandleAnalyze" \in Writers
      BY DEF Writers
    <2>3. Stored("png", r) => Store!Store(r, "png")
      BY <1>0, <1>2, <1>3, <1>11, <2>1, <2>2, StoreAsks, StoreWrites
    <2> QED
      BY <1>0, <1>1, <1>2, <1>3, <1>11, <2>1, <2>2, <2>3, StoreArrive
  <1>8. CASE PutZip(r)
    <2>1. /\ pc[r] = "putZip" /\ op' = op /\ (bucket' = bucket \/ Stored("zip", r))
          /\ ~Read(r) /\ ~CleanCache(r)
      BY <1>8 DEF PutZip, StoreFails, At, Read, CleanCache
    <2>2. "HandleAnalyze" \in Writers /\ op[r] = "HandleAnalyze"
      BY <1>0, <2>1 DEF Writers, Roles
    <2>3. Stored("zip", r) => Store!Store(r, "zip")
      BY <1>0, <1>2, <1>3, <1>11, <2>1, <2>2, StoreAsks, StoreWrites
    <2> QED
      BY <1>1, <1>2, <1>3, <1>11, <2>1, <2>3, StoreUnseen
  <1>9. CASE DeleteZip(r)
    <2>1. /\ Begin(r, "HandleDeleteResult") /\ (bucket' = bucket \/ Stored("zip", Nil))
          /\ ~Read(r) /\ ~CleanCache(r)
      BY <1>9 DEF DeleteZip, StoreFails, Begin, Read, CleanCache, At
    <2>2. "HandleDeleteResult" \in Writers
      BY DEF Writers
    <2>3. Stored("zip", Nil) => Store!Remove(r, "zip")
      BY <1>0, <1>2, <1>3, <1>11, <2>1, <2>2, StoreAsks, StoreRemoves
    <2> QED
      BY <1>0, <1>1, <1>2, <1>3, <1>11, <2>1, <2>2, <2>3, StoreArrive
  <1>10. CASE DeletePng(r)
    <2>1. /\ pc[r] = "delPng" /\ op' = op /\ (bucket' = bucket \/ Stored("png", Nil))
          /\ ~Read(r) /\ ~CleanCache(r)
      BY <1>10 DEF DeletePng, StoreFails, At, Read, CleanCache
    <2>2. "HandleDeleteResult" \in Writers /\ op[r] = "HandleDeleteResult"
      BY <1>0, <2>1 DEF Writers, Roles
    <2>3. Stored("png", Nil) => Store!Remove(r, "png")
      BY <1>0, <1>2, <1>3, <1>11, <2>1, <2>2, StoreAsks, StoreRemoves
    <2> QED
      BY <1>1, <1>2, <1>3, <1>11, <2>1, <2>3, StoreUnseen
  <1> QED
    BY <1>4, <1>5, <1>6, <1>7, <1>8, <1>9, <1>10 DEF Step

LEMMA StoreNext == StoreInv /\ [Next /\ PastNext]_RecordedVars => [Store!Next]_(Store!vars)
  <1>1. ASSUME StoreInv, NEW r \in Requests, Step(r), PastNext
        PROVE  Store!Next
    <2>1. \/ Store!Endanger \/ Store!Recover
          \/ \E h \in Store!Handlers : Store!Arrive(r, h)
          \/ \E k \in Store!Kinds : Store!Store(r, k) \/ Store!Remove(r, k) \/ Store!Answer(r, k)
      BY <1>1, StoreStep, StoreNames
    <2> QED
      BY <2>1 DEF Store!Next
  <1>2. ASSUME StoreInv, Crash, PastNext
        PROVE  Store!Next
    <2>1. bucket' = bucket /\ op' = op /\ got' = got
      BY <1>2 DEF Crash
    <2>2. past' = past
      BY <1>2, <2>1, PastStep, TypeCrash DEF StoreInv, ServedInv, IInv, TypeOK
    <2>3. \A q \in Requests : Answered(q)' <=> Answered(q)
      BY <1>2 DEF Crash, Answered, InFlight, Final
    <2>4. Shown' = Shown
      BY <2>1, <2>3 DEF Shown
    <2>5. stale \subseteq stale' \/ stale' \subseteq stale
      BY <1>2 DEF Crash, Left
    <2> QED
      BY <2>1, <2>2, <2>4, <2>5, StoreUnseen DEF Store!Next
  <1>3. ASSUME UNCHANGED RecordedVars
        PROVE  UNCHANGED Store!vars
    BY <1>3 DEF RecordedVars, vars, history, Store!vars, Answered
  <1> QED
    BY <1>1, <1>2, <1>3 DEF Next

--------------------------------------------------------------------------------
(* The second theorem. *)

\* The invariant holds in every state.
THEOREM StoreInductive == RecordedSpec => []StoreInv
  BY StoreInvInit, StoreInvNext, PTL DEF RecordedSpec, RecordedVars

\* Whatever the number of requests, their interleaving and the failures: behind the
\* abstract store the cache, its files and its downloads are invisible.
THEOREM CacheImplementsStore == RecordedSpec => ImplementsStore
  BY StoreInit, StoreNext, StoreInductive, PTL
  DEF RecordedSpec, RecordedVars, ImplementsStore, Store!Spec

================================================================================
