--------------------------- MODULE ResultCacheProofs ---------------------------
(***************************************************************************)
(* Theorems about ResultCache, for every set of requests and of faults.    *)
(***************************************************************************)
EXTENDS ResultCache, TLAPS

Loading  == {"create"} \cup Copying
Reading  == {"readBody", "readTail"}
ReadPc   == {"getObject", "open"} \cup Loading \cup Reading
WritePc  == {"putZip", "delPng", "rmZip", "rmPng"}

\* Readers are in the steps of readers, writers in those of writers.
Classes ==
    \A r \in Requests :
        /\ pc[r] \in ReadPc => op[r] \in Readers
        /\ pc[r] \in WritePc => op[r] \in Writers

\* An inode in use belongs to a reader of that kind that has created it.
Owned(i, k) ==
    /\ i \in Requests
    /\ op[i] \in Readers
    /\ Kind(i) = k
    /\ pc[i] \notin {"idle", "getObject", "create"}

Inodes ==
    /\ \A k \in Kinds : cache[k] # Nil => Owned(cache[k], k)
    /\ \A r \in Requests : fd[r] # Nil => Owned(fd[r], Kind(r))

\* A reader of a kind and a writer are in flight together only while the history
\* says that the copy of that kind may be stale.
Exclusion ==
    \A r, w \in Requests :
        pc[r] \in ReadPc /\ pc[w] \in WritePc => Kind(r) \in stale

\* A body that is being downloaded is that of the bucket's current object, and
\* the file that is open is the one the cache names.
Current(r) ==
    /\ pc[r] \in Loading => obj[r] = bucket[Kind(r)]
    /\ pc[r] \in Copying \cup Reading => fd[r] = cache[Kind(r)]
Downloads == \A r \in Requests : Kind(r) \notin stale => Current(r)

\* Part p of the cached copy of kind k is current, or about to be written.
Settled(k, p) ==
    \/ file[cache[k]][p] = bucket[k]
    \/ /\ file[cache[k]][p] = Nil
       /\ \E q \in Requests : StillWrites(q, cache[k], p)

\* A cached copy no writer is about to unlink is current as far as it is written.
Contents ==
    \A k \in Kinds \ (stale \cup partial) :
        cache[k] # Nil /\ ~Unclean(k)
            => bucket[k] # Nil /\ \A p \in Parts : Settled(k, p)

IInv == TypeOK /\ Classes /\ Inodes /\ Exclusion /\ Downloads /\ Contents

--------------------------------------------------------------------------------
(* Type correctness. *)

LEMMA EmptyType == Empty \in [Parts -> Version]
  BY DEF Empty, Version, Inode

\* Writing one part of one file keeps the shape of the file system.
LEMMA PartWrite ==
  ASSUME NEW f \in [Requests -> [Parts -> Version]], NEW i \in Requests,
         NEW p \in Parts, NEW v \in Version
  PROVE  [f EXCEPT ![i][p] = v] \in [Requests -> [Parts -> Version]]
  <1>1. [f[i] EXCEPT ![p] = v] \in [Parts -> Version]
    OBVIOUS
  <1> QED
    BY <1>1

LEMMA TypeInit == Init => TypeOK
  <1> SUFFICES ASSUME Init PROVE TypeOK
    OBVIOUS
  <1>1. HandleDiscipline
    BY DEF Init, HandleDiscipline, Copying
  <1>2. /\ file \in [Requests -> [Parts -> Version]]
        /\ got \in [Requests -> [Parts -> Version]]
    BY EmptyType DEF Init
  <1>3. pc \in [Requests -> Labels]
    BY DEF Init, Labels
  <1>4. bucket \in [Kinds -> Version]
    BY DEF Init, Version, Inode
  <1> QED
    BY <1>1, <1>2, <1>3, <1>4 DEF Init, TypeOK, Version, Inode

\* The histories speak of kinds.
LEMMA HistoryType ==
  ASSUME TypeOK, NEW r \in Requests, Step(r)
  PROVE  stale' \subseteq Kinds /\ partial' \subseteq Kinds
  <1> USE DEF TypeOK, Kinds, history
  <1>1. CASE \E h \in Readers : Stat(r, h)
    BY <1>1 DEF Stat, Begin, Meets
  <1>2. CASE GetObject(r) \/ Create(r) \/ Copy(r) \/ Open(r) \/ Read(r) \/ DeletePng(r)
    BY <1>2 DEF GetObject, Create, Copy, Open, Read, DeletePng
  <1>3. CASE CopyFails(r)
    BY <1>3 DEF CopyFails, Kind, KindOf
  <1>4. CASE PutScreenshot(r) \/ DeleteZip(r)
    BY <1>4 DEF PutScreenshot, DeleteZip, Begin, Meets
  <1>5. CASE PutZip(r)
    BY <1>5 DEF PutZip, Left
  <1>6. CASE CleanCache(r)
    BY <1>6 DEF CleanCache, Unlink, Left
  <1> QED
    BY <1>1, <1>2, <1>3, <1>4, <1>5, <1>6 DEF Step

\* Every step of a request preserves the types and closes what it opens.
LEMMA TypeStep ==
  ASSUME TypeOK, NEW r \in Requests, Step(r)
  PROVE  TypeOK'
  <1> USE NilAssumption, FaultsAssumption
      DEF TypeOK, HandleDiscipline, Version, Inode, Kinds, Parts, Labels, Final, Copying
  <1> USE DEF Goto, At, Begin, Fails, Kind, KindOf, Readers, Writers
  <1>0. stale' \subseteq Kinds /\ partial' \subseteq Kinds
    BY HistoryType
  <1>1. CASE \E h \in Readers : Stat(r, h)
    BY <1>0, <1>1 DEF Stat
  <1>2. CASE GetObject(r)
    <2>1. /\ pc[r] = "getObject" /\ UNCHANGED <<bucket, cache, file, op, fd, got>>
          /\ \/ /\ bucket[Kind(r)] # Nil /\ bucket[Kind(r)] \in Version
                /\ obj' = [obj EXCEPT ![r] = bucket[Kind(r)]]
                /\ pc' = [pc EXCEPT ![r] = "create"]
             \/ UNCHANGED obj /\ pc' = [pc EXCEPT ![r] = "failed"]
      BY <1>2 DEF GetObject
    <2>2. HandleDiscipline' /\ obj' \in [Requests -> Version]
      BY <2>1
    <2> QED
      BY <1>0, <2>1, <2>2
  <1>3. CASE Create(r)
    <2>1. Created(r) \in Requests
      BY DEF Created
    <2>2. /\ cache' \in [Kinds -> Inode] /\ fd' \in [Requests -> Inode]
          /\ obj' \in [Requests -> Version]
      BY <1>3, <2>1 DEF Create
    <2>4. file' \in [Requests -> [Parts -> Version]]
      <3>1. file \in [Requests -> [Parts -> Version]]
        OBVIOUS
      <3>2. file' = file \/ file' = [file EXCEPT ![Created(r)] = Empty]
        BY <1>3, Zenon DEF Create, Truncated
      <3> QED
        BY <2>1, <3>1, <3>2, EmptyType
    <2>3. HandleDiscipline' /\ pc' \in [Requests -> Labels]
      BY <1>3, <2>1 DEF Create
    <2> QED
      BY <1>0, <1>3, <2>2, <2>3, <2>4 DEF Create
  <1>4. CASE Copy(r)
    <2>1. fd[r] \in Requests /\ obj[r] \in Version
      BY <1>4 DEF Copy
    <2>2. PICK p \in Parts : file' = [file EXCEPT ![fd[r]][p] = obj[r]]
      BY <1>4 DEF Copy
    <2>3. file' \in [Requests -> [Parts -> Version]]
      BY <2>1, <2>2, PartWrite
    <2>4. \/ /\ pc[r] = "copyBody" /\ pc' = [pc EXCEPT ![r] = "copyTail"]
             /\ UNCHANGED <<fd, obj>>
          \/ /\ pc[r] = "copyTail" /\ pc' = [pc EXCEPT ![r] = "open"]
             /\ fd' = [fd EXCEPT ![r] = Nil] /\ obj' = [obj EXCEPT ![r] = Nil]
      BY <1>4 DEF Copy
    <2>5. /\ pc' \in [Requests -> Labels] /\ HandleDiscipline'
          /\ fd' \in [Requests -> Inode] /\ obj' \in [Requests -> Version]
      <3>1. /\ pc \in [Requests -> Labels] /\ HandleDiscipline
            /\ fd \in [Requests -> Inode] /\ obj \in [Requests -> Version]
        OBVIOUS
      <3> HIDE DEF TypeOK
      <3> QED
        BY <2>4, <3>1
    <2>6. UNCHANGED <<bucket, cache, op, got>>
      BY <1>4 DEF Copy
    <2> QED
      BY <1>0, <2>3, <2>4, <2>5, <2>6
  <1>5. CASE CopyFails(r)
    BY <1>0, <1>5 DEF CopyFails
  <1>6. CASE Open(r)
    <2>1. ASSUME NEW i \in Requests,
                 got' = [got EXCEPT ![r]["tail"] = file[i]["tail"]]
          PROVE  got' \in [Requests -> [Parts -> Version]]
      BY <2>1, PartWrite
    <2>2. \/ /\ cache[Kind(r)] # Nil /\ fd' = [fd EXCEPT ![r] = cache[Kind(r)]]
             /\ pc' = [pc EXCEPT ![r] = "readBody"]
          \/ UNCHANGED fd /\ pc' = [pc EXCEPT ![r] = "failed"]
      BY <1>6 DEF Open
    <2>3. cache[Kind(r)] # Nil => cache[Kind(r)] \in Requests
      OBVIOUS
    <2>4. got' \in [Requests -> [Parts -> Version]]
      BY <1>6, <2>1, <2>3 DEF Open
    <2>5. pc[r] = "open" /\ UNCHANGED <<bucket, cache, file, op, obj>>
      BY <1>6 DEF Open
    <2>6. HandleDiscipline'
      <3>1. HandleDiscipline /\ fd \in [Requests -> Inode] /\ pc \in [Requests -> Labels]
        OBVIOUS
      <3> HIDE DEF TypeOK
      <3> QED
        BY <2>2, <2>5, <3>1
    <2>7. pc' \in [Requests -> Labels] /\ fd' \in [Requests -> Inode]
      BY <2>2, <2>3
    <2> QED
      BY <1>0, <2>4, <2>5, <2>6, <2>7
  <1>7. CASE Read(r)
    <2>1. fd[r] \in Requests
      BY <1>7 DEF Read
    <2>2. \A p \in Parts : file[fd[r]][p] \in Version
      BY <2>1
    <2>3. got' \in [Requests -> [Parts -> Version]]
      BY <1>7, <2>2, PartWrite DEF Read
    <2>4. /\ pc[r] \in {"readBody", "readTail"}
          /\ \/ /\ fd' = [fd EXCEPT ![r] = Nil]
                /\ \E l \in Final : pc' = [pc EXCEPT ![r] = l]
             \/ UNCHANGED fd /\ pc' = [pc EXCEPT ![r] = "readTail"]
          /\ UNCHANGED obj
      BY <1>7 DEF Read
    <2>5. /\ pc' \in [Requests -> Labels] /\ HandleDiscipline'
          /\ fd' \in [Requests -> Inode]
      <3>1. /\ pc \in [Requests -> Labels] /\ HandleDiscipline
            /\ fd \in [Requests -> Inode]
        OBVIOUS
      <3> HIDE DEF TypeOK
      <3> QED
        BY <2>4, <3>1
    <2>6. UNCHANGED <<bucket, cache, file, op, obj>>
      BY <1>7 DEF Read
    <2> QED
      BY <1>0, <2>3, <2>4, <2>5, <2>6
  <1>8. CASE PutScreenshot(r)
    BY <1>0, <1>8 DEF PutScreenshot, Stored, StoreFails
  <1>9. CASE PutZip(r)
    BY <1>0, <1>9 DEF PutZip, Stored, StoreFails
  <1>10. CASE DeleteZip(r)
    BY <1>0, <1>10 DEF DeleteZip, Stored, StoreFails
  <1>11. CASE DeletePng(r)
    BY <1>0, <1>11 DEF DeletePng, Stored, StoreFails
  <1>12. CASE CleanCache(r)
    <2>1. cache' \in [Kinds -> Inode]
      BY <1>12 DEF CleanCache, Unlink
    <2>2. pc' \in [Requests -> Labels]
      BY <1>12 DEF CleanCache
    <2>3. HandleDiscipline'
      BY <1>12 DEF CleanCache
    <2> QED
      BY <1>0, <1>12, <2>1, <2>2, <2>3 DEF CleanCache
  <1> QED
    BY <1>1, <1>2, <1>3, <1>4, <1>5, <1>6, <1>7, <1>8, <1>9, <1>10, <1>11, <1>12
    DEF Step

LEMMA TypeCrash == TypeOK /\ Crash => TypeOK'
  <1> SUFFICES ASSUME TypeOK, Crash PROVE TypeOK'
    OBVIOUS
  <1>1. stale' \subseteq Kinds /\ partial' \subseteq Kinds
    BY DEF TypeOK, Crash, Left, Kind, KindOf, Kinds
  <1> QED
    BY <1>1, NilAssumption DEF TypeOK, HandleDiscipline, Crash, InFlight, Version, Inode,
       Kinds, Parts, Labels, Final, Copying

LEMMA TypeStutter == TypeOK /\ UNCHANGED vars => TypeOK'
  BY DEF TypeOK, HandleDiscipline, vars, history

\* In every behaviour the state is well typed and no handler leaks a file or a
\* download.
THEOREM TypeCorrect == Spec => []TypeOK
  <1>1. TypeOK /\ [Next]_vars => TypeOK'
    BY TypeStep, TypeCrash, TypeStutter DEF Next
  <1> QED
    BY <1>1, TypeInit, PTL DEF Spec

--------------------------------------------------------------------------------
(* The coherence of the cache: IInv is inductive, one lemma per conjunct. *)

\* A request that has begun stays in its class of steps; what it does with its
\* program counter is all that the classes depend on.
LEMMA Moves ==
  ASSUME TypeOK, Classes, NEW r \in Requests, Step(r)
  PROVE  \/ /\ pc[r] = "idle"
            /\ \E h \in Readers, l \in {"getObject", "open"} : Begin(r, h) /\ Goto(r, l)
         \/ /\ pc[r] = "idle"
            /\ \E h \in Writers, l \in {"putZip", "delPng"} : Begin(r, h) /\ Goto(r, l)
         \/ /\ pc[r] \in ReadPc /\ UNCHANGED <<op, stale>>
            /\ \E l \in Final \cup (ReadPc \ {"getObject"}) :
                 Goto(r, l) /\ (l = "create" => pc[r] = "getObject")
         \/ /\ pc[r] \in WritePc /\ UNCHANGED op
            /\ \E l \in Final \cup WritePc : Goto(r, l)
  <1> USE DEF ReadPc, WritePc, Loading, Reading, Copying, Final, At, history
  <1>1. CASE \E h \in Readers : Stat(r, h)
    BY <1>1 DEF Stat, Begin
  <1>2. CASE GetObject(r)
    BY <1>2 DEF GetObject
  <1>3. CASE Create(r) \/ Copy(r) \/ CopyFails(r) \/ Open(r) \/ Read(r)
    <2>1. /\ pc[r] \in ReadPc /\ UNCHANGED <<op, stale>>
          /\ \E l \in Final \cup {"copyBody", "copyTail", "open", "readBody", "readTail"} :
                 Goto(r, l)
      BY <1>3, Zenon DEF Create, Copy, CopyFails, Open, Read
    <2> QED
      BY <2>1
  <1>4. CASE PutScreenshot(r) \/ DeleteZip(r)
    BY <1>4 DEF PutScreenshot, DeleteZip, Begin, Writers
  <1>5. CASE PutZip(r) \/ DeletePng(r) \/ CleanCache(r)
    BY <1>5, Zenon DEF PutZip, DeletePng, CleanCache
  <1> QED
    BY <1>1, <1>2, <1>3, <1>4, <1>5 DEF Step

LEMMA ClassesStep ==
  ASSUME TypeOK, Classes, NEW r \in Requests, Step(r)
  PROVE  Classes'
  <1> SUFFICES ASSUME NEW q \in Requests
               PROVE  /\ pc'[q] \in ReadPc => op'[q] \in Readers
                      /\ pc'[q] \in WritePc => op'[q] \in Writers
    BY DEF Classes
  <1> USE DEF ReadPc, WritePc, Loading, Reading, Copying, Final
  <1>1. CASE q # r
    BY <1>1, Moves DEF TypeOK, Classes, Begin, Goto
  <1>2. CASE q = r
    BY <1>2, Moves DEF TypeOK, Classes, Begin, Goto
  <1> QED
    BY <1>1, <1>2

LEMMA KindType == ASSUME NEW r PROVE Kind(r) \in Kinds
  BY DEF Kind, KindOf, Kinds

\* A kind leaves a history only when its cached copy is unlinked and no reader of it
\* is in flight.
LEMMA Heals ==
  ASSUME TypeOK, Classes, NEW r \in Requests, Step(r), NEW k \in Kinds,
         \/ k \in stale /\ k \notin stale'
         \/ k \in partial /\ k \notin partial'
  PROVE  /\ CleanCache(r)
         /\ cache'[k] = Nil
         /\ \A q \in Requests : pc[q] \in ReadPc => Kind(q) # k
  <1>1. CleanCache(r)
    <2>1. CASE \E h \in Readers : Stat(r, h)
      BY <2>1 DEF Stat, Begin
    <2>2. CASE GetObject(r) \/ Create(r) \/ Copy(r) \/ Open(r) \/ Read(r) \/ DeletePng(r)
      BY <2>2 DEF GetObject, Create, Copy, Open, Read, DeletePng, history
    <2>3. CASE CopyFails(r)
      BY <2>3 DEF CopyFails
    <2>4. CASE PutScreenshot(r) \/ DeleteZip(r)
      BY <2>4 DEF PutScreenshot, DeleteZip, Begin
    <2>5. CASE PutZip(r)
      BY <2>5 DEF PutZip, Left
    <2> QED
      BY <2>1, <2>2, <2>3, <2>4, <2>5 DEF Step
  <1>2. PICK j \in Kinds : Unlink(j)
    BY <1>1 DEF CleanCache, Kinds
  <1>3. /\ j = k
        /\ cache' = [cache EXCEPT ![k] = Nil]
        /\ ~\E q \in Requests : Reads(q, k)
    BY <1>2 DEF Unlink, Left, history
  <1>4. cache'[k] = Nil
    BY <1>3 DEF TypeOK
  <1>5. ASSUME NEW q \in Requests, pc[q] \in ReadPc
        PROVE  Kind(q) # k
    BY <1>3, <1>5 DEF Reads, InFlight, Final, Classes, ReadPc, Loading, Reading, Copying
  <1> QED
    BY <1>1, <1>4, <1>5

LEMMA ExclusionStep ==
  ASSUME TypeOK, Classes, Exclusion, NEW r \in Requests, Step(r)
  PROVE  Exclusion'
  <1> SUFFICES ASSUME NEW q \in Requests, NEW w \in Requests,
                      pc'[q] \in ReadPc, pc'[w] \in WritePc
               PROVE  Kind(q)' \in stale'
    BY DEF Exclusion
  <1> USE DEF Goto
  <1>1. \A x \in Requests :
          /\ pc[x] \in ReadPc => InFlight(x) /\ op[x] \in Readers
          /\ pc[x] \in WritePc => InFlight(x) /\ op[x] \in Writers
    BY DEF Classes, InFlight, ReadPc, WritePc, Loading, Reading, Copying, Final
  <1>2. pc \in [Requests -> Labels] /\ op \in [Requests -> Readers \cup Writers \cup {Nil}]
    BY DEF TypeOK
  <1>3. ASSUME NEW h \in Readers, NEW l \in {"getObject", "open"}, Begin(r, h), Goto(r, l)
        PROVE  Kind(q)' \in stale'
    <2>1. w # r /\ pc[w] \in WritePc
      BY <1>2, <1>3 DEF WritePc
    <2>2. CASE q = r
      <3>1. Kind(q)' = KindOf(h)
        BY <1>2, <1>3, <2>2 DEF Begin, Kind
      <3>2. KindOf(h) \in Meets(h)
        BY <1>1, <2>1 DEF Meets, KindOf, Kinds
      <3> QED
        BY <1>3, <3>1, <3>2 DEF Begin
    <2>3. CASE q # r
      <3>1. pc[q] \in ReadPc /\ Kind(q)' = Kind(q)
        BY <1>2, <1>3, <2>3 DEF Begin, Kind
      <3> QED
        BY <1>3, <2>1, <3>1 DEF Begin, Exclusion
    <2> QED
      BY <2>2, <2>3
  <1>4. ASSUME NEW h \in Writers, NEW l \in {"putZip", "delPng"}, Begin(r, h), Goto(r, l)
        PROVE  Kind(q)' \in stale'
    <2>1. q # r /\ pc[q] \in ReadPc
      BY <1>2, <1>4 DEF ReadPc, Loading, Reading, Copying
    <2>2. Kind(q)' = Kind(q)
      BY <1>2, <1>4, <2>1 DEF Begin, Kind
    <2>3. Kind(q) \in Meets(h)
      BY <1>1, <2>1, KindType DEF Meets
    <2> QED
      BY <1>4, <2>2, <2>3 DEF Begin
  <1>5. CASE /\ pc[r] \in ReadPc /\ UNCHANGED <<op, stale>>
             /\ \E l \in Final \cup (ReadPc \ {"getObject"}) :
                  Goto(r, l) /\ (l = "create" => pc[r] = "getObject")
    <2>1. pc[q] \in ReadPc /\ pc[w] \in WritePc
      BY <1>2, <1>5 DEF ReadPc, WritePc, Loading, Reading, Copying, Final
    <2> QED
      BY <1>5, <2>1 DEF Exclusion, Kind
  <1>6. CASE /\ pc[r] \in WritePc /\ UNCHANGED op
             /\ \E l \in Final \cup WritePc : Goto(r, l)
    <2>1. pc[q] \in ReadPc /\ pc[w] \in WritePc
      BY <1>2, <1>6 DEF ReadPc, WritePc, Loading, Reading, Copying, Final
    <2>2. Kind(q) \in stale /\ Kind(q)' = Kind(q)
      BY <1>6, <2>1 DEF Exclusion, Kind
    <2>3. Kind(q) \in stale'
      BY <2>1, <2>2, Heals, KindType
    <2> QED
      BY <2>2, <2>3
  <1> QED
    BY <1>3, <1>4, <1>5, <1>6, Moves

\* No step of a request moves an inode in use to another kind or takes it back
\* behind its creation.
LEMMA OwnedStep ==
  ASSUME TypeOK, Classes, NEW r \in Requests, Step(r), NEW i, NEW k, Owned(i, k)
  PROVE  Owned(i, k)'
  <1>1. op'[i] = op[i] /\ pc'[i] \notin {"idle", "getObject", "create"}
    BY Moves DEF TypeOK, Owned, Begin, Goto, ReadPc, WritePc, Loading, Reading,
       Copying, Final
  <1> QED
    BY <1>1 DEF Owned, Kind

\* Apart from dropping an inode, only Create names one and only Create and Open
\* take hold of one.
LEMMA Holds ==
  ASSUME TypeOK, Classes, NEW r \in Requests, Step(r)
  PROVE  /\ \A k \in Kinds : cache'[k] # Nil /\ cache'[k] # cache[k]
                 => Create(r) /\ k = Kind(r) /\ cache'[k] = Created(r)
         /\ \A q \in Requests : fd'[q] # Nil /\ fd'[q] # fd[q]
                 => /\ q = r
                    /\ \/ Create(r) /\ fd'[r] = Created(r)
                       \/ Open(r) /\ fd'[r] = cache[Kind(r)]
  <1>0. cache \in [Kinds -> Inode] /\ fd \in [Requests -> Inode]
    BY DEF TypeOK
  <1>1. CASE Create(r)
    BY <1>0, <1>1, KindType DEF Create
  <1>2. CASE Open(r)
    BY <1>0, <1>2 DEF Open
  <1>3. CASE CleanCache(r)
    BY <1>0, <1>3 DEF CleanCache, Unlink
  <1>4. CASE Copy(r) \/ CopyFails(r) \/ Read(r)
    BY <1>0, <1>4 DEF Copy, CopyFails, Read
  <1>5. CASE ~(\/ Create(r) \/ Open(r) \/ CleanCache(r)
               \/ Copy(r) \/ CopyFails(r) \/ Read(r))
    BY <1>5 DEF Step, Stat, GetObject, PutScreenshot, PutZip, DeleteZip, DeletePng
  <1> QED
    BY <1>1, <1>2, <1>3, <1>4, <1>5

LEMMA InodesStep ==
  ASSUME TypeOK, Classes, Inodes, NEW r \in Requests, Step(r)
  PROVE  Inodes'
  <1> DEFINE New(i, k) == Create(r) /\ k = Kind(r) /\ i = Created(r)
  <1>1. ASSUME NEW i, NEW k \in Kinds, New(i, k), i # Nil
        PROVE  Owned(i, k)'
    <2>1. CASE cache[k] = Nil
      <3>1. i = r /\ op' = op /\ op[r] \in Readers
        BY <1>1, <2>1 DEF Create, Created, At, Classes, ReadPc, Loading
      <3>2. pc'[r] \in {"copyBody", "failed"}
        BY <1>1 DEF Create, Goto, TypeOK
      <3> QED
        BY <1>1, <3>1, <3>2 DEF Owned, Kind
    <2>2. CASE cache[k] # Nil
      BY <1>1, <2>2, OwnedStep DEF Created, Inodes
    <2> QED
      BY <2>1, <2>2
  <1>2. ASSUME NEW i, NEW k \in Kinds, i = cache'[k], i # Nil
        PROVE  Owned(i, k)'
    BY <1>1, <1>2, Holds, OwnedStep DEF Inodes
  <1>3. ASSUME NEW i, NEW q \in Requests, i = fd'[q], i # Nil
        PROVE  Owned(i, Kind(q))'
    <2>1. Kind(q)' = Kind(q)
      <3>1. CASE op'[q] = op[q]
        BY <3>1 DEF Kind
      <3>2. CASE op'[q] # op[q]
        <4>1. q = r /\ pc[r] = "idle" /\ fd[r] = Nil
          BY <3>2, Moves DEF Begin, TypeOK, HandleDiscipline, Copying
        <4> QED
          BY <1>3, <4>1, Holds DEF Create, Open, At
      <3> QED
        BY <3>1, <3>2
    <2> QED
      BY <1>1, <1>3, <2>1, Holds, OwnedStep, KindType DEF Inodes, Open
  <1> QED
    BY <1>2, <1>3 DEF Inodes

\* A step of r touches no program counter, body or file handle but its own.
LEMMA Frame ==
  ASSUME TypeOK, NEW r \in Requests, Step(r), NEW q \in Requests \ {r}
  PROVE  pc'[q] = pc[q] /\ obj'[q] = obj[q] /\ fd'[q] = fd[q]
  <1> USE DEF TypeOK, Goto
  <1>1. CASE \E h \in Readers : Stat(r, h)
    BY <1>1 DEF Stat
  <1>2. CASE GetObject(r) \/ Create(r) \/ CopyFails(r)
    BY <1>2 DEF GetObject, Create, CopyFails
  <1>3. CASE Copy(r) \/ Open(r) \/ Read(r)
    BY <1>3 DEF Copy, Open, Read
  <1>4. CASE PutScreenshot(r) \/ PutZip(r) \/ DeleteZip(r) \/ DeletePng(r) \/ CleanCache(r)
    BY <1>4 DEF PutScreenshot, PutZip, DeleteZip, DeletePng, CleanCache
  <1> QED
    BY <1>1, <1>2, <1>3, <1>4 DEF Step

\* Whoever changes an object still has to unlink its cached copy, or has left it.
LEMMA BucketStep ==
  ASSUME TypeOK, NEW r \in Requests, Step(r), NEW k \in Kinds, bucket'[k] # bucket[k]
  PROVE  \/ pc'[r] \in WritePc /\ pc'[r] \in Owing[k]
         \/ cache'[k] # Nil => k \in stale'
  <1> USE DEF TypeOK, Goto, WritePc, Owing, Stored, StoreFails
  <1>1. CASE PutScreenshot(r)
    BY <1>1 DEF PutScreenshot, Begin
  <1>2. CASE DeleteZip(r)
    BY <1>2 DEF DeleteZip, Begin
  <1>3. CASE DeletePng(r)
    BY <1>3 DEF DeletePng, At
  <1>4. CASE PutZip(r)
    BY <1>4 DEF PutZip, Left
  <1>5. CASE ~(PutScreenshot(r) \/ DeleteZip(r) \/ DeletePng(r) \/ PutZip(r))
    BY <1>5, Zenon DEF Step, Stat, GetObject, Create, Copy, CopyFails, Open, Read, CleanCache
  <1> QED
    BY <1>1, <1>2, <1>3, <1>4, <1>5

\* The bucket changes by a writer's hand alone.
LEMMA BucketOnly ==
  ASSUME TypeOK, NEW r \in Requests, Step(r), bucket' # bucket
  PROVE  pc[r] \in WritePc \/ pc'[r] \in WritePc
  <1> USE DEF TypeOK, Goto, WritePc
  <1>1. CASE PutScreenshot(r) \/ DeleteZip(r)
    BY <1>1 DEF PutScreenshot, DeleteZip, Begin
  <1>2. CASE DeletePng(r) \/ PutZip(r)
    BY <1>2 DEF DeletePng, PutZip, At
  <1>3. CASE ~(PutScreenshot(r) \/ DeleteZip(r) \/ DeletePng(r) \/ PutZip(r))
    BY <1>3, Zenon DEF Step, Stat, GetObject, Create, Copy, CopyFails, Open, Read, CleanCache
  <1> QED
    BY <1>1, <1>2, <1>3

LEMMA DownloadsStep ==
  ASSUME TypeOK, Classes, Exclusion, Downloads, NEW r \in Requests, Step(r)
  PROVE  Downloads'
  <1> SUFFICES ASSUME NEW q \in Requests, Kind(q)' \notin stale'
               PROVE  /\ pc'[q] \in Loading => obj'[q] = bucket'[Kind(q)']
                      /\ pc'[q] \in Copying \cup Reading => fd'[q] = cache'[Kind(q)']
    BY DEF Downloads, Current
  <1> USE DEF Loading, Reading, ReadPc, Copying
  <1>1. CASE pc'[q] \in Loading \cup Reading
    <2>3. pc[q] \in ReadPc /\ op'[q] = op[q]
      BY <1>1, Moves DEF TypeOK, Goto, Begin, Final, WritePc
    <2>4. Kind(q)' = Kind(q) /\ Kind(q) \in Kinds
      BY <2>3, KindType DEF Kind
    <2>1. Kind(q) \notin stale /\ Current(q) /\ Exclusion'
      BY <2>3, <2>4, Heals, ExclusionStep DEF Downloads
    <2>9. \A w \in Requests : pc[w] \notin WritePc /\ pc'[w] \notin WritePc
      BY <1>1, <2>1, <2>3 DEF Exclusion
    <2>2. bucket'[Kind(q)] = bucket[Kind(q)]
      BY <2>4, <2>9, BucketOnly
    <2>5. CASE q = r
      <3>1. CASE GetObject(r)
        BY <1>1, <2>2, <2>4, <2>5, <3>1 DEF GetObject, Goto, TypeOK
      <3>2. CASE Create(r)
        BY <1>1, <2>1, <2>2, <2>4, <2>5, <3>2, KindType
        DEF Create, Goto, At, TypeOK, Current
      <3>3. CASE Copy(r)
        BY <1>1, <2>1, <2>2, <2>4, <2>5, <3>3 DEF Copy, Goto, At, TypeOK, Current
      <3>4. CASE Open(r)
        BY <1>1, <2>2, <2>4, <2>5, <3>4 DEF Open, Goto, At, TypeOK
      <3>5. CASE Read(r)
        BY <1>1, <2>1, <2>2, <2>4, <2>5, <3>5 DEF Read, Goto, At, TypeOK, Current
      <3>6. CASE ~(GetObject(r) \/ Create(r) \/ Copy(r) \/ Open(r) \/ Read(r))
        BY <1>1, <2>3, <2>5, <3>6
        DEF Step, Stat, Begin, CopyFails, PutScreenshot, PutZip, DeleteZip, DeletePng,
            CleanCache, Goto, At, TypeOK
      <3> QED
        BY <3>1, <3>2, <3>3, <3>4, <3>5, <3>6
    <2>6. CASE q # r
      <3>1. obj'[q] = obj[q] /\ fd'[q] = fd[q] /\ pc'[q] = pc[q]
        BY <2>6, Frame
      <3>2. ASSUME pc'[q] \in Copying \cup Reading
            PROVE  cache'[Kind(q)] = cache[Kind(q)]
        <4>1. cache[Kind(q)] # Nil
          BY <2>1, <3>1, <3>2 DEF Current, TypeOK, HandleDiscipline
        <4>2. CASE Create(r)
          BY <4>1, <4>2, KindType DEF Create, Created, TypeOK
        <4>3. CASE CleanCache(r)
          BY <2>9, <4>3 DEF CleanCache, At, WritePc
        <4>4. CASE ~(Create(r) \/ CleanCache(r))
          BY <4>4, Zenon DEF Step, Stat, GetObject, Copy, CopyFails, Open, Read,
             PutScreenshot, PutZip, DeleteZip, DeletePng
        <4> QED
          BY <4>2, <4>3, <4>4
      <3> QED
        BY <2>1, <2>2, <2>4, <3>1, <3>2 DEF Current
    <2> QED
      BY <2>5, <2>6
  <1> QED
    BY <1>1

\* A copy that a writer is no longer about to unlink is unlinked, or left.
LEMMA StillClean ==
  ASSUME TypeOK, NEW r \in Requests, Step(r),
         NEW k \in Kinds \ stale', cache'[k] # Nil, ~Unclean(k)'
  PROVE  ~Unclean(k)
  <1> SUFFICES ASSUME Unclean(k) PROVE FALSE
    OBVIOUS
  <1>1. PICK w \in Requests : pc[w] \in Owing[k]
    BY DEF Unclean
  <1>2. w = r /\ pc'[r] \notin Owing[k]
    BY <1>1, Frame DEF Unclean
  <1>3. pc[r] \in WritePc /\ pc[r] \in Owing[k] /\ k \in {"zip", "png"}
    BY <1>1, <1>2 DEF Owing, WritePc, Kinds
  <1> USE DEF TypeOK, Kinds, Owing, Goto, At
  <1>4. CASE PutZip(r)
    BY <1>2, <1>3, <1>4 DEF PutZip, Left
  <1>5. CASE DeletePng(r)
    BY <1>2, <1>3, <1>5 DEF DeletePng
  <1>6. CASE CleanCache(r)
    BY <1>2, <1>3, <1>6 DEF CleanCache, Unlink, Left
  <1> QED
    BY <1>3, <1>4, <1>5, <1>6, Zenon DEF Step, Stat, GetObject, Create, Copy, CopyFails, Open,
       Read, PutScreenshot, DeleteZip, Begin, At, WritePc, Copying

\* What Contents says of one kind.
Sound(k) == bucket[k] # Nil /\ \A p \in Parts : Settled(k, p)

\* Truncating the file leaves both parts to this download.
LEMMA ContentsCreate ==
  ASSUME IInv, NEW r \in Requests, Create(r), NEW k \in Kinds \ stale,
         cache'[k] # Nil, cache[k] # Nil => Sound(k)
  PROVE  Sound(k)'
  <1> DEFINE i == Created(r)
  <1>0. /\ file \in [Requests -> [Parts -> Version]] /\ cache \in [Kinds -> Inode]
        /\ pc \in [Requests -> Labels] /\ fd \in [Requests -> Inode]
        /\ pc[r] = "create"
    BY DEF IInv, TypeOK, Create, At
  <1>1. CASE /\ cache' = [cache EXCEPT ![Kind(r)] = i]
             /\ file' = [file EXCEPT ![i] = Empty]
             /\ fd' = [fd EXCEPT ![r] = i]
             /\ pc' = [pc EXCEPT ![r] = "copyBody"]
             /\ bucket' = bucket
    <2>2. i \in Requests
      BY <1>0, KindType DEF Created, Inode
    <2>3. CASE k = Kind(r)
      <3>1. bucket[k] # Nil
        BY <1>0, <2>3 DEF IInv, Downloads, Current, TypeOK, HandleDiscipline, Loading
      <3>2. cache'[k] = i /\ \A p \in Parts : file'[i][p] = Nil
        BY <1>0, <1>1, <2>2, <2>3 DEF Empty
      <3>3. pc'[r] = "copyBody" /\ fd'[r] = cache'[k]
        BY <1>0, <1>1, <3>2
      <3>4. \A p \in Parts : StillWrites(r, cache[k], p)'
        BY <3>3 DEF StillWrites, Copying
      <3> QED
        BY <1>1, <3>1, <3>2, <3>4 DEF Sound, Settled
    <2>4. CASE k # Kind(r)
      <3>1. cache'[k] = cache[k]
        BY <1>0, <1>1, <2>4
      <3>2. cache[k] # i
        BY <1>0, <2>4, <3>1, KindType DEF IInv, Inodes, Owned, Created
      <3>3. file'[cache[k]] = file[cache[k]]
        BY <1>0, <1>1, <3>1, <3>2 DEF Inode
      <3>4. \A p \in Parts, q \in Requests :
              StillWrites(q, cache[k], p) => StillWrites(q, cache[k], p)'
        BY <1>0, <1>1, <3>1 DEF StillWrites, Copying
      <3> QED
        BY <1>1, <3>1, <3>3, <3>4 DEF Sound, Settled, StillWrites
    <2> QED
      BY <2>3, <2>4
  <1>2. CASE UNCHANGED <<cache, file, fd, bucket>> /\ pc' = [pc EXCEPT ![r] = "failed"]
    <2>1. \A p \in Parts, q \in Requests :
            StillWrites(q, cache[k], p) => StillWrites(q, cache[k], p)'
      BY <1>0, <1>2 DEF StillWrites, Copying
    <2> QED
      BY <1>2, <2>1 DEF Sound, Settled
  <1> QED
    BY <1>1, <1>2 DEF Create, Goto, Truncated

\* A part is written once, with the data of the current object; it stays to be
\* written for whoever has not come to it.
LEMMA ContentsCopy ==
  ASSUME IInv, NEW r \in Requests, Copy(r), NEW k \in Kinds \ stale,
         cache[k] # Nil, Sound(k)
  PROVE  Sound(k)'
  <1> DEFINE i == cache[k]
  <1>0. /\ file \in [Requests -> [Parts -> Version]] /\ cache \in [Kinds -> Inode]
        /\ pc \in [Requests -> Labels] /\ fd \in [Requests -> Inode]
        /\ fd[r] # Nil
    BY DEF IInv, TypeOK, HandleDiscipline, Copy, At, Copying
  <1>1. bucket[k] # Nil /\ \A p \in Parts : Settled(k, p)
    BY DEF Sound
  <1>2. PICK x \in Parts :
          /\ pc[r] = IF x = "body" THEN "copyBody" ELSE "copyTail"
          /\ file' = [file EXCEPT ![fd[r]][x] = obj[r]]
    BY DEF Copy, At, Parts
  <1>3. bucket' = bucket /\ cache' = cache
    BY DEF Copy
  <1>4. i \in Requests /\ fd[r] \in Requests
    BY <1>0 DEF Inode
  <1>5. fd[r] = i => obj[r] = bucket[k]
    BY <1>0, <1>2 DEF IInv, Inodes, Owned, Downloads, Current, Loading, Copying, Parts
  <1>6. ASSUME NEW p \in Parts
        PROVE  \/ file'[i][p] = file[i][p]
               \/ fd[r] = i /\ p = x /\ file'[i][p] = bucket[k]
    BY <1>0, <1>2, <1>4, <1>5
  <1>7. ASSUME NEW p \in Parts, NEW q \in Requests, StillWrites(q, i, p)
        PROVE  StillWrites(q, i, p)' \/ (q = r /\ p = x /\ fd[r] = i)
    <2>1. CASE q # r
      BY <1>3, <1>7, <2>1, Frame DEF Step, IInv, StillWrites
    <2>2. CASE q = r
      BY <1>0, <1>2, <1>3, <1>7, <2>2 DEF StillWrites, Copy, Goto, At, Parts, Copying
    <2> QED
      BY <2>1, <2>2
  <1>8. fd[r] = i => file'[i][x] = bucket[k]
    BY <1>0, <1>2, <1>4, <1>5
  <1>9. ASSUME NEW p \in Parts
        PROVE  Settled(k, p)'
    BY <1>1, <1>3, <1>6, <1>7, <1>8 DEF Settled
  <1> QED
    BY <1>1, <1>3, <1>9 DEF Sound

LEMMA ContentsStep ==
  ASSUME IInv, NEW r \in Requests, Step(r)
  PROVE  Contents'
  <1> SUFFICES ASSUME NEW k \in Kinds, k \notin stale', k \notin partial',
                      cache'[k] # Nil, ~Unclean(k)'
               PROVE  Sound(k)'
    BY DEF Contents, Sound
  <1>1. k \notin stale /\ k \notin partial
    BY Heals DEF IInv
  <1>2. bucket'[k] = bucket[k]
    BY BucketStep DEF IInv, Unclean
  <1>3. ~Unclean(k)
    BY StillClean DEF IInv
  <1>4. cache[k] # Nil => Sound(k)
    BY <1>1, <1>3 DEF IInv, Contents, Sound
  <1>5. CASE Create(r)
    BY <1>1, <1>4, <1>5, ContentsCreate
  <1>6. CASE Copy(r)
    <2>1. cache' = cache
      BY <1>6 DEF Copy
    <2> QED
      BY <1>1, <1>4, <1>6, <2>1, ContentsCopy
  <1>7. CASE ~(Create(r) \/ Copy(r))
    <2>2. cache'[k] = cache[k] /\ file' = file
      <3>1. CASE CleanCache(r)
        BY <3>1 DEF CleanCache, Unlink, IInv, TypeOK, Kinds
      <3>2. CASE ~CleanCache(r)
        BY <1>7, <3>2, Zenon DEF Step, Stat, GetObject, CopyFails, Open, Read,
           PutScreenshot, PutZip, DeleteZip, DeletePng
      <3> QED
        BY <3>1, <3>2
    <2>3. ASSUME NEW q \in Requests, NEW p \in Parts, StillWrites(q, cache[k], p)
          PROVE  StillWrites(q, cache[k], p)'
      <3>1. CASE q # r
        BY <2>2, <2>3, <3>1, Frame DEF IInv, StillWrites
      <3>2. CASE q = r /\ CopyFails(r)
        <4>1. fd[r] = cache[k] /\ Owned(cache[k], k) /\ Owned(cache[k], Kind(r))
          BY <2>2, <2>3, <3>2 DEF StillWrites, IInv, Inodes
        <4>2. Kind(r) = k
          BY <4>1 DEF Owned
        <4> QED
          BY <3>2, <4>2 DEF CopyFails
      <3>3. CASE q = r /\ ~CopyFails(r)
        BY <1>7, <2>3, <3>3 DEF Step, Stat, GetObject, Open, Read, PutScreenshot, PutZip,
           DeleteZip, DeletePng, CleanCache, Begin, At, StillWrites, Copying
      <3> QED
        BY <3>1, <3>2, <3>3
    <2> QED
      BY <1>2, <1>4, <2>2, <2>3 DEF Sound, Settled, StillWrites
  <1> QED
    BY <1>5, <1>6, <1>7

LEMMA InductiveInit == Init => IInv
  <1> SUFFICES ASSUME Init PROVE IInv
    OBVIOUS
  <1>1. TypeOK
    BY TypeInit
  <1>2. Classes /\ Inodes /\ Exclusion
    BY DEF Init, Classes, Inodes, Exclusion, ReadPc, WritePc, Loading, Reading, Copying
  <1>3. Downloads /\ Contents
    BY DEF Init, Downloads, Current, Contents, Loading, Reading, Copying
  <1> QED
    BY <1>1, <1>2, <1>3 DEF IInv

\* After a crash no request is in a step; the copies that were to be unlinked or
\* completed are in the histories.
LEMMA InductiveCrash == IInv /\ Crash => IInv'
  <1> SUFFICES ASSUME IInv, Crash PROVE IInv'
    OBVIOUS
  <1>1. TypeOK'
    BY TypeCrash DEF IInv
  <1>2. /\ \A r \in Requests :
             /\ pc'[r] \in {"idle"} \cup Final
             /\ pc[r] # "idle" => pc'[r] # "idle"
             /\ fd'[r] = Nil
        /\ \A k \in Kinds : cache'[k] # Nil => cache'[k] = cache[k]
        /\ op' = op
    BY DEF Crash, InFlight, Final
  <1>3. Classes' /\ Exclusion'
    BY <1>2 DEF Classes, Exclusion, ReadPc, WritePc, Loading, Reading, Copying, Final
  <1>4. Inodes'
    BY <1>2 DEF Inodes, IInv, Owned, Kind, Final
  <1>5. Downloads'
    BY <1>2 DEF Downloads, Current, Loading, Reading, Copying, Final
  <1>6. ASSUME NEW k \in Kinds, k \notin stale', k \notin partial', cache'[k] # Nil
        PROVE  Sound(k)'
    <2>1. /\ UNCHANGED <<cache, bucket, file>>
          /\ stale' = stale \cup {j \in {c \in Kinds : Unclean(c)} : cache[j] # Nil}
          /\ partial' = partial \cup {Kind(r) : r \in {q \in Requests : pc[q] \in Copying}}
      BY <1>6 DEF Crash, Left
    <2>2. ~Unclean(k) /\ Sound(k)
      BY <1>6, <2>1 DEF IInv, Contents, Sound
    <2>3. ASSUME NEW q \in Requests, NEW p \in Parts
          PROVE  ~StillWrites(q, cache[k], p)
      <3>1. SUFFICES ASSUME StillWrites(q, cache[k], p) PROVE FALSE
        OBVIOUS
      <3>2. pc[q] \in Copying /\ Owned(cache[k], k) /\ Owned(cache[k], Kind(q))
        BY <1>6, <2>1, <3>1 DEF StillWrites, IInv, Inodes, Copying
      <3>3. Kind(q) = k
        BY <3>2 DEF Owned
      <3> QED
        BY <1>6, <2>1, <3>2, <3>3
    <2> QED
      BY <2>1, <2>2, <2>3 DEF Sound, Settled
  <1>7. Contents'
    BY <1>6 DEF Contents, Sound
  <1> QED
    BY <1>1, <1>3, <1>4, <1>5, <1>7 DEF IInv

LEMMA InductiveStutter == IInv /\ UNCHANGED vars => IInv'
  <1> SUFFICES ASSUME IInv, UNCHANGED vars PROVE IInv'
    OBVIOUS
  <1>1. TypeOK'
    BY TypeStutter DEF IInv
  <1>2. Classes' /\ Inodes' /\ Exclusion'
    BY DEF IInv, Classes, Inodes, Owned, Kind, Exclusion, vars, history
  <1>3. Downloads' /\ Contents'
    BY DEF IInv, Downloads, Current, Kind, Contents, Unclean, Settled, StillWrites, vars,
       history
  <1> QED
    BY <1>1, <1>2, <1>3 DEF IInv

LEMMA InductiveStep ==
  ASSUME IInv, NEW r \in Requests, Step(r)
  PROVE  IInv'
  BY TypeStep, ClassesStep, InodesStep, ExclusionStep, DownloadsStep, ContentsStep DEF IInv

\* The invariant the theorems below rest on.
THEOREM Inductive == Spec => []IInv
  <1>1. IInv /\ [Next]_vars => IInv'
    BY InductiveStep, InductiveCrash, InductiveStutter DEF Next
  <1> QED
    BY <1>1, InductiveInit, PTL DEF Spec

LEMMA CoherentFromInductive == IInv => CacheCoherent
  <1> SUFFICES ASSUME IInv, Idle, NEW k \in Kinds \ (stale \cup partial), cache[k] # Nil
               PROVE  bucket[k] # Nil /\ \A p \in Parts : file[cache[k]][p] = bucket[k]
    BY DEF CacheCoherent, Coherent
  <1>1. ~Unclean(k)
    <2>1. \A w \in Requests : pc[w] \in {"idle"} \cup Final
      BY DEF Idle, InFlight
    <2> QED
      BY <2>1 DEF Unclean, Owing, Kinds, Final
  <1>2. \A q \in Requests, p \in Parts : ~StillWrites(q, cache[k], p)
    BY DEF Idle, InFlight, StillWrites, Copying, Final, IInv, TypeOK
  <1> QED
    BY <1>1, <1>2 DEF IInv, Contents, Settled

\* Whatever the number of requests, their interleaving and the calls that fail: when
\* all is quiet, the cache holds nothing but the whole copy of the current object, of
\* every kind that nothing has put at risk since its copy was last unlinked.
THEOREM CacheIsCoherent == Spec => []CacheCoherent
  BY Inductive, CoherentFromInductive, PTL

--------------------------------------------------------------------------------
(* Incomplete files: TornInv is inductive.  It does not speak of versions. *)

\* The cache names inode i under kind k, or a request for k has it open.
InUse(i, k) == i = cache[k] \/ \E r \in Requests : fd[r] = i /\ Kind(r) = k

\* What a file in use lacks is still to be written by a download that has it open.
Filled ==
    \A k \in Kinds \ partial, i \in Requests, p \in Parts :
        InUse(i, k) /\ file[i][p] = Nil => \E q \in Requests : StillWrites(q, i, p)

TornInv == IInv /\ Filled

\* A download writes into an inode of the kind it is of.
LEMMA WritesItsKind ==
  ASSUME IInv, NEW k \in Kinds, NEW i \in Requests, InUse(i, k),
         NEW q \in Requests, NEW p, StillWrites(q, i, p)
  PROVE  pc[q] \in Copying /\ Kind(q) = k
  <1>1. pc[q] \in Copying /\ fd[q] = i
    BY DEF StillWrites, Copying
  <1>2. i # Nil
    BY NilAssumption
  <1>3. Kind(i) = k
    BY <1>2 DEF InUse, IInv, Inodes, Owned
  <1> QED
    BY <1>1, <1>2, <1>3 DEF IInv, Inodes, Owned

\* Only Create puts an inode to use that was not.
LEMMA InUseStep ==
  ASSUME IInv, NEW r \in Requests, Step(r), NEW k \in Kinds, NEW i \in Requests,
         InUse(i, k)', ~(Create(r) /\ i = Created(r))
  PROVE  InUse(i, k)
  <1>1. i # Nil
    BY NilAssumption
  <1>2. CASE i = cache'[k]
    BY <1>1, <1>2, Holds DEF InUse, IInv
  <1>3. ASSUME NEW q \in Requests, fd'[q] = i, Kind(q)' = k
        PROVE  InUse(i, k)
    <2>1. CASE fd[q] = fd'[q]
      <3>1. pc[q] # "idle"
        BY <1>1, <1>3, <2>1 DEF IInv, TypeOK, HandleDiscipline, Copying
      <3>2. op'[q] = op[q]
        BY <3>1, Moves DEF IInv, TypeOK, Begin
      <3> QED
        BY <1>3, <2>1, <3>2 DEF InUse, Kind
    <2>2. CASE fd[q] # fd'[q]
      <3>1. q = r /\ Open(r) /\ i = cache[Kind(r)]
        BY <1>1, <1>3, <2>2, Holds DEF IInv
      <3>2. Kind(r)' = Kind(r)
        BY <3>1 DEF Open, At, Kind
      <3> QED
        BY <1>3, <3>1, <3>2 DEF InUse
    <2> QED
      BY <2>1, <2>2
  <1> QED
    BY <1>2, <1>3 DEF InUse

\* A kind whose copy is unlinked for good has no inode in use any more.
LEMMA StillPartial ==
  ASSUME IInv, NEW r \in Requests, Step(r), NEW k \in Kinds \ partial', NEW i \in Requests,
         InUse(i, k)'
  PROVE  k \notin partial
  <1> SUFFICES ASSUME k \in partial PROVE FALSE
    OBVIOUS
  <1>1. /\ CleanCache(r) /\ cache'[k] = Nil
        /\ \A q \in Requests : pc[q] \in ReadPc => Kind(q) # k
    BY Heals DEF IInv
  <1>2. PICK q \in Requests : fd'[q] = i /\ Kind(q)' = k
    BY <1>1, NilAssumption DEF InUse
  <1>3. fd[q] = i /\ Kind(q) = k
    BY <1>1, <1>2 DEF CleanCache, At, Kind
  <1>4. pc[q] \in ReadPc
    BY <1>3, NilAssumption DEF IInv, TypeOK, HandleDiscipline, ReadPc, Loading, Reading
  <1> QED
    BY <1>1, <1>3, <1>4

LEMMA FilledStep ==
  ASSUME TornInv, NEW r \in Requests, Step(r)
  PROVE  Filled'
  <1> SUFFICES ASSUME NEW k \in Kinds \ partial', NEW i \in Requests, NEW p \in Parts,
                      InUse(i, k)', file'[i][p] = Nil
               PROVE  \E q \in Requests : StillWrites(q, i, p)'
    BY DEF Filled
  <1>0. /\ file \in [Requests -> [Parts -> Version]] /\ pc \in [Requests -> Labels]
        /\ fd \in [Requests -> Inode]
        /\ k \notin partial
    BY StillPartial DEF TornInv, IInv, TypeOK
  <1>1. CASE Create(r) /\ i = Created(r) /\ pc'[r] = "copyBody"
    <2>1. fd'[r] = i
      BY <1>0, <1>1 DEF Create, Goto
    <2> QED
      BY <1>1, <2>1 DEF StillWrites, Copying
  <1>2. CASE ~(Create(r) /\ i = Created(r) /\ pc'[r] = "copyBody")
    <2>1. InUse(i, k)
      <3>1. CASE Create(r) /\ i = Created(r)
        <4>1. pc'[r] = "failed" /\ UNCHANGED <<cache, fd, op>>
          BY <1>0, <1>2, <3>1 DEF Create, Goto, At
        <4> QED
          BY <4>1 DEF InUse, Kind
      <3> QED
        BY <3>1, InUseStep DEF TornInv
    <2>2. CASE Copy(r)
      <3>1. obj[r] # Nil
        BY <2>2 DEF Copy, At, TornInv, IInv, TypeOK, HandleDiscipline, Copying
      <3>2. file[i][p] = Nil /\ ~(i = fd[r] /\ p = (IF pc[r] = "copyBody" THEN "body" ELSE "tail"))
        BY <1>0, <2>2, <3>1 DEF Copy, At, Parts
      <3>3. PICK q \in Requests : StillWrites(q, i, p)
        BY <1>0, <2>1, <3>2 DEF TornInv, Filled
      <3>4. CASE q = r
        BY <1>0, <2>2, <3>2, <3>3, <3>4 DEF StillWrites, Copy, At, Goto, Copying, Parts
      <3>5. CASE q # r
        BY <3>3, <3>5, Frame DEF StillWrites, TornInv, IInv
      <3> QED
        BY <3>4, <3>5
    <2>3. CASE ~Copy(r)
      <3>1. file'[i] = file[i]
        <4>1. CASE Create(r)
          BY <1>0, <1>2, <4>1 DEF Create, Truncated, Goto
        <4>2. CASE ~Create(r)
          BY <2>3, <4>2, Zenon DEF Step, Stat, GetObject, CopyFails, Open, Read, PutScreenshot,
             PutZip, DeleteZip, DeletePng, CleanCache
        <4> QED
          BY <4>1, <4>2
      <3>2. PICK q \in Requests : StillWrites(q, i, p)
        BY <1>0, <2>1, <3>1 DEF TornInv, Filled
      <3>3. pc[q] \in Copying /\ Kind(q) = k
        BY <2>1, <3>2, WritesItsKind DEF TornInv
      <3>4. CASE q = r
        <4>1. CopyFails(r)
          BY <2>3, <3>3, <3>4, Zenon DEF Step, Stat, Begin, GetObject, Create, Open, Read,
             PutScreenshot, PutZip, DeleteZip, DeletePng, CleanCache, At, Copying
        <4> QED
          BY <3>3, <3>4, <4>1 DEF CopyFails
      <3>5. CASE q # r
        BY <3>2, <3>5, Frame DEF StillWrites, TornInv, IInv
      <3> QED
        BY <3>4, <3>5
    <2> QED
      BY <2>2, <2>3
  <1> QED
    BY <1>1, <1>2

\* A crash ends all downloads, and those that had a file open leave it to the history.
LEMMA FilledCrash == TornInv /\ Crash => Filled'
  <1> SUFFICES ASSUME TornInv, Crash,
                      NEW k \in Kinds \ partial', NEW i \in Requests, NEW p \in Parts,
                      InUse(i, k)', file'[i][p] = Nil
               PROVE  FALSE
    BY DEF Filled
  <1>1. i = cache'[k] /\ cache'[k] # Nil
    BY NilAssumption DEF InUse, Crash
  <1>2. /\ UNCHANGED <<cache, file>>
        /\ partial' = partial \cup {Kind(r) : r \in {q \in Requests : pc[q] \in Copying}}
    BY <1>1 DEF Crash
  <1>3. InUse(i, k) /\ file[i][p] = Nil /\ k \notin partial
    BY <1>1, <1>2 DEF InUse
  <1>4. PICK q \in Requests : StillWrites(q, i, p)
    BY <1>3 DEF TornInv, Filled
  <1>5. pc[q] \in Copying /\ Kind(q) = k
    BY <1>3, <1>4, WritesItsKind DEF TornInv
  <1> QED
    BY <1>2, <1>5

THEOREM TornInductive == Spec => []TornInv
  <1>1. Init => Filled
    BY NilAssumption DEF Init, Filled, InUse
  <1>2. TornInv /\ [Next]_vars => TornInv'
    <2> SUFFICES ASSUME TornInv, [Next]_vars PROVE TornInv'
      OBVIOUS
    <2>1. ASSUME NEW r \in Requests, Step(r) PROVE TornInv'
      BY <2>1, InductiveStep, FilledStep DEF TornInv
    <2>2. CASE Crash
      BY <2>2, InductiveCrash, FilledCrash DEF TornInv
    <2>3. CASE UNCHANGED vars
      <3>1. IInv'
        BY <2>3, InductiveStutter DEF TornInv
      <3> QED
        BY <2>3, <3>1 DEF TornInv, Filled, InUse, Kind, StillWrites, vars, history
    <2> QED
      BY <2>1, <2>2, <2>3 DEF Next
  <1> QED
    BY <1>1, <1>2, InductiveInit, PTL DEF Spec, TornInv

LEMMA TornStep ==
  ASSUME TornInv, NEW r \in Requests, NEW p \in Parts,
         pc[r] \in Reading, file[fd[r]][p] = Nil, Kind(r) \notin partial
  PROVE  \E q \in Requests \ {r} : StillWrites(q, fd[r], p)
  <1>1. fd[r] \in Requests
    BY DEF TornInv, IInv, TypeOK, Inode, HandleDiscipline, Reading
  <1>2. InUse(fd[r], Kind(r)) /\ Kind(r) \in Kinds
    BY KindType DEF InUse
  <1>3. PICK q \in Requests : StillWrites(q, fd[r], p)
    BY <1>1, <1>2 DEF TornInv, Filled
  <1>4. q # r
    BY <1>3 DEF StillWrites, Reading, Copying
  <1> QED
    BY <1>3, <1>4

\* Whatever the number of requests, and whatever else fails or overlaps: an incomplete
\* file is served with status 200 only during another download into it, unless one of
\* that kind has broken off since its copy was last unlinked.
THEOREM TornOnlyDuringDownload == Spec => TornReadMeansConcurrentDownload
  <1>1. TornInv /\ [Next]_vars => [\A r \in Requests, p \in Parts :
          /\ pc[r] \in {"readBody", "readTail"} /\ pc'[r] # pc[r]
          /\ p = (IF pc[r] = "readBody" THEN "body" ELSE "tail")
          /\ file[fd[r]][p] = Nil
          /\ Kind(r) \notin partial
          => \E q \in Requests \ {r} : StillWrites(q, fd[r], p)]_vars
    BY TornStep DEF Reading
  <1> QED
    BY <1>1, TornInductive, PTL DEF Spec, TornReadMeansConcurrentDownload

================================================================================
