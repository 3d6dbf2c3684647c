------------------------- MODULE KubernetesRunnerProofs -------------------------
(***************************************************************************)
(* Theorems about KubernetesRunner, for every set of requests and faults   *)
(* and every number of slots and attempts.                                 *)
(***************************************************************************)
EXTENDS KubernetesRunner, SequenceTheorems, TLAPS

\* The steps of an analysis that has created its pod and not deleted it yet.
Owning == Waiting \cup {"copy", "discard", "remove"}

Types ==
    /\ pc \in [Requests -> Labels]
    /\ holder \in Requests \cup {Nil}
    /\ status \in States
    /\ terminating \in BOOLEAN
    /\ late \subseteq Requests
    /\ copied \in [Requests -> Requests \cup {Nil}]
    /\ disturbed \in [Requests -> BOOLEAN]

Queues == unread \in [Requests -> Seq(Events)]

\* Two analyses under way at once know of each other.
Overlaps ==
    \A q, r \in Requests :
        q # r /\ pc[q] \in Holding /\ pc[r] \in Holding => disturbed[r]

\* The pod of an undisturbed analysis is there as long as it needs it.
Owns ==
    \A r \in Requests :
        pc[r] \in Owning /\ ~disturbed[r] => holder = r /\ ~terminating

Results ==
    \A r \in Requests :
        pc[r] \in {"remove", "ok"} /\ ~disturbed[r] => copied[r] = r

\* What the last event of a watch says, once all is read, is how things are.
Now == IF holder = Nil THEN "deleted" ELSE status
UpToDate(r) ==
    IF unread[r] = << >> THEN Now = "working"
                         ELSE unread[r][Len(unread[r])] = Now
Fresh ==
    \A r \in Requests : IF pc[r] \in Watchers THEN UpToDate(r) ELSE unread[r] = << >>

\* As long as nothing has leaked, a pod is terminating or has its analysis.
Reclaims ==
    leaks = {} =>
        /\ late = {}
        /\ holder # Nil => terminating \/ pc[holder] \in Owning

IInv == Types /\ Queues /\ Overlaps /\ Owns /\ Results /\ Fresh /\ Reclaims

--------------------------------------------------------------------------------

LEMMA InitInv == Init => IInv
  <1> SUFFICES ASSUME Init PROVE IInv
    OBVIOUS
  <1>1. Types
    BY DEF Init, Types, Labels, States
  <1>2. Queues
    <2>1. << >> \in Seq(Events)
      OBVIOUS
    <2> QED
      BY <2>1 DEF Init, Queues
  <1>3. Overlaps /\ Owns /\ Results /\ Fresh
    BY DEF Init, Overlaps, Owns, Results, Fresh, Holding, Waiting, Watchers, Owning
  <1>4. Reclaims
    BY DEF Init, Reclaims
  <1> QED
    BY <1>1, <1>2, <1>3, <1>4 DEF IInv

\* The moves of a watch keep it a queue of events.
LEMMA Unwatched ==
  ASSUME Queues, NEW r \in Requests, Unwatch(r)
  PROVE  Queues'
  BY DEF Queues, Unwatch

LEMMA Emitted ==
  ASSUME Queues, NEW e \in Events, Emit(e)
  PROVE  Queues'
  <1>1. ASSUME NEW s \in Seq(Events) PROVE Append(s, e) \in Seq(Events)
    OBVIOUS
  <1> QED
    BY <1>1 DEF Queues, Emit

\* The watches hold events only.
LEMMA QueuesStep ==
  ASSUME Types, Queues, [Next]_vars
  PROVE  Queues'
  <1> USE RequestsAssumption
      DEF Goto, Return, Fails, Untouched, Deleted, DeletedByOther, Added,
          Vanished, request, pod, server, cleaner, history, failures, Types,
          States, Queues
  <1>1. ASSUME NEW r \in Requests, Arrive(r) PROVE Queues'
    BY <1>1 DEF Arrive
  <1>2. ASSUME NEW r \in Requests, Acquire(r) PROVE Queues'
    BY <1>2 DEF Acquire
  <1>3. ASSUME NEW r \in Requests, GiveUp(r) PROVE Queues'
    BY <1>3 DEF GiveUp
  <1>4. ASSUME NEW r \in Requests, Delete(r) PROVE Queues'
    BY <1>4, Emitted DEF Delete, Events
  <1>5. ASSUME NEW r \in Requests, AwaitGone(r) PROVE Queues'
    BY <1>5 DEF AwaitGone
  <1>6. ASSUME NEW r \in Requests, Create(r) PROVE Queues'
    BY <1>6, Emitted DEF Create, Events
  <1>7. ASSUME NEW r \in Requests, Get(r) PROVE Queues'
    BY <1>7 DEF Get
  <1>8. ASSUME NEW r \in Requests, Watch(r) PROVE Queues'
    BY <1>8, Unwatched DEF Watch
  <1>9. ASSUME NEW r \in Requests, Event(r) PROVE Queues'
    <2>1. unread[r] \in Seq(Events) /\ unread[r] # << >>
      BY <1>9 DEF Event, Queues
    <2>2. Head(unread[r]) \in Events /\ Tail(unread[r]) \in Seq(Events)
      BY <2>1
    <2>3. [unread EXCEPT ![r] = Tail(@)] \in [Requests -> Seq(Events)]
      BY <2>2 DEF Queues
    <2> QED
      BY <1>9, <2>3, Unwatched DEF Event
  <1>10. ASSUME NEW r \in Requests, Copy(r) PROVE Queues'
    BY <1>10 DEF Copy
  <1>11. ASSUME NEW r \in Requests, Remove(r) PROVE Queues'
    BY <1>11, Emitted DEF Remove, Events
  <1>12. ASSUME NEW r \in Requests, WatchBreaks(r) PROVE Queues'
    BY <1>12, Unwatched DEF WatchBreaks
  <1>13. ASSUME NEW r \in Requests, Expire(r) PROVE Queues'
    BY <1>13, Unwatched DEF Expire
  <1>14. ASSUME NEW r \in Requests, CreateLate(r) PROVE Queues'
    BY <1>14, Emitted DEF CreateLate, Events
  <1>15. CASE Progress
    BY <1>15, Emitted DEF Progress, Outcomes, Events
  <1>16. CASE Gone
    BY <1>16, Emitted DEF Gone, Events
  <1>17. CASE Evict
    BY <1>17, Emitted DEF Evict, Events
  <1>18. CASE GrowOld
    BY <1>18 DEF GrowOld
  <1>19. CASE Crash
    BY <1>19 DEF Crash
  <1>20. CASE List
    BY <1>20 DEF List
  <1>21. CASE SweepDelete
    BY <1>21, Emitted DEF SweepDelete, Events
  <1>22. CASE UNCHANGED vars
    BY <1>22 DEF vars
  <1> QED
    BY <1>1, <1>2, <1>3, <1>4, <1>5, <1>6, <1>7, <1>8, <1>9, <1>10, <1>11,
       <1>12, <1>13, <1>14, <1>15, <1>16, <1>17, <1>18, <1>19, <1>20, <1>21,
       <1>22
    DEF Next, Call, Sweep

\* Every step preserves the types.
LEMMA TypesStep ==
  ASSUME Types, Queues, [Next]_vars
  PROVE  Types'
  <1> USE RequestsAssumption
      DEF Goto, Return, Fails, Untouched, Unwatch, Deleted, DeletedByOther, Added,
          Vanished, Emit, request, pod, server, cleaner, history, failures, Types,
          Labels, States, Holding, Waiting, Watchers, Final, AfterSeeing,
          Outcomes, InFlight
  <1>1. ASSUME NEW r \in Requests, Arrive(r) PROVE Types'
    BY <1>1 DEF Arrive
  <1>2. ASSUME NEW r \in Requests, Acquire(r) PROVE Types'
    BY <1>2 DEF Acquire
  <1>3. ASSUME NEW r \in Requests, GiveUp(r) PROVE Types'
    BY <1>3 DEF GiveUp
  <1>4. ASSUME NEW r \in Requests, Delete(r) PROVE Types'
    BY <1>4 DEF Delete
  <1>5. ASSUME NEW r \in Requests, AwaitGone(r) PROVE Types'
    BY <1>5 DEF AwaitGone
  <1>6. ASSUME NEW r \in Requests, Create(r) PROVE Types'
    BY <1>6 DEF Create
  <1>7. ASSUME NEW r \in Requests, Get(r) PROVE Types'
    BY <1>7 DEF Get
  <1>8. ASSUME NEW r \in Requests, Watch(r) PROVE Types'
    BY <1>8 DEF Watch
  <1>9. ASSUME NEW r \in Requests, Event(r) PROVE Types'
    <2>1. unread[r] \in Seq(Events) /\ unread[r] # << >>
      BY <1>9 DEF Event, Queues
    <2>2. Head(unread[r]) \in Events /\ Tail(unread[r]) \in Seq(Events)
      BY <2>1
    <2> QED
      BY <1>9, <2>2 DEF Event
  <1>10. ASSUME NEW r \in Requests, Copy(r) PROVE Types'
    BY <1>10 DEF Copy
  <1>11. ASSUME NEW r \in Requests, Remove(r) PROVE Types'
    BY <1>11 DEF Remove
  <1>12. ASSUME NEW r \in Requests, WatchBreaks(r) PROVE Types'
    BY <1>12 DEF WatchBreaks
  <1>13. ASSUME NEW r \in Requests, Expire(r) PROVE Types'
    BY <1>13 DEF Expire
  <1>14. ASSUME NEW r \in Requests, CreateLate(r) PROVE Types'
    BY <1>14 DEF CreateLate
  <1>15. CASE Progress
    BY <1>15 DEF Progress
  <1>16. CASE Gone
    BY <1>16 DEF Gone
  <1>17. CASE Evict
    BY <1>17 DEF Evict
  <1>18. CASE GrowOld
    BY <1>18 DEF GrowOld
  <1>19. CASE Crash
    BY <1>19 DEF Crash
  <1>20. CASE List
    BY <1>20 DEF List
  <1>21. CASE SweepDelete
    BY <1>21 DEF SweepDelete
  <1>22. CASE UNCHANGED vars
    BY <1>22 DEF vars
  <1> QED
    BY <1>1, <1>2, <1>3, <1>4, <1>5, <1>6, <1>7, <1>8, <1>9, <1>10, <1>11,
       <1>12, <1>13, <1>14, <1>15, <1>16, <1>17, <1>18, <1>19, <1>20, <1>21,
       <1>22
    DEF Next, Call, Sweep

\* Only Acquire adds to the analyses under way, and it marks them.
LEMMA OverlapsStep ==
  ASSUME Types, Overlaps, [Next]_vars
  PROVE  Overlaps'
  <1> USE RequestsAssumption
      DEF Goto, Return, Fails, Untouched, Unwatch, Deleted, DeletedByOther, Added,
          Vanished, Emit, request, pod, server, cleaner, history, failures, Types,
          Overlaps, Holding, Waiting, Watchers, Final, AfterSeeing, InFlight
  <1>1. ASSUME NEW r \in Requests, Arrive(r) PROVE Overlaps'
    BY <1>1 DEF Arrive
  <1>2. ASSUME NEW r \in Requests, Acquire(r) PROVE Overlaps'
    BY <1>2 DEF Acquire
  <1>3. ASSUME NEW r \in Requests, GiveUp(r) PROVE Overlaps'
    BY <1>3 DEF GiveUp
  <1>4. ASSUME NEW r \in Requests, Delete(r) PROVE Overlaps'
    <2>1. \A q \in Requests : pc'[q] \in Holding => pc[q] \in Holding
      BY <1>4 DEF Delete
    <2>2. UNCHANGED disturbed
      BY <1>4 DEF Delete
    <2> QED
      BY <2>1, <2>2 DEF Overlaps
  <1>5. ASSUME NEW r \in Requests, AwaitGone(r) PROVE Overlaps'
    <2>1. \A q \in Requests : pc'[q] \in Holding => pc[q] \in Holding
      BY <1>5 DEF AwaitGone
    <2>2. UNCHANGED disturbed
      BY <1>5 DEF AwaitGone
    <2> QED
      BY <2>1, <2>2 DEF Overlaps
  <1>6. ASSUME NEW r \in Requests, Create(r) PROVE Overlaps'
    <2>1. \A q \in Requests : pc'[q] \in Holding => pc[q] \in Holding
      BY <1>6 DEF Create
    <2>2. UNCHANGED disturbed
      BY <1>6 DEF Create
    <2> QED
      BY <2>1, <2>2 DEF Overlaps
  <1>7. ASSUME NEW r \in Requests, Get(r) PROVE Overlaps'
    <2>1. \A q \in Requests : pc'[q] \in Holding => pc[q] \in Holding
      BY <1>7 DEF Get
    <2>2. UNCHANGED disturbed
      BY <1>7 DEF Get
    <2> QED
      BY <2>1, <2>2 DEF Overlaps
  <1>8. ASSUME NEW r \in Requests, Watch(r) PROVE Overlaps'
    <2>1. \A q \in Requests : pc'[q] \in Holding => pc[q] \in Holding
      BY <1>8 DEF Watch
    <2>2. UNCHANGED disturbed
      BY <1>8 DEF Watch
    <2> QED
      BY <2>1, <2>2 DEF Overlaps
  <1>9. ASSUME NEW r \in Requests, Event(r) PROVE Overlaps'
    <2>1. \A q \in Requests : pc'[q] \in Holding => pc[q] \in Holding
      BY <1>9 DEF Event
    <2>2. UNCHANGED disturbed
      BY <1>9 DEF Event
    <2> QED
      BY <2>1, <2>2 DEF Overlaps
  <1>10. ASSUME NEW r \in Requests, Copy(r) PROVE Overlaps'
    <2>1. \A q \in Requests : pc'[q] \in Holding => pc[q] \in Holding
      BY <1>10 DEF Copy
    <2>2. UNCHANGED disturbed
      BY <1>10 DEF Copy
    <2> QED
      BY <2>1, <2>2 DEF Overlaps
  <1>11. ASSUME NEW r \in Requests, Remove(r) PROVE Overlaps'
    <2>1. \A q \in Requests : pc'[q] \in Holding => pc[q] \in Holding
      BY <1>11 DEF Remove
    <2>2. UNCHANGED disturbed
      BY <1>11 DEF Remove
    <2> QED
      BY <2>1, <2>2 DEF Overlaps
  <1>12. ASSUME NEW r \in Requests, WatchBreaks(r) PROVE Overlaps'
    <2>1. \A q \in Requests : pc'[q] \in Holding => pc[q] \in Holding
      BY <1>12 DEF WatchBreaks
    <2>2. UNCHANGED disturbed
      BY <1>12 DEF WatchBreaks
    <2> QED
      BY <2>1, <2>2 DEF Overlaps
  <1>13. ASSUME NEW r \in Requests, Expire(r) PROVE Overlaps'
    <2>1. \A q \in Requests : pc'[q] \in Holding => pc[q] \in Holding
      BY <1>13 DEF Expire
    <2>2. UNCHANGED disturbed
      BY <1>13 DEF Expire
    <2> QED
      BY <2>1, <2>2 DEF Overlaps
  <1>14. ASSUME NEW r \in Requests, CreateLate(r) PROVE Overlaps'
    BY <1>14 DEF CreateLate
  <1>15. CASE Progress
    BY <1>15 DEF Progress
  <1>16. CASE Gone
    BY <1>16 DEF Gone
  <1>17. CASE Evict
    BY <1>17 DEF Evict
  <1>18. CASE GrowOld
    BY <1>18 DEF GrowOld
  <1>19. CASE Crash
    BY <1>19 DEF Crash
  <1>20. CASE List
    BY <1>20 DEF List
  <1>21. CASE SweepDelete
    BY <1>21 DEF SweepDelete
  <1>22. CASE UNCHANGED vars
    BY <1>22 DEF vars
  <1> QED
    BY <1>1, <1>2, <1>3, <1>4, <1>5, <1>6, <1>7, <1>8, <1>9, <1>10, <1>11,
       <1>12, <1>13, <1>14, <1>15, <1>16, <1>17, <1>18, <1>19, <1>20, <1>21,
       <1>22
    DEF Next, Call, Sweep

\* Whoever deletes a pod whose analysis is under way marks it.
LEMMA OwnsStep ==
  ASSUME Types, Overlaps, Owns, [Next]_vars
  PROVE  Owns'
  <1> USE RequestsAssumption
      DEF Goto, Return, Fails, Untouched, Unwatch, Deleted, DeletedByOther, Added,
          Vanished, Emit, request, pod, server, cleaner, history, failures, Types,
          Overlaps, Owns, Owning, Holding, Waiting, Watchers, Final, AfterSeeing,
          InFlight
  <1>1. ASSUME NEW r \in Requests, Arrive(r) PROVE Owns'
    BY <1>1 DEF Arrive
  <1>2. ASSUME NEW r \in Requests, Acquire(r) PROVE Owns'
    BY <1>2 DEF Acquire
  <1>3. ASSUME NEW r \in Requests, GiveUp(r) PROVE Owns'
    BY <1>3 DEF GiveUp
  <1>4. ASSUME NEW r \in Requests, Delete(r) PROVE Owns'
    BY <1>4 DEF Delete
  <1>5. ASSUME NEW r \in Requests, AwaitGone(r) PROVE Owns'
    BY <1>5 DEF AwaitGone
  <1>6. ASSUME NEW r \in Requests, Create(r) PROVE Owns'
    BY <1>6 DEF Create
  <1>7. ASSUME NEW r \in Requests, Get(r) PROVE Owns'
    BY <1>7 DEF Get
  <1>8. ASSUME NEW r \in Requests, Watch(r) PROVE Owns'
    BY <1>8 DEF Watch
  <1>9. ASSUME NEW r \in Requests, Event(r) PROVE Owns'
    BY <1>9 DEF Event
  <1>10. ASSUME NEW r \in Requests, Copy(r) PROVE Owns'
    BY <1>10 DEF Copy
  <1>11. ASSUME NEW r \in Requests, Remove(r) PROVE Owns'
    BY <1>11 DEF Remove
  <1>12. ASSUME NEW r \in Requests, WatchBreaks(r) PROVE Owns'
    BY <1>12 DEF WatchBreaks
  <1>13. ASSUME NEW r \in Requests, Expire(r) PROVE Owns'
    BY <1>13 DEF Expire
  <1>14. ASSUME NEW r \in Requests, CreateLate(r) PROVE Owns'
    BY <1>14 DEF CreateLate
  <1>15. CASE Progress
    BY <1>15 DEF Progress
  <1>16. CASE Gone
    BY <1>16 DEF Gone
  <1>17. CASE Evict
    BY <1>17 DEF Evict
  <1>18. CASE GrowOld
    BY <1>18 DEF GrowOld
  <1>19. CASE Crash
    BY <1>19 DEF Crash
  <1>20. CASE List
    BY <1>20 DEF List
  <1>21. CASE SweepDelete
    BY <1>21 DEF SweepDelete
  <1>22. CASE UNCHANGED vars
    BY <1>22 DEF vars
  <1> QED
    BY <1>1, <1>2, <1>3, <1>4, <1>5, <1>6, <1>7, <1>8, <1>9, <1>10, <1>11,
       <1>12, <1>13, <1>14, <1>15, <1>16, <1>17, <1>18, <1>19, <1>20, <1>21,
       <1>22
    DEF Next, Call, Sweep

\* An undisturbed analysis finds its own pod when it copies.
LEMMA ResultsStep ==
  ASSUME Types, Owns, Results, [Next]_vars
  PROVE  Results'
  <1> USE RequestsAssumption
      DEF Goto, Return, Fails, Untouched, Unwatch, Deleted, DeletedByOther, Added,
          Vanished, Emit, request, pod, server, cleaner, history, failures, Types,
          Owns, Results, Owning, Holding, Waiting, Watchers, Final, AfterSeeing,
          InFlight
  <1>1. ASSUME NEW r \in Requests, Arrive(r) PROVE Results'
    BY <1>1 DEF Arrive
  <1>2. ASSUME NEW r \in Requests, Acquire(r) PROVE Results'
    BY <1>2 DEF Acquire
  <1>3. ASSUME NEW r \in Requests, GiveUp(r) PROVE Results'
    BY <1>3 DEF GiveUp
  <1>4. ASSUME NEW r \in Requests, Delete(r) PROVE Results'
    BY <1>4 DEF Delete
  <1>5. ASSUME NEW r \in Requests, AwaitGone(r) PROVE Results'
    BY <1>5 DEF AwaitGone
  <1>6. ASSUME NEW r \in Requests, Create(r) PROVE Results'
    BY <1>6 DEF Create
  <1>7. ASSUME NEW r \in Requests, Get(r) PROVE Results'
    BY <1>7 DEF Get
  <1>8. ASSUME NEW r \in Requests, Watch(r) PROVE Results'
    BY <1>8 DEF Watch
  <1>9. ASSUME NEW r \in Requests, Event(r) PROVE Results'
    BY <1>9 DEF Event
  <1>10. ASSUME NEW r \in Requests, Copy(r) PROVE Results'
    BY <1>10 DEF Copy
  <1>11. ASSUME NEW r \in Requests, Remove(r) PROVE Results'
    BY <1>11 DEF Remove
  <1>12. ASSUME NEW r \in Requests, WatchBreaks(r) PROVE Results'
    BY <1>12 DEF WatchBreaks
  <1>13. ASSUME NEW r \in Requests, Expire(r) PROVE Results'
    BY <1>13 DEF Expire
  <1>14. ASSUME NEW r \in Requests, CreateLate(r) PROVE Results'
    BY <1>14 DEF CreateLate
  <1>15. CASE Progress
    BY <1>15 DEF Progress
  <1>16. CASE Gone
    BY <1>16 DEF Gone
  <1>17. CASE Evict
    BY <1>17 DEF Evict
  <1>18. CASE GrowOld
    BY <1>18 DEF GrowOld
  <1>19. CASE Crash
    BY <1>19 DEF Crash
  <1>20. CASE List
    BY <1>20 DEF List
  <1>21. CASE SweepDelete
    BY <1>21 DEF SweepDelete
  <1>22. CASE UNCHANGED vars
    BY <1>22 DEF vars
  <1> QED
    BY <1>1, <1>2, <1>3, <1>4, <1>5, <1>6, <1>7, <1>8, <1>9, <1>10, <1>11,
       <1>12, <1>13, <1>14, <1>15, <1>16, <1>17, <1>18, <1>19, <1>20, <1>21,
       <1>22
    DEF Next, Call, Sweep

\* An analysis keeps its pod until it deletes it, unless something leaks.
LEMMA ReclaimsStep ==
  ASSUME Types, Reclaims, [Next]_vars
  PROVE  Reclaims'
  <1> USE RequestsAssumption
      DEF Goto, Return, Fails, Untouched, Unwatch, Deleted, DeletedByOther, Added,
          Vanished, Emit, request, pod, server, cleaner, history, failures, Types,
          Reclaims, Owning, Waiting, Watchers, AfterSeeing, InFlight, Leaking
  <1>1. ASSUME NEW r \in Requests, Arrive(r) PROVE Reclaims'
    BY <1>1 DEF Arrive
  <1>2. ASSUME NEW r \in Requests, Acquire(r) PROVE Reclaims'
    BY <1>2 DEF Acquire
  <1>3. ASSUME NEW r \in Requests, GiveUp(r) PROVE Reclaims'
    BY <1>3 DEF GiveUp
  <1>4. ASSUME NEW r \in Requests, Delete(r) PROVE Reclaims'
    BY <1>4 DEF Delete
  <1>5. ASSUME NEW r \in Requests, AwaitGone(r) PROVE Reclaims'
    BY <1>5 DEF AwaitGone
  <1>6. ASSUME NEW r \in Requests, Create(r) PROVE Reclaims'
    BY <1>6 DEF Create
  <1>7. ASSUME NEW r \in Requests, Get(r) PROVE Reclaims'
    BY <1>7 DEF Get
  <1>8. ASSUME NEW r \in Requests, Watch(r) PROVE Reclaims'
    BY <1>8 DEF Watch
  <1>9. ASSUME NEW r \in Requests, Event(r) PROVE Reclaims'
    BY <1>9 DEF Event
  <1>10. ASSUME NEW r \in Requests, Copy(r) PROVE Reclaims'
    BY <1>10 DEF Copy
  <1>11. ASSUME NEW r \in Requests, Remove(r) PROVE Reclaims'
    BY <1>11 DEF Remove
  <1>12. ASSUME NEW r \in Requests, WatchBreaks(r) PROVE Reclaims'
    BY <1>12 DEF WatchBreaks
  <1>13. ASSUME NEW r \in Requests, Expire(r) PROVE Reclaims'
    BY <1>13 DEF Expire
  <1>14. ASSUME NEW r \in Requests, CreateLate(r) PROVE Reclaims'
    BY <1>14 DEF CreateLate
  <1>15. CASE Progress
    BY <1>15 DEF Progress
  <1>16. CASE Gone
    BY <1>16 DEF Gone
  <1>17. CASE Evict
    BY <1>17 DEF Evict
  <1>18. CASE GrowOld
    BY <1>18 DEF GrowOld
  <1>19. CASE Crash
    BY <1>19 DEF Crash
  <1>20. CASE List
    BY <1>20 DEF List
  <1>21. CASE SweepDelete
    BY <1>21 DEF SweepDelete
  <1>22. CASE UNCHANGED vars
    BY <1>22 DEF vars
  <1> QED
    BY <1>1, <1>2, <1>3, <1>4, <1>5, <1>6, <1>7, <1>8, <1>9, <1>10, <1>11,
       <1>12, <1>13, <1>14, <1>15, <1>16, <1>17, <1>18, <1>19, <1>20, <1>21,
       <1>22
    DEF Next, Call, Sweep

\* The last of a sequence when something is taken off the front or put on the end.
LEMMA LastOfTail ==
  ASSUME NEW s \in Seq(Events), s # << >>
  PROVE  IF Tail(s) = << >> THEN s[Len(s)] = Head(s)
                            ELSE Tail(s)[Len(Tail(s))] = s[Len(s)]
  <1>1. /\ Len(s) \in Nat \ {0} /\ Tail(s) \in Seq(Events)
        /\ Len(Tail(s)) = Len(s) - 1 /\ Head(s) = s[1]
    OBVIOUS
  <1>2. CASE Tail(s) = << >>
    <2>1. Len(Tail(s)) = 0
      BY <1>1, <1>2, EmptySeq
    <2>2. Len(s) = 1
      <3>1. 0 = Len(s) - 1
        BY <1>1, <2>1, Zenon
      <3>2. \A n \in Nat : 0 = n - 1 => n = 1
        OBVIOUS
      <3>3. Len(s) \in Nat
        BY <1>1, Zenon
      <3> QED
        BY <3>1, <3>2, <3>3, Zenon
    <2> QED
      BY <1>1, <1>2, <2>2
  <1>3. CASE Tail(s) # << >>
    <2>1. Len(s) # 1
      BY <1>1, <1>3
    <2>2. Len(Tail(s)) \in 1..Len(Tail(s))
      BY <1>1, <2>1
    <2>3. Tail(s)[Len(Tail(s))] = s[Len(Tail(s)) + 1]
      BY <1>1, <2>2
    <2> QED
      BY <1>1, <1>3, <2>3
  <1> QED
    BY <1>2, <1>3

LEMMA LastOfAppend ==
  ASSUME NEW s \in Seq(Events), NEW e \in Events
  PROVE  Append(s, e) # << >> /\ Append(s, e)[Len(Append(s, e))] = e
  OBVIOUS

\* An event that tells how things are now keeps the watches up to date.
LEMMA EmittedFresh ==
  ASSUME Queues, Fresh, NEW e \in Events, Emit(e), Now' = e,
         \A q \in Requests : pc'[q] \in Watchers <=> pc[q] \in Watchers
  PROVE  Fresh'
  <1> SUFFICES ASSUME NEW q \in Requests
               PROVE  IF pc'[q] \in Watchers THEN UpToDate(q)' ELSE unread'[q] = << >>
    BY DEF Fresh
  <1>1. CASE pc[q] \in Watchers
    <2>1. unread'[q] = Append(unread[q], e) /\ unread[q] \in Seq(Events)
      BY <1>1 DEF Emit, Queues
    <2>2. unread'[q] # << >> /\ unread'[q][Len(unread'[q])] = e
      BY <2>1, LastOfAppend
    <2> QED
      BY <1>1, <2>2 DEF UpToDate
  <1>2. CASE pc[q] \notin Watchers
    BY <1>2 DEF Emit, Fresh
  <1> QED
    BY <1>1, <1>2

\* So does a deletion of whatever has the name, by a request that does not watch.
LEMMA DeletedFresh ==
  ASSUME Types, Queues, Fresh, Deleted,
         \A q \in Requests : pc'[q] \in Watchers <=> pc[q] \in Watchers
  PROVE  Fresh'
  <1>1. CASE UNCHANGED <<holder, status, unread>>
    BY <1>1 DEF Fresh, UpToDate, Now
  <1>2. CASE Vanished
    BY <1>2, EmittedFresh DEF Vanished, Now, Events
  <1> QED
    BY <1>1, <1>2 DEF Deleted, pod

LEMMA UntouchedFresh ==
  ASSUME Fresh, UNCHANGED <<holder, status, unread>>,
         \A q \in Requests : pc'[q] \in Watchers <=> pc[q] \in Watchers
  PROVE  Fresh'
  BY DEF Fresh, UpToDate, Now

\* Every change of the pod reaches every watch, and Get sees those before.
LEMMA FreshStep ==
  ASSUME Types, Queues, Fresh, [Next]_vars
  PROVE  Fresh'
  <1> USE RequestsAssumption
      DEF Goto, Return, Fails, Untouched, Unwatch, request, pod, server, cleaner,
          history, failures, Types
  <1>1. ASSUME NEW r \in Requests, Arrive(r) PROVE Fresh'
    <2>1. \A q \in Requests : pc'[q] \in Watchers <=> pc[q] \in Watchers
      BY <1>1 DEF Arrive, Watchers, Waiting
    <2>2. UNCHANGED <<holder, status, unread>>
      BY <1>1 DEF Arrive
    <2> QED
      BY <2>1, <2>2, UntouchedFresh
  <1>2. ASSUME NEW r \in Requests, Acquire(r) PROVE Fresh'
    <2>1. \A q \in Requests : pc'[q] \in Watchers <=> pc[q] \in Watchers
      BY <1>2 DEF Acquire, Watchers, Waiting
    <2>2. UNCHANGED <<holder, status, unread>>
      BY <1>2 DEF Acquire
    <2> QED
      BY <2>1, <2>2, UntouchedFresh
  <1>3. ASSUME NEW r \in Requests, GiveUp(r) PROVE Fresh'
    <2>1. \A q \in Requests : pc'[q] \in Watchers <=> pc[q] \in Watchers
      BY <1>3 DEF GiveUp, Watchers, Waiting
    <2>2. UNCHANGED <<holder, status, unread>>
      BY <1>3 DEF GiveUp
    <2> QED
      BY <2>1, <2>2, UntouchedFresh
  <1>4. ASSUME NEW r \in Requests, Delete(r) PROVE Fresh'
    <2>1. \A q \in Requests : pc'[q] \in Watchers <=> pc[q] \in Watchers
      BY <1>4 DEF Delete, Watchers, Waiting
    <2>2. Deleted \/ Untouched
      BY <1>4 DEF Delete, DeletedByOther
    <2> QED
      BY <2>1, <2>2, DeletedFresh, UntouchedFresh DEF Untouched, pod
  <1>5. ASSUME NEW r \in Requests, AwaitGone(r) PROVE Fresh'
    <2>1. \A q \in Requests : pc'[q] \in Watchers <=> pc[q] \in Watchers
      BY <1>5 DEF AwaitGone, Watchers, Waiting
    <2>2. UNCHANGED <<holder, status, unread>>
      BY <1>5 DEF AwaitGone
    <2> QED
      BY <2>1, <2>2, UntouchedFresh
  <1>6. ASSUME NEW r \in Requests, Create(r) PROVE Fresh'
    <2>1. \A q \in Requests : pc'[q] \in Watchers <=> pc[q] \in Watchers
      BY <1>6 DEF Create, Watchers, Waiting
    <2>2. CASE Added(r)
      BY <2>1, <2>2, EmittedFresh DEF Added, Now, Events, States
    <2>3. CASE Untouched
      BY <2>1, <2>3, UntouchedFresh DEF Untouched, pod
    <2> QED
      BY <1>6, <2>2, <2>3 DEF Create
  <1>7. ASSUME NEW r \in Requests, Get(r) PROVE Fresh'
    <2>1. UNCHANGED <<holder, status, unread>> /\ unread[r] = << >>
      BY <1>7 DEF Get, Fresh, Watchers
    <2>2. pc'[r] \in Watchers => Now = "working"
      BY <1>7 DEF Get, AfterSeeing, Now, Watchers, States
    <2>3. \A q \in Requests \ {r} : pc'[q] = pc[q]
      BY <1>7 DEF Get
    <2> QED
      BY <2>1, <2>2, <2>3 DEF Fresh, UpToDate, Now
  <1>8. ASSUME NEW r \in Requests, Watch(r) PROVE Fresh'
    <2>1. /\ UNCHANGED <<holder, status>>
          /\ \A q \in Requests \ {r} : pc'[q] = pc[q] /\ unread'[q] = unread[q]
      BY <1>8 DEF Watch, Queues
    <2>2. \/ pc[r] = "watch" /\ pc'[r] = "watching" /\ unread'[r] = unread[r]
          \/ pc'[r] = "discard" /\ unread'[r] = << >>
      BY <1>8 DEF Watch, Queues
    <2> QED
      BY <2>1, <2>2 DEF Fresh, UpToDate, Now, Watchers
  <1>9. ASSUME NEW r \in Requests, Event(r) PROVE Fresh'
    <2>1. /\ UNCHANGED <<holder, status>>
          /\ \A q \in Requests \ {r} : pc'[q] = pc[q] /\ unread'[q] = unread[q]
      BY <1>9 DEF Event, Queues
    <2>2. unread[r] \in Seq(Events) /\ unread[r] # << >> /\ pc[r] \in Watchers
      BY <1>9 DEF Event, Queues, Watchers
    <2>3. unread[r][Len(unread[r])] = Now
      BY <2>2 DEF Fresh, UpToDate
    <2>4. CASE Head(unread[r]) = "working"
      <3>1. pc' = pc /\ unread'[r] = Tail(unread[r])
        BY <1>9, <2>4 DEF Event, Queues
      <3>2. UpToDate(r)'
        BY <2>1, <2>2, <2>3, <2>4, <3>1, LastOfTail DEF UpToDate, Now
      <3> QED
        BY <2>1, <2>2, <3>1, <3>2 DEF Fresh, UpToDate, Now
    <2>5. CASE Head(unread[r]) # "working"
      <3>1. pc'[r] \notin Watchers /\ unread'[r] = << >>
        <4>1. Head(unread[r]) \in Events
          BY <2>2
        <4> QED
          BY <1>9, <2>5, <4>1 DEF Event, AfterSeeing, Events, States, Watchers, Queues
      <3> QED
        BY <2>1, <3>1 DEF Fresh, UpToDate, Now
    <2> QED
      BY <2>4, <2>5
  <1>10. ASSUME NEW r \in Requests, Copy(r) PROVE Fresh'
    <2>1. \A q \in Requests : pc'[q] \in Watchers <=> pc[q] \in Watchers
      BY <1>10 DEF Copy, Watchers, Waiting
    <2>2. UNCHANGED <<holder, status, unread>>
      BY <1>10 DEF Copy
    <2> QED
      BY <2>1, <2>2, UntouchedFresh
  <1>11. ASSUME NEW r \in Requests, Remove(r) PROVE Fresh'
    <2>1. \A q \in Requests : pc'[q] \in Watchers <=> pc[q] \in Watchers
      BY <1>11 DEF Remove, Watchers, Waiting
    <2>2. Deleted \/ Untouched
      BY <1>11 DEF Remove, DeletedByOther
    <2> QED
      BY <2>1, <2>2, DeletedFresh, UntouchedFresh DEF Untouched, pod
  <1>12. ASSUME NEW r \in Requests, WatchBreaks(r) PROVE Fresh'
    <2>1. /\ UNCHANGED <<holder, status>>
          /\ \A q \in Requests \ {r} : pc'[q] = pc[q] /\ unread'[q] = unread[q]
      BY <1>12 DEF WatchBreaks, Queues
    <2>2. pc'[r] \notin Watchers /\ unread'[r] = << >>
      BY <1>12 DEF WatchBreaks, Watchers, Queues
    <2> QED
      BY <2>1, <2>2 DEF Fresh, UpToDate, Now
  <1>13. ASSUME NEW r \in Requests, Expire(r) PROVE Fresh'
    <2>1. /\ UNCHANGED <<holder, status>>
          /\ \A q \in Requests \ {r} : pc'[q] = pc[q] /\ unread'[q] = unread[q]
      BY <1>13 DEF Expire, Queues
    <2>2. pc'[r] \notin Watchers /\ unread'[r] = << >>
      BY <1>13 DEF Expire, Watchers, Queues
    <2> QED
      BY <2>1, <2>2 DEF Fresh, UpToDate, Now
  <1>14. ASSUME NEW r \in Requests, CreateLate(r) PROVE Fresh'
    <2>1. \A q \in Requests : pc'[q] \in Watchers <=> pc[q] \in Watchers
      BY <1>14 DEF CreateLate, Watchers, Waiting
    <2> QED
      BY <1>14, <2>1, EmittedFresh DEF CreateLate, Added, Now, Events, States
  <1>15. CASE Progress
    <2>1. \A q \in Requests : pc'[q] \in Watchers <=> pc[q] \in Watchers
      BY <1>15 DEF Progress, Watchers, Waiting
    <2>2. PICK s \in Outcomes : status' = s /\ Emit(s)
      BY <1>15 DEF Progress
    <2>3. s \in Events /\ holder' = holder /\ holder # Nil
      BY <1>15 DEF Progress, Outcomes, Events, States
    <2> QED
      BY <2>1, <2>2, <2>3, EmittedFresh DEF Now
  <1>16. CASE Gone
    <2>1. \A q \in Requests : pc'[q] \in Watchers <=> pc[q] \in Watchers
      BY <1>16 DEF Gone, Watchers, Waiting
    <2> QED
      BY <1>16, <2>1, EmittedFresh DEF Gone, Vanished, Now, Events
  <1>17. CASE Evict
    <2>1. \A q \in Requests : pc'[q] \in Watchers <=> pc[q] \in Watchers
      BY <1>17 DEF Evict, Watchers, Waiting
    <2> QED
      BY <1>17, <2>1, DeletedFresh DEF Evict, DeletedByOther
  <1>18. CASE GrowOld
    <2>1. \A q \in Requests : pc'[q] \in Watchers <=> pc[q] \in Watchers
      BY <1>18 DEF GrowOld, Watchers, Waiting
    <2>2. UNCHANGED <<holder, status, unread>>
      BY <1>18 DEF GrowOld
    <2> QED
      BY <2>1, <2>2, UntouchedFresh
  <1>19. CASE Crash
    <2>1. \A q \in Requests : pc'[q] \notin Watchers
      BY <1>19 DEF Crash, Watchers, InFlight, Final
    <2>2. \A q \in Requests : unread'[q] = << >>
      BY <1>19 DEF Crash
    <2> QED
      BY <2>1, <2>2 DEF Fresh
  <1>20. CASE List
    <2>1. \A q \in Requests : pc'[q] \in Watchers <=> pc[q] \in Watchers
      BY <1>20 DEF List, Watchers, Waiting
    <2>2. UNCHANGED <<holder, status, unread>>
      BY <1>20 DEF List
    <2> QED
      BY <2>1, <2>2, UntouchedFresh
  <1>21. CASE SweepDelete
    <2>1. \A q \in Requests : pc'[q] \in Watchers <=> pc[q] \in Watchers
      BY <1>21 DEF SweepDelete, Watchers, Waiting
    <2>2. Deleted \/ Untouched
      BY <1>21 DEF SweepDelete, DeletedByOther
    <2> QED
      BY <2>1, <2>2, DeletedFresh, UntouchedFresh DEF Untouched, pod
  <1>22. CASE UNCHANGED vars
    BY <1>22, UntouchedFresh DEF vars
  <1> QED
    BY <1>1, <1>2, <1>3, <1>4, <1>5, <1>6, <1>7, <1>8, <1>9, <1>10, <1>11,
       <1>12, <1>13, <1>14, <1>15, <1>16, <1>17, <1>18, <1>19, <1>20, <1>21,
       <1>22
    DEF Next, Call, Sweep

--------------------------------------------------------------------------------
(* The theorems. *)

LEMMA StepInv == IInv /\ [Next]_vars => IInv'
  BY TypesStep, QueuesStep, OverlapsStep, OwnsStep, ResultsStep, FreshStep, ReclaimsStep
     DEF IInv

\* Types, watches that are up to date, and analyses that own their pod: an
\* invariant of every step.
THEOREM Inductive == Spec => []IInv
  BY InitInv, StepInv, PTL DEF Spec

\* No event between Get and Watch, or while a watch is down, is ever lost.
THEOREM NothingMissed == Spec => []ReadinessNeverMissed
  <1>1. IInv => ReadinessNeverMissed
    <2> SUFFICES ASSUME IInv, NEW r \in Requests, pc[r] \in Watchers, unread[r] = << >>
                 PROVE  holder # Nil /\ status = "working"
      BY DEF ReadinessNeverMissed
    <2> QED
      BY DEF IInv, Fresh, UpToDate, Now
  <1> QED
    BY <1>1, Inductive, PTL

\* An undisturbed analysis returns the results of its own pod.
THEOREM ResultsAreOwn == Spec => []OwnResults
  <1>1. IInv => OwnResults
    BY DEF IInv, Results, OwnResults
  <1> QED
    BY <1>1, Inductive, PTL

\* An analysis that has returned has deleted its pod.
THEOREM PodsAreDeleted == Spec => []NoPodLeft
  <1>1. IInv => NoPodLeft
    BY DEF IInv, Reclaims, NoPodLeft, Owning, Waiting, Watchers, Final
  <1> QED
    BY <1>1, Inductive, PTL

================================================================================
