------------------------------- MODULE ResultStore ------------------------------
(***************************************************************************)
(* What the handlers of an analysis' results promise to their clients, as  *)
(* if there were no cache: a store that analyses and deletions change, and *)
(* downloads that are answered from it.                                    *)
(*                                                                         *)
(* A version is the request that produced it, or Old for what was stored   *)
(* before.  While a kind is not at risk an answer is taken from what the   *)
(* store holds at that moment; while it is, from anything the store has    *)
(* ever held.  Some of it may be missing.                                  *)
(***************************************************************************)
CONSTANTS
    Requests,   \* the HTTP requests, each sent at most once
    Old,        \* the version that is stored at first, if any
    Nil         \* no version, no answer, no handler

VARIABLES
    store,      \* store[k]: the version of kind k that is stored
    past,       \* past[k]: all the versions of kind k that have been stored
    op,         \* op[r]: what r asks for
    answer,     \* answer[r]: the parts of the file that r has been sent
    atRisk      \* the kinds of which an old version may come back

vars == <<store, past, op, answer, atRisk>>

Kinds    == {"zip", "png"}
Parts    == {"body", "tail"}
Download == [zip |-> "HandleGetResult", png |-> "HandleGetScreenshot"]
Handlers == {"HandleAnalyze", "HandleDeleteResult"} \cup {Download[k] : k \in Kinds}

Init ==
    /\ store \in [Kinds -> {Old, Nil}]
    /\ past = [k \in Kinds |-> {store[k]} \ {Nil}]
    /\ op = [r \in Requests |-> Nil]
    /\ answer = [r \in Requests |-> Nil]
    /\ atRisk = {}

\* A step may endanger some kinds.
Endangers == atRisk \subseteq atRisk'

\* r is a request for h, perhaps from this step on.
Asks(r, h) == op[r] \in {Nil, h} /\ op' = [op EXCEPT ![r] = h] /\ Endangers

Arrive(r, h) == Asks(r, h) /\ UNCHANGED <<store, past, answer>>

Store(r, k) ==
    /\ Asks(r, "HandleAnalyze")
    /\ store' = [store EXCEPT ![k] = r]
    /\ past' = [past EXCEPT ![k] = @ \cup {r}]
    /\ UNCHANGED answer

Remove(r, k) ==
    /\ Asks(r, "HandleDeleteResult")
    /\ store' = [store EXCEPT ![k] = Nil]
    /\ UNCHANGED <<past, answer>>

Available(k) == {Nil} \cup (IF k \in atRisk THEN past[k] ELSE {store[k]})

Answer(r, k) ==
    /\ op[r] = Download[k] /\ answer[r] = Nil
    /\ \E parts \in [Parts -> Available(k)] : answer' = [answer EXCEPT ![r] = parts]
    /\ UNCHANGED <<store, past, op, atRisk>>

\* Without a change that a client could see, kinds come to be at risk, or are safe
\* again.
Endanger == Endangers /\ UNCHANGED <<store, past, op, answer>>
Recover  == atRisk' \subseteq atRisk /\ UNCHANGED <<store, past, op, answer>>

Next ==
    \/ Endanger \/ Recover
    \/ \E r \in Requests, h \in Handlers : Arrive(r, h)
    \/ \E r \in Requests, k \in Kinds : Store(r, k) \/ Remove(r, k) \/ Answer(r, k)

Spec == Init /\ [][Next]_vars

================================================================================
