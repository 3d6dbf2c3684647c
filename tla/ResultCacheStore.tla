----------------------------- MODULE ResultCacheStore ---------------------------
(***************************************************************************)
(* ResultCache implements ResultStore: the cache, its files and downloads  *)
(* are invisible to the clients, except that some of a file may be missing *)
(* and that an old version may come back of a kind whose cached copy may   *)
(* be stale: a download has overlapped an analysis or a deletion, or one   *)
(* of these has failed to upload the report or to unlink the copy, or has  *)
(* died before.                                                            *)
(*                                                                         *)
(* The versions that have been in the bucket are a history added to the    *)
(* handlers' specification.                                                *)
(***************************************************************************)
EXTENDS ResultCache

VARIABLE past   \* history: past[k] is the versions of kind k the bucket has held

PastInit == past = [k \in Kinds |-> {bucket[k]} \ {Nil}]
PastNext == past' = [k \in Kinds |-> past[k] \cup ({bucket'[k]} \ {Nil})]

RecordedSpec == Init /\ PastInit /\ [][Next /\ PastNext]_<<vars, past>>

Answered(r) == pc[r] = "ok" /\ op[r] \in Readers

Store == INSTANCE ResultStore WITH
    store  <- bucket,
    answer <- [r \in Requests |-> IF Answered(r) THEN got[r] ELSE Nil],
    atRisk <- stale

\* Every step of the handlers is one the store allows, or none: what a client is
\* sent with status 200 was stored at some time, and is stored now unless the cached
\* copy of that kind may be stale; only analyses and deletions change what is stored;
\* an answer stays as it is.
ImplementsStore == Store!Spec

================================================================================
