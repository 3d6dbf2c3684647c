-------------------------------- MODULE Middleware ------------------------------
(***************************************************************************)
(* One response on its way out: the handler writes through the compressing *)
(* writer, if the client takes an encoding, and that through the recorder  *)
(* of the status to net/http.  The compressor is closed by a defer inside, *)
(* a panic is answered by a recover outside of it, and the status is       *)
(* logged outside of both.                                                 *)
(*                                                                         *)
(* The handler is any that writes its header at most once and before its   *)
(* body, and may panic at any point.  A piece of the body is what it is    *)
(* encoded as; "end" is what ends a compressed stream.                     *)
(***************************************************************************)
EXTENDS Naturals, Sequences

CONSTANTS
    Statuses,   \* the statuses handlers answer with
    NoBody,     \* of all statuses, those that have no body: 204 and 304
    OK,         \* http.StatusOK
    Failed,     \* http.StatusInternalServerError
    Unsent,     \* no status, no header
    MaxWrites   \* how often a handler writes: the bound of a run

Encodings == {"zstd", "gzip"}
Plain     == "plain"

\* The headers of responses: a status and a Content-Encoding.
Headers == [status : Statuses \cup {OK, Failed}, encoding : Encodings \cup {Plain}]

ASSUME StatusesAssumption == OK \notin NoBody /\ Failed \notin NoBody /\ Unsent \notin Headers
ASSUME WritesAssumption == MaxWrites \in Nat

VARIABLES
    pc,           \* what runs: the handler, or what is deferred or comes after it
    offered,      \* what negotiateEncoding has made of Accept-Encoding
    encoding,     \* encoding of the compressResponseWriter
    wroteHeader,  \* wroteHeader of the compressResponseWriter
    writer,       \* its compressor, "none" until the header is written
    header,       \* Content-Encoding in the header map
    sent,         \* net/http: the status and Content-Encoding sent
    body,         \* net/http: what has been sent after it
    recorded,     \* statusCode of the statusRecorder
    writes,       \* how often the handler has written
    panicked      \* whether it has panicked, and if "late", after it wrote its header

compressor == <<encoding, wroteHeader, writer>>
outside    == <<header, sent, body, recorded>>
vars       == <<pc, offered, compressor, outside, writes, panicked>>

Wrapped == offered # Plain

Init ==
    /\ pc = "handler"
    /\ offered \in Encodings \cup {Plain}
    /\ encoding = offered
    /\ wroteHeader = FALSE
    /\ writer = "none"
    /\ header = Plain
    /\ sent = Unsent
    /\ body = <<>>
    /\ recorded = OK
    /\ writes = 0
    /\ panicked = "no"

--------------------------------------------------------------------------------
(* net/http: the first header counts, and what is written goes after it. *)

Sends(s, h) == IF sent = Unsent THEN [status |-> s, encoding |-> h] ELSE sent

Sending(s, h, pieces) ==
    LET now == Sends(s, h) IN
    /\ sent' = now
    /\ body' = IF now.status \in NoBody THEN body ELSE body \o pieces

--------------------------------------------------------------------------------
(* compressResponseWriter. *)

\* Mutant: a status that has no body starts a compressor all the same.
CompressedAlways(s) == encoding # Plain

\* WriteHeader compresses unless there will be no body, or it is encoded already.
Compressed(s) == s \notin NoBody /\ header = Plain /\ encoding # Plain

\* WriteHeader(s), and pieces of the body in the same step if it comes of Write.
Header(s, n) ==
    /\ wroteHeader' = TRUE
    /\ IF Compressed(s)
       THEN /\ writer' = encoding /\ header' = encoding /\ UNCHANGED encoding
            /\ Sending(s, encoding, [i \in 1..n |-> encoding])
       ELSE /\ encoding' = Plain /\ UNCHANGED <<writer, header>>
            /\ Sending(s, header, [i \in 1..n |-> Plain])
    /\ recorded' = s

\* A handler whose response is not compressed writes to the recorder itself.
Direct(s) == Sending(s, header, <<>>) /\ recorded' = s /\ UNCHANGED <<compressor, header>>

HasSent == IF Wrapped THEN wroteHeader ELSE sent # Unsent

WriteHeader(s) ==
    /\ pc = "handler" /\ ~HasSent
    /\ IF Wrapped THEN Header(s, 0) ELSE Direct(s)
    /\ UNCHANGED <<pc, offered, writes, panicked>>

\* A first Write without a header writes 200; net/http does so unseen by the recorder.
Write ==
    /\ pc = "handler" /\ writes < MaxWrites
    /\ writes' = writes + 1
    /\ IF Wrapped /\ ~wroteHeader
       THEN Header(OK, 1)
       ELSE /\ Sending(OK, header, <<IF writer = "none" THEN Plain ELSE writer>>)
            /\ UNCHANGED <<compressor, header, recorded>>
    /\ UNCHANGED <<pc, offered, panicked>>

Return ==
    /\ pc = "handler"
    /\ pc' = "close"
    /\ UNCHANGED <<offered, compressor, outside, writes, panicked>>

Panic ==
    /\ pc = "handler"
    /\ panicked' = IF HasSent THEN "late" ELSE "early"
    /\ pc' = "close"
    /\ UNCHANGED <<offered, compressor, outside, writes>>

\* Mutant: a response that ends in a panic is not closed, and neither is any other.
CloseForgotten ==
    /\ pc = "close"
    /\ pc' = IF panicked = "no" THEN "log" ELSE "recover"
    /\ UNCHANGED <<offered, compressor, outside, writes, panicked>>

\* The deferred Close ends the stream; the encoder of zstd makes none of no data.
Close ==
    /\ pc = "close"
    /\ body' = IF writer = "none" \/ (writer = "zstd" /\ body = <<>>) THEN body
               ELSE Append(body, "end")
    /\ pc' = IF panicked = "no" THEN "log" ELSE "recover"
    /\ UNCHANGED <<offered, compressor, header, sent, recorded, writes, panicked>>

--------------------------------------------------------------------------------
(* recoverMiddleware and loggingMiddleware. *)

\* Mutant: the answer to a panic goes past the recorder.
RecoverUnrecorded ==
    /\ pc = "recover"
    /\ Sending(Failed, header, <<Plain>>)
    /\ pc' = "log"
    /\ UNCHANGED <<offered, compressor, header, recorded, writes, panicked>>

\* http.Error, which leaves the Content-Encoding in the header map as it is.
Recover ==
    /\ pc = "recover"
    /\ Sending(Failed, header, <<Plain>>)
    /\ recorded' = Failed
    /\ pc' = "log"
    /\ UNCHANGED <<offered, compressor, header, writes, panicked>>

\* The status is logged, and net/http sends a header if nobody has.  (/healthz, which
\* has no recorder and is not logged, is left out.)
Log ==
    /\ pc = "log"
    /\ sent' = Sends(OK, header)
    /\ pc' = "done"
    /\ UNCHANGED <<offered, compressor, header, body, recorded, writes, panicked>>

Next ==
    \/ \E s \in Statuses : WriteHeader(s)
    \/ Write \/ Return \/ Panic \/ Close \/ Recover \/ Log

Spec == Init /\ [][Next]_vars

--------------------------------------------------------------------------------
(* Properties. *)

Piece == Encodings \cup {Plain, "end"}

\* The types of the variables; and no response without a body starts a compressor,
\* which would write its stream where none may be.
TypeOK ==
    /\ pc \in {"handler", "close", "recover", "log", "done"}
    /\ offered \in Encodings \cup {Plain}
    /\ encoding \in Encodings \cup {Plain}
    /\ wroteHeader \in BOOLEAN
    /\ writer \in Encodings \cup {"none"}
    /\ header \in Encodings \cup {Plain}
    /\ sent \in Headers \cup {Unsent}
    /\ body \in Seq(Piece)
    /\ recorded \in Statuses \cup {OK, Failed}
    /\ writes \in 0..MaxWrites
    /\ panicked \in {"no", "early", "late"}
    /\ writer # "none" => sent # Unsent /\ sent.status \notin NoBody

\* What has been sent is one whole stream of the Content-Encoding sent, or nothing.
WellEncoded ==
    LET n == Len(body) IN
    IF sent.encoding = Plain
    THEN \A i \in 1..n : body[i] = Plain
    ELSE n > 0 => body[n] = "end" /\ \A i \in 1..(n - 1) : body[i] = sent.encoding

\* Unless the handler has panicked after its header, the client can decode what it
\* gets: with and without compression, with and without a body, written with or
\* without a status first, and when the answer is that of the recovered panic.
Decodes == pc = "done" /\ panicked # "late" => WellEncoded

\* In these cases the status in the log is the one that was sent, and a panic before
\* the header is answered as an internal error, not compressed.
LoggedAsSent ==
    pc = "done" /\ panicked # "late" =>
        /\ sent.status = recorded
        /\ panicked = "early" => sent = [status |-> Failed, encoding |-> Plain]

================================================================================
