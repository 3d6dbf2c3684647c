---------------------------- MODULE MiddlewareProofs ----------------------------
(***************************************************************************)
(* Theorems about Middleware, for all sets of statuses and every number of *)
(* writes.                                                                 *)
(***************************************************************************)
EXTENDS Middleware, SequenceTheorems, TLAPS

--------------------------------------------------------------------------------
(* Sequences all of whose elements are the same. *)

Constantly(s, x) == \A i \in 1..Len(s) : s[i] = x

LEMMA PiecesAreConstant ==
  ASSUME NEW n \in Nat, NEW x \in Piece
  PROVE  /\ [i \in 1..n |-> x] \in Seq(Piece)
         /\ Len([i \in 1..n |-> x]) = n
         /\ Constantly([i \in 1..n |-> x], x)
  BY DEF Constantly

LEMMA ConcatConstant ==
  ASSUME NEW s \in Seq(Piece), NEW t \in Seq(Piece), NEW x,
         Constantly(s, x), Constantly(t, x)
  PROVE  s \o t \in Seq(Piece) /\ Constantly(s \o t, x)
  BY ConcatProperties DEF Constantly

LEMMA OneIsConstant ==
  ASSUME NEW x \in Piece
  PROVE  <<x>> \in Seq(Piece) /\ Constantly(<<x>>, x)
  BY DEF Constantly

--------------------------------------------------------------------------------
(* The inductive invariant. *)

\* Nothing has been written, neither by the handler nor by anybody else.
Fresh ==
    /\ sent = Unsent /\ body = << >>
    /\ header = Plain /\ writer = "none" /\ recorded = OK

\* The header is out, with what the compressor has put into it.
Begun ==
    /\ sent # Unsent
    /\ sent.status = recorded
    /\ sent.encoding = header
    /\ header = IF writer = "none" THEN Plain ELSE writer

Open == pc \in {"handler", "close"}

\* While the handler runs, and until the compressor is closed.
Writing ==
    /\ Fresh \/ Begun
    /\ Constantly(body, header)
    /\ HasSent <=> Begun
    /\ Wrapped /\ ~wroteHeader => encoding = offered

\* What a panic finds.
Panicking ==
    /\ pc = "handler" => panicked = "no"
    /\ pc \in {"close", "recover"} /\ panicked = "early" => Fresh
    /\ pc = "recover" => panicked # "no"

\* What is there when the response is complete.
Complete ==
    pc \in {"log", "done"} =>
        /\ panicked = "no" => Fresh \/ (Begun /\ WellEncoded)
        /\ panicked = "early" => /\ sent = [status |-> Failed, encoding |-> Plain]
                                 /\ recorded = Failed /\ WellEncoded

IInv ==
    /\ TypeOK
    /\ Open => Writing
    /\ Panicking
    /\ Complete
    /\ pc = "done" => sent # Unsent

LEMMA InvInit == Init => IInv
  <1> SUFFICES ASSUME Init PROVE IInv
    OBVIOUS
  <1>1. << >> \in Seq(Piece) /\ Constantly(<< >>, Plain)
    BY DEF Constantly
  <1>2. TypeOK
    <2>1. wroteHeader \in BOOLEAN
      BY DEF Init
    <2>2. 0 \in 0..MaxWrites
      BY WritesAssumption
    <2> QED
      BY <1>1, <2>1, <2>2 DEF Init, TypeOK
  <1>3. Fresh /\ ~HasSent /\ ~Begun
    BY DEF Init, Fresh, Begun, HasSent
  <1> QED
    BY <1>1, <1>2, <1>3 DEF Init, IInv, Open, Writing, Panicking, Complete

--------------------------------------------------------------------------------
(* The handler. *)

\* A header written through the compressor, with the piece of the body that comes
\* with it: it is the one that is sent and recorded, and the body fits it.
LEMMA HeaderEffect ==
  ASSUME TypeOK, Writing, Wrapped, ~wroteHeader, NEW s \in Statuses \cup {OK, Failed},
         NEW n \in {0, 1}, Header(s, n)
  PROVE  /\ Begun' /\ wroteHeader' = TRUE
         /\ body' \in Seq(Piece) /\ Constantly(body', header')
         /\ sent' \in Headers /\ recorded' = s
         /\ header' \in Encodings \cup {Plain} /\ encoding' \in Encodings \cup {Plain}
         /\ writer' \in Encodings \cup {"none"}
         /\ writer' # "none" => sent'.status \notin NoBody
  <1>1. Fresh /\ encoding = offered /\ encoding \in Encodings
    BY DEF Writing, HasSent, TypeOK, Wrapped
  <1>2. << >> \in Seq(Piece) /\ \A x : Constantly(<< >>, x)
    BY DEF Constantly
  <1>3. ASSUME NEW h \in Encodings \cup {Plain}, Sending(s, h, [i \in 1..n |-> h])
        PROVE  /\ sent' = [status |-> s, encoding |-> h] /\ sent' \in Headers
               /\ body' \in Seq(Piece) /\ Constantly(body', h)
    <2>1. sent' = [status |-> s, encoding |-> h]
      BY <1>1, <1>3 DEF Sending, Sends, Fresh
    <2>2. [i \in 1..n |-> h] \in Seq(Piece) /\ Constantly([i \in 1..n |-> h], h)
      BY PiecesAreConstant DEF Piece
    <2>3. body' = body \/ body' = body \o [i \in 1..n |-> h]
      BY <1>3 DEF Sending
    <2>4. body' \in Seq(Piece) /\ Constantly(body', h)
      BY <1>1, <1>2, <2>2, <2>3, ConcatConstant DEF Fresh
    <2> QED
      BY <2>1, <2>4 DEF Headers
  <1>4. CASE Compressed(s)
    <2>1. /\ writer' = encoding /\ header' = encoding /\ recorded' = s /\ wroteHeader' = TRUE
          /\ encoding' = encoding /\ Sending(s, encoding, [i \in 1..n |-> encoding])
      BY <1>4 DEF Header
    <2>2. /\ sent' = [status |-> s, encoding |-> encoding] /\ sent' \in Headers
          /\ body' \in Seq(Piece) /\ Constantly(body', encoding)
      BY <1>1, <1>3, <2>1
    <2> QED
      BY <1>1, <1>4, <2>1, <2>2, StatusesAssumption DEF Begun, Compressed, Encodings
  <1>5. CASE ~Compressed(s)
    <2>1. /\ writer' = "none" /\ header' = Plain /\ recorded' = s /\ wroteHeader' = TRUE
          /\ encoding' = Plain /\ Sending(s, Plain, [i \in 1..n |-> Plain])
      BY <1>1, <1>5 DEF Header, Fresh
    <2>2. /\ sent' = [status |-> s, encoding |-> Plain] /\ sent' \in Headers
          /\ body' \in Seq(Piece) /\ Constantly(body', Plain)
      BY <1>3, <2>1
    <2> QED
      BY <2>1, <2>2, StatusesAssumption DEF Begun
  <1> QED
    BY <1>4, <1>5

\* The same of a response that is not compressed.
LEMMA DirectEffect ==
  ASSUME TypeOK, Writing, ~Wrapped, sent = Unsent, NEW s \in Statuses, Direct(s)
  PROVE  /\ Begun' /\ UNCHANGED <<compressor, header>>
         /\ body' \in Seq(Piece) /\ Constantly(body', header')
         /\ sent' \in Headers /\ recorded' = s
         /\ writer = "none"
  <1>1. Fresh
    BY DEF Writing, Begun
  <1>2. << >> \in Seq(Piece) /\ Constantly(<< >>, Plain)
    BY DEF Constantly
  <1>3. body' = << >> /\ sent' = [status |-> s, encoding |-> Plain] /\ recorded' = s
    BY <1>1, <1>2, ConcatEmptySeq DEF Direct, Sending, Sends, Fresh
  <1>4. UNCHANGED <<compressor, header>>
    BY DEF Direct
  <1> QED
    BY <1>1, <1>2, <1>3, <1>4, StatusesAssumption DEF Fresh, Begun, Headers, compressor

LEMMA WriteHeaderStep ==
  ASSUME IInv, NEW s \in Statuses, WriteHeader(s)
  PROVE  IInv'
  <1>1. TypeOK /\ Writing /\ ~HasSent /\ pc = "handler" /\ panicked = "no"
    BY DEF IInv, WriteHeader, Open, Panicking
  <1>2. pc' = pc /\ offered' = offered /\ writes' = writes /\ panicked' = panicked
    BY DEF WriteHeader
  <1>3. CASE Wrapped
    <2>1. Header(s, 0) /\ ~wroteHeader
      BY <1>1, <1>3 DEF WriteHeader, HasSent
    <2>2. /\ Begun' /\ wroteHeader' = TRUE
          /\ body' \in Seq(Piece) /\ Constantly(body', header')
          /\ sent' \in Headers /\ recorded' = s
          /\ header' \in Encodings \cup {Plain} /\ encoding' \in Encodings \cup {Plain}
          /\ writer' \in Encodings \cup {"none"}
          /\ writer' # "none" => sent'.status \notin NoBody
      BY <1>1, <1>3, <2>1, HeaderEffect
    <2>3. TypeOK'
      BY <1>1, <1>2, <2>2, StatusesAssumption DEF TypeOK
    <2>4. Writing' /\ Open'
      BY <1>1, <1>2, <1>3, <2>2 DEF Writing, Wrapped, HasSent, Open
    <2> QED
      BY <1>1, <1>2, <2>3, <2>4 DEF IInv, Panicking, Complete
  <1>4. CASE ~Wrapped
    <2>1. Direct(s) /\ sent = Unsent
      BY <1>1, <1>4 DEF WriteHeader, HasSent
    <2>2. /\ Begun' /\ UNCHANGED <<compressor, header>>
          /\ body' \in Seq(Piece) /\ Constantly(body', header')
          /\ sent' \in Headers /\ recorded' = s /\ writer = "none"
      BY <1>1, <1>4, <2>1, DirectEffect
    <2>3. TypeOK'
      BY <1>1, <1>2, <2>2 DEF TypeOK, compressor
    <2>4. Writing' /\ Open'
      BY <1>1, <1>2, <1>4, <2>2 DEF Writing, Wrapped, HasSent, Open, compressor, Begun
    <2> QED
      BY <1>1, <1>2, <2>3, <2>4 DEF IInv, Panicking, Complete
  <1> QED
    BY <1>3, <1>4

LEMMA WriteStep ==
  ASSUME IInv, Write
  PROVE  IInv'
  <1>1. TypeOK /\ Writing /\ pc = "handler" /\ panicked = "no"
    BY DEF IInv, Write, Open, Panicking
  <1>2. /\ pc' = pc /\ offered' = offered /\ panicked' = panicked
        /\ writes < MaxWrites /\ writes' = writes + 1
    BY DEF Write
  <1>3. writes' \in 0..MaxWrites
    BY <1>1, <1>2, WritesAssumption DEF TypeOK
  <1>4. CASE Wrapped /\ ~wroteHeader
    <2>1. Header(OK, 1)
      BY <1>4 DEF Write
    <2>2. /\ Begun' /\ wroteHeader' = TRUE
          /\ body' \in Seq(Piece) /\ Constantly(body', header')
          /\ sent' \in Headers /\ recorded' = OK
          /\ header' \in Encodings \cup {Plain} /\ encoding' \in Encodings \cup {Plain}
          /\ writer' \in Encodings \cup {"none"}
          /\ writer' # "none" => sent'.status \notin NoBody
      BY <1>1, <1>4, <2>1, HeaderEffect
    <2>3. TypeOK'
      BY <1>1, <1>2, <1>3, <2>2, StatusesAssumption DEF TypeOK
    <2>4. Writing' /\ Open'
      BY <1>1, <1>2, <1>4, <2>2 DEF Writing, Wrapped, HasSent, Open
    <2> QED
      BY <1>1, <1>2, <2>3, <2>4 DEF IInv, Panicking, Complete
  <1>5. CASE ~(Wrapped /\ ~wroteHeader)
    <2> DEFINE piece == IF writer = "none" THEN Plain ELSE writer
    <2>1. /\ Sending(OK, header, <<piece>>) /\ UNCHANGED <<compressor, header, recorded>>
      BY <1>5 DEF Write
    <2>2. piece = header /\ piece \in Piece
      BY <1>1 DEF Writing, Fresh, Begun, TypeOK, Piece
    <2>3. /\ sent' = Sends(OK, header)
          /\ body' = body \/ body' = body \o <<piece>>
      BY <2>1 DEF Sending
    <2>4. body' \in Seq(Piece) /\ Constantly(body', header)
      BY <1>1, <2>2, <2>3, OneIsConstant, ConcatConstant DEF TypeOK, Writing
    <2>5. Begun' /\ sent' \in Headers
      BY <1>1, <2>1, <2>3, StatusesAssumption
      DEF Writing, Fresh, Begun, Sends, Headers, TypeOK, compressor
    <2>6. writer # "none" => sent' = sent
      BY <1>1, <2>3 DEF Writing, Fresh, Begun, Sends
    <2>7. TypeOK'
      BY <1>1, <1>2, <1>3, <2>1, <2>4, <2>5, <2>6, StatusesAssumption DEF TypeOK, compressor
    <2>8. Writing' /\ Open'
      BY <1>1, <1>2, <1>5, <2>1, <2>4, <2>5 DEF Writing, Wrapped, HasSent, Open, compressor, Begun
    <2> QED
      BY <1>1, <1>2, <2>7, <2>8 DEF IInv, Panicking, Complete
  <1> QED
    BY <1>4, <1>5

LEMMA EndStep ==
  ASSUME IInv, Return \/ Panic
  PROVE  IInv'
  <1> USE DEF compressor, outside
  <1>1. TypeOK /\ Writing /\ pc = "handler" /\ panicked = "no" /\ pc' = "close"
    BY DEF IInv, Return, Panic, Open, Panicking
  <1>2. UNCHANGED <<offered, compressor, outside, writes>>
    BY DEF Return, Panic
  <1>3. \/ panicked' = "no" \/ panicked' = "late"
        \/ panicked' = "early" /\ ~HasSent
    BY <1>1 DEF Return, Panic
  <1>4. TypeOK'
    BY <1>1, <1>2, <1>3 DEF TypeOK
  <1>5. Writing'
    BY <1>1, <1>2 DEF Writing, Fresh, Begun, HasSent, Wrapped
  <1>6. panicked' = "early" => Fresh'
    BY <1>1, <1>2, <1>3 DEF Writing, Fresh
  <1> QED
    BY <1>1, <1>4, <1>5, <1>6 DEF IInv, Panicking, Complete

--------------------------------------------------------------------------------
(* What is deferred. *)

LEMMA CloseStep ==
  ASSUME IInv, Close
  PROVE  IInv'
  <1>1. TypeOK /\ Writing /\ pc = "close"
    BY DEF IInv, Close, Open
  <1>2. UNCHANGED <<offered, compressor, header, sent, recorded, writes, panicked>>
    BY DEF Close
  <1>3. pc' = IF panicked = "no" THEN "log" ELSE "recover"
    BY DEF Close
  <1>4. \/ body' = body /\ (writer = "none" \/ body = << >>)
        \/ body' = Append(body, "end") /\ writer # "none"
    BY DEF Close
  <1>5. body \in Seq(Piece) /\ "end" \in Piece
    BY <1>1 DEF TypeOK, Piece
  <1>6. body' \in Seq(Piece)
    BY <1>4, <1>5
  <1>7. TypeOK'
    BY <1>1, <1>2, <1>3, <1>6 DEF TypeOK, compressor
  <1>8. Fresh => Fresh'
    BY <1>2, <1>4 DEF Fresh, compressor
  <1>9. Begun => Begun' /\ WellEncoded'
    <2> SUFFICES ASSUME Begun PROVE Begun' /\ WellEncoded'
      OBVIOUS
    <2>1. Begun'
      BY <1>2 DEF Begun, compressor
    <2>2. CASE writer = "none"
      <3>1. sent' = sent /\ body' = body /\ sent.encoding = Plain /\ Constantly(body, Plain)
        BY <1>1, <1>2, <1>4, <2>2 DEF Begun, Writing
      <3> QED
        BY <2>1, <3>1 DEF Constantly, WellEncoded
    <2>3. CASE writer # "none" /\ body' = body /\ body = << >>
      <3>1. body' = << >> /\ Len(<< >>) = 0
        BY <2>3
      <3> QED
        BY <2>1, <3>1 DEF WellEncoded
    <2>4. CASE writer # "none" /\ body' = Append(body, "end")
      <3>1. /\ Len(body') = Len(body) + 1 /\ Len(body) \in Nat
            /\ body'[Len(body) + 1] = "end"
            /\ \A i \in 1..Len(body) : body'[i] = body[i]
        BY <1>5, <2>4
      <3>2. sent' = sent /\ sent.encoding = header /\ Constantly(body, header)
        BY <1>1, <1>2 DEF Begun, Writing
      <3>3. header # Plain
        BY <1>1, <2>4 DEF Begun, TypeOK, Encodings, Plain
      <3> QED
        BY <2>1, <3>1, <3>2, <3>3 DEF Constantly, WellEncoded
    <2> QED
      BY <1>4, <2>1, <2>2, <2>3, <2>4
  <1> QED
    BY <1>1, <1>2, <1>3, <1>7, <1>8, <1>9
    DEF IInv, Open, Writing, Panicking, Complete

LEMMA RecoverStep ==
  ASSUME IInv, Recover
  PROVE  IInv'
  <1>1. TypeOK /\ pc = "recover" /\ panicked \in {"early", "late"} /\ pc' = "log"
    BY DEF IInv, Recover, Panicking, TypeOK
  <1>2. /\ UNCHANGED <<offered, compressor, header, writes, panicked>>
        /\ recorded' = Failed /\ Sending(Failed, header, <<Plain>>)
    BY DEF Recover
  <1>3. /\ sent' = Sends(Failed, header)
        /\ body' = IF Sends(Failed, header).status \in NoBody THEN body ELSE body \o <<Plain>>
    BY <1>2 DEF Sending
  <1>4. sent' \in Headers /\ (sent # Unsent => sent' = sent)
    BY <1>1, <1>3 DEF TypeOK, Sends, Headers
  <1>5. body' \in Seq(Piece)
    BY <1>1, <1>3, OneIsConstant, ConcatProperties DEF TypeOK, Piece
  <1>6. TypeOK'
    BY <1>1, <1>2, <1>4, <1>5 DEF TypeOK, compressor
  <1>7. ASSUME panicked = "early"
        PROVE  sent' = [status |-> Failed, encoding |-> Plain] /\ WellEncoded'
    <2>1. Fresh
      BY <1>1, <1>7 DEF IInv, Panicking
    <2>2. sent' = [status |-> Failed, encoding |-> Plain]
      BY <1>3, <2>1 DEF Fresh, Sends
    <2>3. body' = << >> \o <<Plain>>
      BY <1>3, <2>1, StatusesAssumption DEF Fresh, Sends
    <2>4. Constantly(body', Plain)
      BY <2>3, OneIsConstant, ConcatConstant DEF Constantly, Piece
    <2> QED
      BY <2>2, <2>4 DEF Constantly, WellEncoded
  <1> QED
    BY <1>1, <1>2, <1>6, <1>7 DEF IInv, Open, Panicking, Complete

LEMMA LogStep ==
  ASSUME IInv, Log
  PROVE  IInv'
  <1>1. TypeOK /\ pc = "log" /\ pc' = "done" /\ Complete
    BY DEF IInv, Log
  <1>2. /\ UNCHANGED <<offered, compressor, header, body, recorded, writes, panicked>>
        /\ sent' = Sends(OK, header)
    BY DEF Log
  <1>3. sent' \in Headers /\ (sent # Unsent => sent' = sent) /\ sent' # Unsent
    BY <1>1, <1>2, StatusesAssumption DEF TypeOK, Sends, Headers
  <1>4. TypeOK'
    BY <1>1, <1>2, <1>3 DEF TypeOK, compressor
  <1>5. panicked = "no" => Begun' /\ WellEncoded'
    <2>0. UNCHANGED <<writer, header, body, recorded>>
      BY <1>2 DEF compressor
    <2>1. CASE Fresh
      <3>1. sent' = [status |-> OK, encoding |-> Plain] /\ body' = << >>
        BY <1>2, <2>0, <2>1 DEF Fresh, Sends
      <3>2. Begun'
        BY <1>3, <2>0, <2>1, <3>1 DEF Fresh, Begun
      <3> QED
        BY <3>1, <3>2 DEF WellEncoded
    <2>2. CASE Begun /\ WellEncoded
      <3>1. sent' = sent
        BY <1>3, <2>2 DEF Begun
      <3> QED
        BY <2>0, <2>2, <3>1 DEF Begun, WellEncoded
    <2> QED
      BY <1>1, <2>1, <2>2 DEF Complete
  <1>6. panicked = "early" => sent # Unsent
    BY <1>1, StatusesAssumption DEF Complete, Headers
  <1> QED
    BY <1>1, <1>2, <1>3, <1>4, <1>5, <1>6 DEF IInv, Open, Panicking, Complete, WellEncoded

LEMMA InvStep == IInv /\ [Next]_vars => IInv'
  <1> SUFFICES ASSUME IInv, [Next]_vars PROVE IInv'
    OBVIOUS
  <1>1. CASE UNCHANGED vars
    BY <1>1 DEF vars, compressor, outside, IInv, TypeOK, Open, Writing, Fresh, Begun, HasSent,
       Wrapped, Panicking, Complete, WellEncoded, Constantly
  <1> QED
    BY <1>1, WriteHeaderStep, WriteStep, EndStep, CloseStep, RecoverStep, LogStep DEF Next

THEOREM Inductive == Spec => []IInv
  BY InvInit, InvStep, PTL DEF Spec

--------------------------------------------------------------------------------

\* The types, and a compressor runs only where a body may be.
THEOREM TypeCorrect == Spec => []TypeOK
  BY Inductive, PTL DEF IInv

\* Whatever the handler does, with whichever statuses and however many writes: unless
\* it panics after its header, the client is sent one whole stream of the encoding it
\* is told, or nothing.
THEOREM ResponsesDecode == Spec => []Decodes
  <1>1. IInv => Decodes
    <2> SUFFICES ASSUME IInv, pc = "done", panicked # "late" PROVE WellEncoded
      BY DEF Decodes
    <2> QED
      BY DEF IInv, TypeOK, Complete, Fresh
  <1> QED
    BY <1>1, Inductive, PTL

\* Unless the handler panics after its header, the log has the status that was sent,
\* and a panic before the header is answered as an internal error, not compressed.
THEOREM LogIsTrue == Spec => []LoggedAsSent
  <1>1. IInv => LoggedAsSent
    BY DEF IInv, TypeOK, Complete, Fresh, Begun, LoggedAsSent
  <1> QED
    BY <1>1, Inductive, PTL

================================================================================
