------------------------------- MODULE ResultAuth -------------------------------
(***************************************************************************)
(* ResultAuthMiddleware: who may read the reports, by signed link, by the  *)
(* cookie that opening a link sets, or by the API token.                   *)
(*                                                                         *)
(* One browser reads several reports, over time, restarts of the browser   *)
(* and changes of the secret; its requests may have an address, or a       *)
(* cookie, that somebody has changed.  The clock counts ticks, PerSecond   *)
(* of them to a second: links expire at whole seconds, cookies live whole  *)
(* seconds, and the clock is read in between.  A signature is the term of  *)
(* what it is computed over, so that two are equal only if all of it is,   *)
(* and who does not hold the secret has only those of signed links.        *)
(***************************************************************************)
EXTENDS Integers, FiniteSets, Sequences

CONSTANTS
    Ids,         \* the analyses
    Secrets,     \* the values RESULT_AUTH_SECRET takes
    Off,         \* RESULT_AUTH_SECRET is not set
    Nil,         \* no cookie, no grant
    Forged,      \* a signature that no secret makes
    Expiries,    \* the expiries a request may name, whatever was signed
    PerSecond,   \* ticks to a second
    DefaultTTL,  \* defaultResultAuthCookieTTL, in ticks
    TTL,         \* RESULT_AUTH_TTL in ticks, 0 if it is not set
    Lifetimes,   \* for how many ticks links are signed; 0 is for ever
    MaxNow,      \* the clock of a run stops here
    MaxLinks     \* so many links are signed in a run

\* A grant is a signature and an expiry in seconds; zero is for ever.  Those of
\* links have the expiry that was signed.  A cookie keeps the grant of a link.
Signature == Secrets \X Ids \X Nat
Grant     == [sig : Signature \cup {Forged}, expires : Int]
Link      == [id : Ids, secret : Secrets, at : Nat, grant : [sig : Signature, expires : Nat]]
Opening   == [id : Ids, secret : Secrets, at : Nat, grant : [sig : Signature, expires : Nat]]
Value     == Nat \X Signature
Cookie    == [value : Value, session : BOOLEAN, until : Nat]

ASSUME NamesAssumption ==
    /\ Off \notin Secrets /\ Forged \notin Signature
    /\ Nil \notin Ids \cup Grant \cup Opening \cup Cookie \cup Value
    /\ Expiries \subseteq Int
ASSUME ClockAssumption ==
    /\ PerSecond \in Nat \ {0} /\ DefaultTTL \in Nat \ {0}
    /\ TTL \in Nat /\ MaxNow \in Nat /\ MaxLinks \in Nat
    /\ Lifetimes \subseteq {0} \cup {d \in Nat : d >= PerSecond}

VARIABLES
    now,        \* the clock of the server
    secret,     \* RESULT_AUTH_SECRET
    links,      \* the links that have been signed
    cookie,     \* what the browser keeps
    opened,     \* history: how the browser last opened a report by a link
    reply       \* the request just answered, and what has authorised it

vars == <<now, secret, links, cookie, opened, reply>>

None == [id |-> Nil, by |-> "none"]

Init ==
    /\ now = 0
    /\ secret \in Secrets \cup {Off}
    /\ links = {}
    /\ cookie = Nil
    /\ opened = Nil
    /\ reply = None

--------------------------------------------------------------------------------
(* Signatures and grants. *)

\* Mutant: the signature does not cover the expiry.
SignResultBare(s, id, expires) == <<s, id, 0>>

SignResult(s, id, expires) == <<s, id, expires>>

Valid(g, id) ==
    /\ g.expires = 0 \/ now < g.expires * PerSecond
    /\ g.sig = SignResult(secret, id, g.expires)

\* Whoever holds the secret signs links, without the API.
Sign(id, d) ==
    /\ secret # Off /\ Cardinality(links) < MaxLinks
    /\ LET expires == IF d = 0 THEN 0 ELSE (now + d) \div PerSecond IN
       links' = links \cup {[id |-> id, secret |-> secret, at |-> now,
                             grant |-> [sig |-> SignResult(secret, id, expires), expires |-> expires]]}
    /\ reply' = None
    /\ UNCHANGED <<now, secret, cookie, opened>>

--------------------------------------------------------------------------------
(* The cookie. *)

Least(a, b) == IF a < b THEN a ELSE b

\* Mutant: a link without expiry counts as one that has expired.
CookieTTLUnguarded(g) ==
    LET ttl == IF TTL > 0 THEN TTL ELSE DefaultTTL IN
    Least(ttl, g.expires * PerSecond - now)

\* How long the cookie of a grant may live: as long as is configured, and as the
\* link has left.
CookieTTL(g) ==
    LET ttl == IF TTL > 0 THEN TTL ELSE DefaultTTL IN
    IF g.expires = 0 THEN ttl ELSE Least(ttl, g.expires * PerSecond - now)

\* Mutant: the cookie has no expiry unless the link has.
EncodedBare(g) == IF g.expires = 0 THEN <<g.sig>> ELSE <<g.expires, g.sig>>

\* "<expires>.<sig>", with an expiry of zero for links that have none.
Encoded(g) == <<g.expires, g.sig>>

\* What is not of two parts, the first of them a time, is no grant.
Parsed(v) ==
    IF v # Nil /\ Len(v) = 2 /\ v[1] >= 0 THEN [sig |-> v[2], expires |-> v[1]] ELSE Nil

\* Mutant: the lifetime is rounded up.
MaxAgeUp(ttl) == (ttl + PerSecond - 1) \div PerSecond

\* Max-Age is in whole seconds.
MaxAge(ttl) == ttl \div PerSecond

\* A cookie of no Max-Age lives as long as the session of the browser.  There is
\* one cookie for all reports: its name and its path are the same for all.
SetCookie(g) ==
    LET age == MaxAge(CookieTTL(g)) IN
    cookie' = IF CookieTTL(g) <= 0 THEN cookie
              ELSE [value |-> Encoded(g), session |-> age = 0, until |-> now + age * PerSecond]

Kept == cookie # Nil /\ (cookie.session \/ now < cookie.until)

\* What the browser sends of it.
Sent == IF Kept THEN cookie.value ELSE Nil

CookieGrants(v, id) == LET g == Parsed(v) IN g # Nil /\ Valid(g, id)

--------------------------------------------------------------------------------
(* A request for a report or its screenshot. *)

Answer(id, by) == reply' = [id |-> id, by |-> by]

OpenLink(id, g) ==
    /\ SetCookie(g)
    /\ opened' = [id |-> id, secret |-> secret, at |-> now, grant |-> g]
    /\ Answer(id, "link")

\* The grant q is what the address has, Nil if it has no signature or an expiry that
\* is no number; v is the value of the cookie, Nil if there is none; token says
\* whether the request has the API token.
Request(id, q, v, token) ==
    /\ \/ secret = Off /\ Answer(id, "open") /\ UNCHANGED <<cookie, opened>>
       \/ secret # Off /\ token /\ Answer(id, "token") /\ UNCHANGED <<cookie, opened>>
       \/ /\ secret # Off /\ ~token
          /\ q # Nil /\ Valid(q, id)
          /\ OpenLink(id, q)
       \/ /\ secret # Off /\ ~token
          /\ ~(q # Nil /\ Valid(q, id))
          /\ Answer(id, IF CookieGrants(v, id) THEN "cookie" ELSE "401")
          /\ UNCHANGED <<cookie, opened>>
    /\ UNCHANGED <<now, secret, links>>

\* Signatures and expiries may come from different links, or from none.
Signatures == {l.grant.sig : l \in links} \cup {Forged}
Presented  == {l.grant : l \in links} \cup [sig : Signatures, expires : Expiries]
MadeUp     == {Encoded(g) : g \in Presented} \cup {<<s>> : s \in Signatures}

--------------------------------------------------------------------------------
(* Around it. *)

Tick ==
    /\ now < MaxNow
    /\ now' = now + 1
    /\ reply' = None
    /\ UNCHANGED <<secret, links, cookie, opened>>

\* The server is started anew with another secret, or with none.
Rotate ==
    /\ secret' \in (Secrets \cup {Off}) \ {secret}
    /\ reply' = None
    /\ UNCHANGED <<now, links, cookie, opened>>

\* The browser is closed and opened again.
CloseBrowser ==
    /\ cookie # Nil
    /\ cookie' = IF cookie.session THEN Nil ELSE cookie
    /\ reply' = None
    /\ UNCHANGED <<now, secret, links, opened>>

Next ==
    \/ \E id \in Ids, d \in Lifetimes : Sign(id, d)
    \/ \E id \in Ids, token \in BOOLEAN :
          \/ \E q \in Presented \cup {Nil} : Request(id, q, Sent, token)
          \/ \E v \in MadeUp \cup {Nil} : Request(id, Nil, v, token)
    \/ Tick \/ Rotate \/ CloseBrowser

Spec == Init /\ [][Next]_vars

--------------------------------------------------------------------------------
(* Properties. *)

\* The types of the variables; what the browser has opened is a signed link, and its
\* cookie keeps the grant of one.
TypeOK ==
    /\ now \in 0..MaxNow
    /\ secret \in Secrets \cup {Off}
    /\ links \subseteq Link
    /\ cookie \in Cookie \cup {Nil}
    /\ cookie # Nil => \E l \in links : Parsed(cookie.value) = l.grant
    /\ opened \in Opening \cup {Nil}
    /\ opened # Nil =>
          /\ opened.at <= now
          /\ \E l \in links :
                l.id = opened.id /\ l.secret = opened.secret /\ l.grant = opened.grant
    /\ reply.id \in Ids \cup {Nil}
    /\ reply.by \in {"none", "open", "token", "link", "cookie", "401"}

\* Somebody who held the secret of now has signed l for the report of id, and for a
\* time that has not run out.
Grants(l, id) ==
    /\ l.id = id /\ l.secret = secret
    /\ l.grant.expires = 0 \/ now < l.grant.expires * PerSecond

\* A report is sent without the token only if a link to it was signed, with the secret
\* of now, that has not expired: whatever signature and whatever expiry, of whatever
\* links or of none, the address and the cookie put together, however many other
\* reports the browser has opened, links have expired and secrets have been changed,
\* and changed back, since.
ServedByGrant ==
    reply.by \in {"link", "cookie"} => \E l \in links : Grants(l, reply.id)

\* Until when the cookie of opening o must last, and may last at most.
Whole(t) == t - (t % PerSecond)
Configured == IF TTL > 0 THEN TTL ELSE DefaultTTL
Lasts(o) ==
    o.at + Whole(IF o.grant.expires = 0 THEN Configured
                 ELSE Least(Configured, o.grant.expires * PerSecond - o.at))

\* The files of the report opened last load without a signature of their own for
\* the whole seconds of the lifetime configured and left, if the secret is still
\* the same, whatever else the browser asked for and was refused, and also after
\* it was closed and opened.
AssetsLoad ==
    opened # Nil /\ opened.secret = secret /\ now < Lasts(opened)
        => CookieGrants(Sent, opened.id)

\* A cookie that has a Max-Age outlasts neither the link it comes from nor the
\* lifetime that is configured.
CookieNeverOutlasts ==
    cookie # Nil /\ ~cookie.session =>
        /\ cookie.until <= opened.at + Configured
        /\ LET e == opened.grant.expires IN e = 0 \/ cookie.until <= e * PerSecond

--------------------------------------------------------------------------------
(* What the documentation says of links; refuted. *)

\* "RESULT_AUTH_TTL: max lifetime for signed result links and their cookie".
LinksLiveAtMostTTL ==
    reply.by = "link" /\ TTL > 0 =>
        \E l \in links : Grants(l, reply.id) /\ now <= l.at + TTL

================================================================================
