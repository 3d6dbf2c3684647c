---------------------------- MODULE ResultAuthProofs ----------------------------
(***************************************************************************)
(* Theorems about ResultAuth, for all sets of analyses, secrets, lifetimes *)
(* and expiries a request may name, every grain of the clock and every     *)
(* setting of the two lifetimes.                                           *)
(***************************************************************************)
EXTENDS ResultAuth, TLAPS

--------------------------------------------------------------------------------
(* Whole seconds. *)

LEMMA DivMod ==
  ASSUME NEW t \in Nat
  PROVE  /\ t \div PerSecond \in Nat /\ t % PerSecond \in Nat
         /\ t = PerSecond * (t \div PerSecond) + (t % PerSecond)
  BY ClockAssumption

\* A Max-Age is what is whole of the lifetime it is made from.
LEMMA MaxAgeIsWhole ==
  ASSUME NEW t \in Nat
  PROVE  /\ MaxAge(t) \in Nat /\ MaxAge(t) * PerSecond \in Nat
         /\ MaxAge(t) * PerSecond = Whole(t)
         /\ Whole(t) <= t
         /\ MaxAge(t) = 0 => Whole(t) = 0
  <1> DEFINE q == t \div PerSecond
             r == t % PerSecond
  <1>1. q \in Nat /\ r \in Nat /\ t = PerSecond * q + r
    BY DivMod
  <1>2. PerSecond * q = q * PerSecond /\ q * PerSecond \in Nat /\ (q = 0 => q * PerSecond = 0)
    <2> HIDE DEF q
    <2> QED
      BY <1>1, ClockAssumption
  <1>3. MaxAge(t) = q /\ Whole(t) = t - r
    BY DEF MaxAge, Whole
  <1> HIDE DEF q, r
  <1> QED
    BY <1>1, <1>2, <1>3

--------------------------------------------------------------------------------
(* Grants and the cookie that keeps one. *)

\* The grants of links.
Signed == [sig : Signature, expires : Nat]

LEMMA ParsedEncoded ==
  ASSUME NEW g \in Signed
  PROVE  Encoded(g) \in Nat \X Signature /\ Parsed(Encoded(g)) = g
  <1>1. g.sig \in Signature /\ g.expires \in Nat /\ g = [sig |-> g.sig, expires |-> g.expires]
    BY DEF Signed
  <1>2. Len(<<g.expires, g.sig>>) = 2
    OBVIOUS
  <1>3. <<g.expires, g.sig>> # Nil
    BY <1>1, NamesAssumption DEF Value
  <1> QED
    BY <1>1, <1>2, <1>3 DEF Parsed, Encoded

\* How long the cookie of opening o was to live, when it was opened.
Lifetime(o) ==
    IF o.grant.expires = 0 THEN Configured
    ELSE Least(Configured, o.grant.expires * PerSecond - o.at)

\* The cookie that was set by opening o.
CookieOf(o) ==
    [value   |-> Encoded(o.grant),
     session |-> MaxAge(Lifetime(o)) = 0,
     until   |-> o.at + MaxAge(Lifetime(o)) * PerSecond]

LEMMA ConfiguredType == Configured \in Nat \ {0}
  BY ClockAssumption DEF Configured

\* An opening within the time of its link.
LEMMA OpeningEffect ==
  ASSUME NEW o \in Opening,
         o.grant.expires = 0 \/ o.at < o.grant.expires * PerSecond
  PROVE  /\ Lifetime(o) \in Nat \ {0} /\ Lifetime(o) <= Configured
         /\ \/ o.grant.expires = 0
            \/ o.at + Lifetime(o) <= o.grant.expires * PerSecond
         /\ MaxAge(Lifetime(o)) * PerSecond = Whole(Lifetime(o))
         /\ Whole(Lifetime(o)) \in Nat /\ Whole(Lifetime(o)) <= Lifetime(o)
         /\ MaxAge(Lifetime(o)) = 0 => Whole(Lifetime(o)) = 0
         /\ Lasts(o) = o.at + Whole(Lifetime(o))
         /\ CookieOf(o) \in Cookie
  <1> DEFINE e == o.grant.expires
  <1>1. o.at \in Nat /\ e \in Nat /\ o.grant \in Signed
    BY DEF Opening, Signed
  <1>2. e * PerSecond \in Nat
    <2> HIDE DEF e
    <2> QED
      BY <1>1, ClockAssumption
  <1>3. /\ Lifetime(o) \in Nat \ {0} /\ Lifetime(o) <= Configured
        /\ e = 0 \/ o.at + Lifetime(o) <= e * PerSecond
    BY <1>1, <1>2, ConfiguredType DEF Lifetime, Least
  <1>4. /\ MaxAge(Lifetime(o)) * PerSecond = Whole(Lifetime(o))
        /\ Whole(Lifetime(o)) \in Nat /\ Whole(Lifetime(o)) <= Lifetime(o)
        /\ MaxAge(Lifetime(o)) = 0 => Whole(Lifetime(o)) = 0
    BY <1>3, MaxAgeIsWhole
  <1>5. Lasts(o) = o.at + Whole(Lifetime(o))
    BY DEF Lasts, Lifetime
  <1>6. CookieOf(o) \in Cookie
    BY <1>1, <1>4, ParsedEncoded DEF CookieOf, Cookie, Value
  <1> QED
    BY <1>3, <1>4, <1>5, <1>6

--------------------------------------------------------------------------------
(* The inductive invariant. *)

\* A link is signed with its secret, for its report and its expiry.
Links == \A l \in links : l.grant.sig = SignResult(l.secret, l.id, l.grant.expires)

\* A report was opened by a link to it that had not expired.
OpenedInTime ==
    opened # Nil =>
        /\ opened.grant.sig = SignResult(opened.secret, opened.id, opened.grant.expires)
        /\ opened.grant.expires = 0 \/ opened.at < opened.grant.expires * PerSecond

\* The cookie is the one that was set by the last opening, unless it went with a
\* session of the browser.
CookieOfOpened ==
    IF opened = Nil THEN cookie = Nil
    ELSE \/ cookie = CookieOf(opened)
         \/ cookie = Nil /\ MaxAge(Lifetime(opened)) = 0

IInv == TypeOK /\ Links /\ OpenedInTime /\ CookieOfOpened /\ ServedByGrant

\* What the invariant says of the report that was opened last.
LEMMA OpenedFacts ==
  ASSUME TypeOK, OpenedInTime, opened # Nil
  PROVE  /\ opened \in Opening /\ opened.id \in Ids /\ opened.at \in Nat /\ opened.at <= now
         /\ opened.grant \in Signed
         /\ opened.grant.expires \in Nat /\ opened.grant.expires * PerSecond \in Nat
         /\ opened.grant.expires = 0 \/ opened.at < opened.grant.expires * PerSecond
  <1>1. opened \in Opening /\ opened.at <= now
    BY DEF TypeOK
  <1>2. /\ opened.id \in Ids /\ opened.at \in Nat /\ opened.grant \in Signed
        /\ opened.grant.expires \in Nat
    BY <1>1 DEF Opening, Signed
  <1>3. opened.grant.expires * PerSecond \in Nat
    BY <1>2, ClockAssumption
  <1> QED
    BY <1>1, <1>2, <1>3 DEF OpenedInTime

\* A cookie keeps the grant of the report that was opened last.
LEMMA CookieFacts ==
  ASSUME TypeOK, OpenedInTime, CookieOfOpened, cookie # Nil
  PROVE  /\ opened # Nil /\ cookie = CookieOf(opened)
         /\ Parsed(cookie.value) = opened.grant
  <1>1. opened # Nil /\ cookie = CookieOf(opened)
    BY DEF CookieOfOpened
  <1>2. cookie.value = Encoded(opened.grant)
    BY <1>1 DEF CookieOf
  <1> QED
    BY <1>1, <1>2, OpenedFacts, ParsedEncoded

\* Grants whose signature is of a link, or of nobody: all that a request can have.
Presentable == {g \in Grant : g.sig \in Signatures}

LEMMA SignaturesType ==
  ASSUME TypeOK
  PROVE  Signatures \subseteq Signature \cup {Forged}
  BY DEF TypeOK, Signatures, Link

LEMMA PresentedType ==
  ASSUME TypeOK
  PROVE  Presented \subseteq Presentable
  <1>1. ASSUME NEW l \in links PROVE l.grant \in Presentable
    <2>1. l.grant \in [sig : Signature, expires : Nat]
      BY <1>1 DEF TypeOK, Link
    <2>2. l.grant \in Grant
      BY <2>1 DEF Grant
    <2>3. l.grant.sig \in Signatures
      BY <1>1 DEF Signatures
    <2> QED
      BY <2>2, <2>3 DEF Presentable
  <1>2. [sig : Signatures, expires : Expiries] \subseteq Presentable
    BY SignaturesType, NamesAssumption DEF Presentable, Grant
  <1> QED
    BY <1>1, <1>2 DEF Presented

\* A cookie that is read as a grant is read as one of these, the browser's own as well
\* as one that is made up.
LEMMA ParsedPresentable ==
  ASSUME IInv, NEW v \in {Sent, Nil} \cup MadeUp, Parsed(v) # Nil
  PROVE  Parsed(v) \in Presentable
  <1> USE DEF IInv
  <1>1. v # Nil /\ Len(v) = 2
    BY DEF Parsed
  <1>2. CASE v = Sent
    <2>1. cookie # Nil /\ v = cookie.value
      BY <1>1, <1>2 DEF Sent, Kept
    <2>2. PICK l \in links : Parsed(v) = l.grant
      BY <2>1 DEF TypeOK
    <2> QED
      BY <2>2, PresentedType DEF Presented
  <1>3. CASE \E g \in Presented : v = Encoded(g)
    <2>1. PICK g \in Presented : v = <<g.expires, g.sig>>
      BY <1>3 DEF Encoded
    <2>2. g \in Presentable /\ g = [sig |-> g.sig, expires |-> g.expires]
      BY <2>1, PresentedType DEF Presentable, Grant
    <2>3. v[1] = g.expires /\ v[2] = g.sig
      BY <2>1
    <2>4. Parsed(v) = g
      BY <2>2, <2>3 DEF Parsed
    <2> QED
      BY <2>2, <2>4
  <1>4. CASE \E t \in Signatures : v = <<t>>
    BY <1>1, <1>4
  <1> QED
    BY <1>1, <1>2, <1>3, <1>4 DEF MadeUp

LEMMA NowType ==
  ASSUME TypeOK
  PROVE  now \in Nat /\ now \in 0..MaxNow
  BY ClockAssumption DEF TypeOK

\* A grant that is valid for a report is that of a link to it, whoever presents it:
\* its signature covers the report and the expiry, and is some link's.
LEMMA ValidIsGrant ==
  ASSUME TypeOK, Links, secret # Off, NEW id \in Ids, NEW g \in Presentable, Valid(g, id)
  PROVE  /\ g \in Signed /\ g.sig = SignResult(secret, id, g.expires)
         /\ g.expires = 0 \/ now < g.expires * PerSecond
         /\ \E l \in links : l.grant = g /\ l.secret = secret /\ Grants(l, id)
  <1>1. /\ g \in Grant /\ g.expires \in Int /\ g.sig \in Signatures
        /\ g = [sig |-> g.sig, expires |-> g.expires]
    BY DEF Presentable, Grant
  <1>2. /\ g.sig = <<secret, id, g.expires>>
        /\ g.expires = 0 \/ now < g.expires * PerSecond
    BY DEF Valid, SignResult
  <1>3. g.expires \in Nat
    <2> SUFFICES ASSUME g.expires < 0 PROVE FALSE
      BY <1>1
    <2>1. now < g.expires * PerSecond
      BY <1>2
    <2>2. g.expires * PerSecond < 0
      BY <1>1, ClockAssumption
    <2> QED
      BY <1>1, <2>1, <2>2, NowType, ClockAssumption
  <1>4. secret \in Secrets
    BY DEF TypeOK
  <1>5. g.sig \in Signature
    BY <1>2, <1>3, <1>4 DEF Signature
  <1>6. PICK l \in links : l.grant.sig = g.sig
    BY <1>1, <1>5, NamesAssumption DEF Signatures
  <1>7. /\ l.grant \in Signed
        /\ l.grant = [sig |-> l.grant.sig, expires |-> l.grant.expires]
    BY DEF TypeOK, Link, Signed
  <1>8. <<l.secret, l.id, l.grant.expires>> = <<secret, id, g.expires>>
    BY <1>2, <1>6 DEF Links, SignResult
  <1>9. l.secret = secret /\ l.id = id /\ l.grant = g
    BY <1>1, <1>6, <1>7, <1>8
  <1>10. Grants(l, id)
    BY <1>2, <1>9 DEF Grants
  <1> QED
    BY <1>2, <1>7, <1>9, <1>10 DEF SignResult

--------------------------------------------------------------------------------
(* What the invariant implies. *)

LEMMA InvAssets ==
  ASSUME IInv
  PROVE  AssetsLoad
  <1> SUFFICES ASSUME opened # Nil, opened.secret = secret, now < Lasts(opened)
               PROVE  CookieGrants(Sent, opened.id)
    BY DEF AssetsLoad
  <1> USE DEF IInv
  <1> DEFINE o == opened
             g == o.grant
  <1>1. now \in Nat
    BY NowType
  <1>2. /\ o \in Opening /\ o.at \in Nat /\ o.at <= now /\ g \in Signed
        /\ g.expires \in Nat /\ g.expires * PerSecond \in Nat
        /\ g.expires = 0 \/ o.at < g.expires * PerSecond
    BY OpenedFacts
  <1>3. g.sig = SignResult(secret, o.id, g.expires)
    BY DEF OpenedInTime
  <1>4. /\ Lifetime(o) \in Nat \ {0} /\ Whole(Lifetime(o)) \in Nat
        /\ Whole(Lifetime(o)) <= Lifetime(o)
        /\ MaxAge(Lifetime(o)) = 0 => Whole(Lifetime(o)) = 0
        /\ MaxAge(Lifetime(o)) * PerSecond = Whole(Lifetime(o))
        /\ g.expires = 0 \/ o.at + Lifetime(o) <= g.expires * PerSecond
        /\ Lasts(o) = o.at + Whole(Lifetime(o))
        /\ CookieOf(o) \in Cookie
    BY <1>2, OpeningEffect
  <1>5. MaxAge(Lifetime(o)) # 0
    BY <1>1, <1>2, <1>4
  <1>6. cookie = CookieOf(o) /\ cookie # Nil
    BY <1>4, <1>5, NamesAssumption DEF CookieOfOpened
  <1>7. cookie.until = Lasts(o)
    BY <1>4, <1>6 DEF CookieOf
  <1>8. Sent = cookie.value
    BY <1>6, <1>7 DEF Kept, Sent
  <1>9. Parsed(Sent) = g /\ g # Nil
    <2>1. g \in Grant
      BY <1>2 DEF Signed, Grant
    <2> QED
      BY <1>6, <1>8, <2>1, CookieFacts, NamesAssumption
  <1>10. g.expires = 0 \/ now < g.expires * PerSecond
    BY <1>1, <1>2, <1>4
  <1>11. Valid(g, o.id)
    BY <1>3, <1>10 DEF Valid
  <1> QED
    BY <1>9, <1>11 DEF CookieGrants

LEMMA InvOutlasts ==
  ASSUME IInv
  PROVE  CookieNeverOutlasts
  <1> SUFFICES ASSUME cookie # Nil
               PROVE  /\ cookie.until <= opened.at + Configured
                      /\ \/ opened.grant.expires = 0
                         \/ cookie.until <= opened.grant.expires * PerSecond
    BY DEF CookieNeverOutlasts
  <1> USE DEF IInv
  <1> DEFINE o == opened
             g == o.grant
  <1>1. o # Nil /\ cookie = CookieOf(o)
    BY CookieFacts
  <1>2. /\ o \in Opening /\ o.at \in Nat
        /\ g.expires \in Nat /\ g.expires * PerSecond \in Nat
        /\ g.expires = 0 \/ o.at < g.expires * PerSecond
    BY <1>1, OpenedFacts
  <1>3. /\ Lifetime(o) \in Nat \ {0} /\ Lifetime(o) <= Configured
        /\ Whole(Lifetime(o)) \in Nat /\ Whole(Lifetime(o)) <= Lifetime(o)
        /\ MaxAge(Lifetime(o)) * PerSecond = Whole(Lifetime(o))
        /\ g.expires = 0 \/ o.at + Lifetime(o) <= g.expires * PerSecond
    BY <1>2, OpeningEffect
  <1>4. cookie.until = o.at + Whole(Lifetime(o))
    BY <1>1, <1>3 DEF CookieOf
  <1> QED
    BY <1>2, <1>3, <1>4, ConfiguredType

--------------------------------------------------------------------------------
(* The steps. *)

\* While neither the browser nor the links it has opened change, what is said of
\* them goes on to hold.
LEMMA BrowserSame ==
  ASSUME IInv, links \subseteq links', UNCHANGED <<cookie, opened>>,
         now \in Nat, now' \in Nat, now <= now'
  PROVE  /\ cookie' \in Cookie \cup {Nil}
         /\ cookie' # Nil => \E l \in links' : Parsed(cookie'.value) = l.grant
         /\ opened' \in Opening \cup {Nil}
         /\ opened' # Nil =>
               /\ opened'.at <= now'
               /\ \E l \in links' :
                     l.id = opened'.id /\ l.secret = opened'.secret /\ l.grant = opened'.grant
         /\ OpenedInTime' /\ CookieOfOpened'
  <1> USE DEF IInv
  <1>1. cookie' = cookie /\ opened' = opened
    OBVIOUS
  <1>2. OpenedInTime'
    BY <1>1 DEF OpenedInTime, SignResult
  <1>3. CookieOfOpened'
    BY <1>1 DEF CookieOfOpened
  <1>4. cookie \in Cookie \cup {Nil} /\ opened \in Opening \cup {Nil}
    BY DEF TypeOK
  <1>5. cookie # Nil => \E l \in links' : Parsed(cookie.value) = l.grant
    BY DEF TypeOK
  <1>6. opened # Nil =>
           /\ opened.at <= now'
           /\ \E l \in links' :
                 l.id = opened.id /\ l.secret = opened.secret /\ l.grant = opened.grant
    <2> SUFFICES ASSUME opened # Nil
                 PROVE  /\ opened.at <= now'
                        /\ \E l \in links' : /\ l.id = opened.id /\ l.secret = opened.secret
                                             /\ l.grant = opened.grant
      OBVIOUS
    <2>1. opened.at \in Nat /\ opened.at <= now
      BY OpenedFacts
    <2>2. \E l \in links : l.id = opened.id /\ l.secret = opened.secret /\ l.grant = opened.grant
      BY DEF TypeOK
    <2> QED
      BY <2>1, <2>2
  <1> QED
    BY <1>1, <1>2, <1>3, <1>4, <1>5, <1>6

LEMMA InvInit == Init => IInv
  <1> SUFFICES ASSUME Init PROVE IInv
    OBVIOUS
  <1>1. TypeOK
    BY ClockAssumption DEF Init, TypeOK, None
  <1>2. Links /\ OpenedInTime /\ CookieOfOpened
    BY DEF Init, Links, OpenedInTime, CookieOfOpened
  <1>3. ServedByGrant
    BY DEF Init, None, ServedByGrant
  <1> QED
    BY <1>1, <1>2, <1>3 DEF IInv

\* Nothing is served by a step that answers no request.
LEMMA NoneServed ==
  ASSUME reply' = None
  PROVE  /\ reply'.id \in Ids \cup {Nil}
         /\ reply'.by \in {"none", "open", "token", "link", "cookie", "401"}
         /\ ServedByGrant'
  BY DEF None, ServedByGrant

LEMMA SignStep ==
  ASSUME IInv, NEW id \in Ids, NEW d \in Lifetimes, Sign(id, d)
  PROVE  IInv'
  <1> USE DEF IInv
  <1> DEFINE expires == IF d = 0 THEN 0 ELSE (now + d) \div PerSecond
             l == [id |-> id, secret |-> secret, at |-> now,
                   grant |-> [sig |-> SignResult(secret, id, expires), expires |-> expires]]
  <1>1. links' = links \cup {l} /\ reply' = None /\ secret # Off
    BY DEF Sign
  <1>2. now' = now /\ secret' = secret /\ UNCHANGED <<cookie, opened>>
    BY DEF Sign
  <1>3. now \in Nat /\ d \in Nat
    BY NowType, ClockAssumption
  <1>4. expires \in Nat
    <2>1. now + d \in Nat
      BY <1>3
    <2> QED
      BY <2>1, DivMod
  <1>5. l \in Link /\ l.id = id /\ l.grant.sig = SignResult(l.secret, l.id, l.grant.expires)
    <2> HIDE DEF expires
    <2>1. secret \in Secrets
      BY <1>1 DEF TypeOK
    <2>2. SignResult(secret, id, expires) \in Signature
      BY <1>4, <2>1 DEF SignResult, Signature
    <2> QED
      BY <1>3, <1>4, <2>1, <2>2 DEF Link
  <1>6. links' \subseteq Link /\ Links'
    <2> HIDE DEF l
    <2> QED
      BY <1>1, <1>5 DEF TypeOK, Links
  <1>7. links \subseteq links'
    BY <1>1
  <1>8. now' \in 0..MaxNow /\ secret' \in Secrets \cup {Off}
    BY <1>2 DEF TypeOK
  <1>9. now' \in Nat /\ now <= now'
    BY <1>2, <1>3
  <1> QED
    BY <1>1, <1>2, <1>3, <1>6, <1>7, <1>8, <1>9, BrowserSame, NoneServed DEF TypeOK

LEMMA TickStep ==
  ASSUME IInv, Tick
  PROVE  IInv'
  <1> USE DEF IInv
  <1>1. /\ now' = now + 1 /\ now < MaxNow /\ reply' = None
        /\ secret' = secret /\ links' = links /\ UNCHANGED <<cookie, opened>>
    BY DEF Tick
  <1>2. now \in Nat /\ now' \in 0..MaxNow /\ now' \in Nat /\ now <= now'
    BY <1>1, NowType, ClockAssumption
  <1>3. links' \subseteq Link /\ Links' /\ secret' \in Secrets \cup {Off}
    BY <1>1 DEF TypeOK, Links
  <1> QED
    BY <1>1, <1>2, <1>3, BrowserSame, NoneServed DEF TypeOK

LEMMA RotateStep ==
  ASSUME IInv, Rotate
  PROVE  IInv'
  <1> USE DEF IInv
  <1>1. /\ now' = now /\ reply' = None /\ secret' \in Secrets \cup {Off}
        /\ links' = links /\ UNCHANGED <<cookie, opened>>
    BY DEF Rotate
  <1>2. now \in Nat /\ now' \in 0..MaxNow /\ now' \in Nat /\ now <= now'
    BY <1>1, NowType
  <1>3. links' \subseteq Link /\ Links'
    BY <1>1 DEF TypeOK, Links
  <1> QED
    BY <1>1, <1>2, <1>3, BrowserSame, NoneServed DEF TypeOK

LEMMA CloseBrowserStep ==
  ASSUME IInv, CloseBrowser
  PROVE  IInv'
  <1> USE DEF IInv
  <1>1. /\ now' = now /\ secret' = secret /\ links' = links /\ reply' = None
        /\ opened' = opened
        /\ cookie # Nil /\ cookie' = IF cookie.session THEN Nil ELSE cookie
    BY DEF CloseBrowser
  <1>2. opened # Nil /\ cookie = CookieOf(opened)
    BY <1>1, CookieFacts
  <1>3. cookie.session = (MaxAge(Lifetime(opened)) = 0)
    BY <1>2 DEF CookieOf
  <1>4. CookieOfOpened'
    <2>1. cookie' = cookie \/ (cookie' = Nil /\ MaxAge(Lifetime(opened)) = 0)
      BY <1>1, <1>3
    <2>2. opened' # Nil /\ CookieOf(opened') = cookie
          /\ MaxAge(Lifetime(opened')) = MaxAge(Lifetime(opened))
      BY <1>1, <1>2
    <2> QED
      BY <2>1, <2>2 DEF CookieOfOpened, MaxAge
  <1>5. Links' /\ OpenedInTime'
    BY <1>1 DEF Links, OpenedInTime, SignResult
  <1>6. TypeOK'
    BY <1>1, NoneServed DEF TypeOK
  <1> QED
    BY <1>1, <1>4, <1>5, <1>6, NoneServed

\* A request that opens no link changes nothing the browser keeps.
LEMMA AnswerEffect ==
  ASSUME IInv, NEW id \in Ids, NEW by \in {"open", "token", "cookie", "401"},
         by = "cookie" => \E l \in links : Grants(l, id),
         Answer(id, by), UNCHANGED <<now, secret, links, cookie, opened>>
  PROVE  IInv'
  <1> USE DEF IInv
  <1>1. /\ now' = now /\ secret' = secret /\ links' = links
        /\ UNCHANGED <<cookie, opened>> /\ opened' = opened
        /\ reply' = [id |-> id, by |-> by]
    BY DEF Answer
  <1>2. now \in Nat /\ now' \in 0..MaxNow /\ now' \in Nat /\ now <= now'
    BY <1>1, NowType
  <1>3. links' \subseteq Link /\ Links' /\ secret' \in Secrets \cup {Off}
    BY <1>1 DEF TypeOK, Links
  <1>4. reply'.id = id /\ reply'.by = by
    BY <1>1
  <1>5. ServedByGrant'
    BY <1>1, <1>4 DEF ServedByGrant, Grants
  <1> QED
    BY <1>1, <1>2, <1>3, <1>4, <1>5, BrowserSame DEF TypeOK

\* Opening a link puts its cookie into the browser, in place of the one before.
LEMMA OpenLinkEffect ==
  ASSUME IInv, secret # Off, NEW id \in Ids, NEW g \in Presentable, Valid(g, id),
         OpenLink(id, g), UNCHANGED <<now, secret, links>>
  PROVE  IInv'
  <1> USE DEF IInv
  <1> DEFINE o == [id |-> id, secret |-> secret, at |-> now, grant |-> g]
  <1>1. /\ now' = now /\ secret' = secret /\ links' = links
        /\ opened' = o /\ reply' = [id |-> id, by |-> "link"] /\ SetCookie(g)
    BY DEF OpenLink, Answer
  <1>2. /\ g \in Signed /\ g.sig = SignResult(secret, id, g.expires)
        /\ g.expires = 0 \/ now < g.expires * PerSecond
    BY ValidIsGrant
  <1>3. PICK l \in links : l.grant = g /\ l.secret = secret /\ Grants(l, id)
    BY ValidIsGrant
  <1>4. /\ o \in Opening /\ o.id = id /\ o.secret = secret /\ o.at = now /\ o.grant = g
        /\ o # Nil /\ now \in Nat
    <2>1. secret \in Secrets /\ now \in Nat
      BY NowType DEF TypeOK
    <2>2. o \in Opening
      BY <1>2, <2>1 DEF Opening, Signed
    <2> QED
      BY <2>1, <2>2, NamesAssumption
  <1>5. Lifetime(o) \in Nat \ {0} /\ CookieOf(o) \in Cookie
    BY <1>2, <1>4, OpeningEffect
  <1>6. CookieTTL(g) = Lifetime(o)
    BY <1>4 DEF CookieTTL, Lifetime, Configured
  <1>7. cookie' = CookieOf(o)
    <2>1. ~(Lifetime(o) <= 0)
      BY <1>5
    <2> QED
      BY <1>1, <1>4, <1>6, <2>1 DEF SetCookie, CookieOf
  <1>8. OpenedInTime'
    <2>1. /\ o.grant.sig = SignResult(o.secret, o.id, o.grant.expires)
          /\ o.grant.expires = 0 \/ o.at < o.grant.expires * PerSecond
      BY <1>2, <1>4
    <2> HIDE DEF o
    <2> QED
      BY <1>1, <2>1 DEF OpenedInTime, SignResult
  <1>9. CookieOfOpened'
    <2> HIDE DEF o
    <2>1. opened' # Nil /\ cookie' = CookieOf(opened')
      BY <1>1, <1>4, <1>7
    <2> QED
      BY <2>1 DEF CookieOfOpened, CookieOf, Lifetime
  <1>10. Links'
    BY <1>1 DEF Links, SignResult
  <1>11. reply'.id = id /\ reply'.by = "link"
    BY <1>1
  <1>12. ServedByGrant'
    BY <1>1, <1>3, <1>11 DEF ServedByGrant, Grants
  <1>13. \E k \in links' : Parsed(cookie'.value) = k.grant
    <2>1. cookie'.value = Encoded(g)
      BY <1>4, <1>7 DEF CookieOf
    <2> QED
      BY <1>1, <1>2, <1>3, <2>1, ParsedEncoded
  <1>14. /\ opened' \in Opening /\ opened'.at <= now'
         /\ \E k \in links' :
               k.id = opened'.id /\ k.secret = opened'.secret /\ k.grant = opened'.grant
    <2>1. l.id = o.id /\ l.secret = o.secret /\ l.grant = o.grant
      BY <1>3, <1>4 DEF Grants
    <2> HIDE DEF o
    <2> QED
      BY <1>1, <1>4, <2>1
  <1>15. TypeOK'
    BY <1>1, <1>5, <1>7, <1>11, <1>13, <1>14 DEF TypeOK
  <1> QED
    BY <1>8, <1>9, <1>10, <1>12, <1>15

\* A request with any grant and any cookie at once.
LEMMA RequestStep ==
  ASSUME IInv, NEW id \in Ids, NEW q \in Presented \cup {Nil},
         NEW v \in {Sent, Nil} \cup MadeUp, NEW token \in BOOLEAN, Request(id, q, v, token)
  PROVE  IInv'
  <1>1. UNCHANGED <<now, secret, links>>
    BY DEF Request
  <1>2. CASE Answer(id, "open") /\ UNCHANGED <<cookie, opened>>
    BY <1>1, <1>2, AnswerEffect
  <1>3. CASE Answer(id, "token") /\ UNCHANGED <<cookie, opened>>
    BY <1>1, <1>3, AnswerEffect
  <1>4. CASE secret # Off /\ q # Nil /\ Valid(q, id) /\ OpenLink(id, q)
    <2>1. q \in Presentable
      BY <1>4, PresentedType DEF IInv
    <2> QED
      BY <1>1, <1>4, <2>1, OpenLinkEffect
  <1>5. CASE /\ secret # Off
             /\ Answer(id, IF CookieGrants(v, id) THEN "cookie" ELSE "401")
             /\ UNCHANGED <<cookie, opened>>
    <2>1. CASE CookieGrants(v, id)
      <3>1. Parsed(v) # Nil /\ Valid(Parsed(v), id)
        BY <2>1 DEF CookieGrants
      <3>2. \E l \in links : Grants(l, id)
        BY <1>5, <3>1, ParsedPresentable, ValidIsGrant DEF IInv
      <3> QED
        BY <1>1, <1>5, <2>1, <3>2, AnswerEffect
    <2>2. CASE ~CookieGrants(v, id)
      BY <1>1, <1>5, <2>2, AnswerEffect
    <2> QED
      BY <2>1, <2>2
  <1> QED
    BY <1>2, <1>3, <1>4, <1>5 DEF Request

LEMMA InvNext == IInv /\ [Next]_vars => IInv'
  <1> SUFFICES ASSUME IInv, [Next]_vars PROVE IInv'
    OBVIOUS
  <1>1. CASE \E id \in Ids, d \in Lifetimes : Sign(id, d)
    BY <1>1, SignStep
  <1>2. CASE \E id \in Ids, token \in BOOLEAN :
               \/ \E q \in Presented \cup {Nil} : Request(id, q, Sent, token)
               \/ \E v \in MadeUp \cup {Nil} : Request(id, Nil, v, token)
    BY <1>2, RequestStep
  <1>3. CASE Tick
    BY <1>3, TickStep
  <1>4. CASE Rotate
    BY <1>4, RotateStep
  <1>5. CASE CloseBrowser
    BY <1>5, CloseBrowserStep
  <1>6. CASE UNCHANGED vars
    <2>1. /\ now' = now /\ secret' = secret /\ links' = links /\ cookie' = cookie
          /\ opened' = opened /\ reply' = reply
      BY <1>6 DEF vars
    <2>2. TypeOK'
      BY <2>1 DEF IInv, TypeOK
    <2>3. Links' /\ ServedByGrant'
      BY <2>1 DEF IInv, Links, SignResult, ServedByGrant, Grants
    <2>4. OpenedInTime' /\ CookieOfOpened'
      BY <2>1 DEF IInv, OpenedInTime, CookieOfOpened, SignResult
    <2> QED
      BY <2>2, <2>3, <2>4 DEF IInv
  <1> QED
    BY <1>1, <1>2, <1>3, <1>4, <1>5, <1>6 DEF Next

--------------------------------------------------------------------------------
(* The theorems. *)

\* The invariant holds in every state.
THEOREM Inductive == Spec => []IInv
  BY InvInit, InvNext, PTL DEF Spec

\* The variables have their types; what the browser has opened is a signed link, and
\* its cookie keeps the grant of one.
THEOREM TypeCorrect == Spec => []TypeOK
  <1>1. IInv => TypeOK
    BY DEF IInv
  <1> QED
    BY <1>1, Inductive, PTL

\* A report is sent without the token only if a link to it was signed, with the secret
\* of now, that has not expired, whatever the request has put together of the signatures
\* of links, of other signatures and of other expiries, in its address and in its cookie.
THEOREM LinksAuthorise == Spec => []ServedByGrant
  <1>1. IInv => ServedByGrant
    BY DEF IInv
  <1> QED
    BY <1>1, Inductive, PTL

\* The files of the report opened last load by the cookie alone for the whole
\* seconds of the lifetime configured and left.
THEOREM FilesLoad == Spec => []AssetsLoad
  BY InvAssets, Inductive, PTL

\* A cookie outlasts neither the link it comes from nor the lifetime configured.
THEOREM CookieLifetime == Spec => []CookieNeverOutlasts
  BY InvOutlasts, Inductive, PTL

================================================================================
