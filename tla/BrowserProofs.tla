---------------------------- MODULE BrowserProofs ----------------------------
(* A tab and its session, for any accounts, sign-ins and retries: what a     *)
(* page offers.  OfferedIsAllowed is not inductive: the invariant adds that  *)
(* no identity the cache holds, or will be answered, is ahead of its         *)
(* account, or knows another role than the account has while the session it  *)
(* was read with is accepted.                                                *)
EXTENDS BrowserSession, TLAPS

NotAhead(id) ==
    id # None => /\ id.version <= version[id.user]
                 /\ id.version = version[id.user] => id.importer = importer[id.user]

\* Fetches under way are well-formed, and bring no identity that is ahead.
Fetched(fetches) ==
    /\ fetches \in [Queries -> Fetch \cup {None}]
    /\ fetches["me"] # None => NotAhead(fetches["me"].answer)

\* The token of an upload offered by an identity of its own session may upload
\* as long as the server accepts it.
MayUpload(token) ==
    /\ token \in Tokens
    /\ token.version <= version[token.user]
    /\ token.version = version[token.user] => importer[token.user]

FreshUploadIsAllowed ==
    mutation # None /\ mutation.state = "sent" /\ mutation.kind = "upload" /\ mutation.fresh
        => MayUpload(mutation.token)

IdentityIsCurrent == NotAhead(shown) /\ Fetched(query)

IInv == TypeOK /\ IdentityIsCurrent /\ FreshUploadIsAllowed /\ OfferedIsAllowed

---------------------------------------------------------------------------
(* The fetches of the queries                                               *)

LEMMA SentIsFetch ==
    ASSUME TypeOK, NEW q \in Queries, NEW token \in Tokens \cup {None},
           NEW tries \in 0..Retries
    PROVE  /\ Sent(q, token, tries) \in Fetch
           /\ NotAhead(Sent(q, token, tries).answer)
<1> DEFINE a == IF q = "me" /\ Accepted(token)
                THEN [user |-> token.user, version |-> token.version,
                      importer |-> importer[token.user]]
                ELSE None
<1>1. a \in Identity \cup {None} /\ NotAhead(a)
  BY DEF TypeOK, Accepted, Tokens, Identity, NotAhead
<1>2. Sent(q, token, tries) = [token |-> token, tries |-> tries, observed |-> TRUE, answer |-> a]
  BY DEF Sent
<1> HIDE DEF a
<1> QED
  BY <1>1, <1>2 DEF Fetch

LEMMA StartedIsFetched ==
    ASSUME TypeOK, NEW fetches, Fetched(fetches), NEW token \in Tokens \cup {None}, NEW started
    PROVE  Fetched(StartOrJoin(fetches, token, started))
<1> DEFINE new(q) == IF q \notin started THEN fetches[q]
                     ELSE IF fetches[q] = None THEN Sent(q, token, Retries)
                     ELSE [fetches[q] EXCEPT !.observed = TRUE]
<1>1. ASSUME NEW q \in Queries
      PROVE  /\ new(q) \in Fetch \cup {None}
             /\ (q = "me" /\ new(q) # None) => NotAhead(new(q).answer)
  <2>1. Sent(q, token, Retries) \in Fetch /\ NotAhead(Sent(q, token, Retries).answer)
    BY SentIsFetch, SessionBounds
  <2>2. fetches[q] \in Fetch \cup {None}
    BY DEF Fetched
  <2>3. fetches[q] # None =>
            /\ [fetches[q] EXCEPT !.observed = TRUE] \in Fetch
            /\ [fetches[q] EXCEPT !.observed = TRUE].answer = fetches[q].answer
    BY <2>2 DEF Fetch
  <2> QED
    BY <2>1, <2>2, <2>3 DEF Fetched
<1>2. StartOrJoin(fetches, token, started) = [q \in Queries |-> new(q)]
  BY DEF StartOrJoin
<1> HIDE DEF new
<1>3. "me" \in Queries
  BY DEF Queries
<1> QED
  BY <1>1, <1>2, <1>3 DEF Fetched

LEMMA UnobservedIsFetched ==
    ASSUME NEW fetches, Fetched(fetches), NEW unmounted
    PROVE  Fetched(Unobserve(fetches, unmounted))
<1> DEFINE new(q) == IF q \in unmounted /\ fetches[q] # None /\ fetches[q].tries > 0
                     THEN [fetches[q] EXCEPT !.observed = FALSE]
                     ELSE fetches[q]
<1>1. ASSUME NEW q \in Queries
      PROVE  /\ new(q) \in Fetch \cup {None}
             /\ (q = "me" /\ new(q) # None) => NotAhead(new(q).answer)
  <2>2. fetches[q] \in Fetch \cup {None}
    BY DEF Fetched
  <2>3. fetches[q] # None =>
            /\ [fetches[q] EXCEPT !.observed = FALSE] \in Fetch
            /\ [fetches[q] EXCEPT !.observed = FALSE].answer = fetches[q].answer
    BY <2>2 DEF Fetch
  <2> QED
    BY <2>2, <2>3 DEF Fetched
<1>2. Unobserve(fetches, unmounted) = [q \in Queries |-> new(q)]
  BY DEF Unobserve
<1> HIDE DEF new
<1>3. "me" \in Queries
  BY DEF Queries
<1> QED
  BY <1>1, <1>2, <1>3 DEF Fetched

LEMMA RenderedIsFetched ==
    ASSUME IInv, NEW p \in Pages, NEW token \in Tokens \cup {None}, Render(p, token)
    PROVE  page' \in Pages /\ Fetched(query')
BY StartedIsFetched, UnobservedIsFetched DEF Render, IInv, IdentityIsCurrent

LEMMA NoFetch == Fetched([q \in Queries |-> None])
BY DEF Fetched, Queries

\* A fetch that ends.
LEMMA EndedIsFetched ==
    ASSUME NEW fetches, Fetched(fetches), NEW q \in Queries
    PROVE  Fetched([fetches EXCEPT ![q] = None])
BY DEF Fetched

---------------------------------------------------------------------------
(* Steps                                                                    *)

\* What the browser does by itself leaves the accounts as they are.
LEMMA BrowserKeeps ==
    ASSUME IInv, UNCHANGED server,
           stored' \in Tokens \cup {None}, page' \in Pages,
           shown' \in Identity \cup {None}, NotAhead(shown'), Fetched(query'),
           signIn' \in SignIn \cup {None}, mutation' \in {mutation, None},
           logins' \in 0..MaxLogins
    PROVE  IInv'
<1>1. version' = version /\ temporary' = temporary /\ importer' = importer
  BY DEF server
<1>2. TypeOK'
  BY <1>1 DEF IInv, TypeOK, Fetched
<1>3. IdentityIsCurrent'
  BY <1>1 DEF IdentityIsCurrent, Fetched, NotAhead
<1>4. FreshUploadIsAllowed' /\ OfferedIsAllowed'
  BY <1>1 DEF IInv, FreshUploadIsAllowed, OfferedIsAllowed, MayUpload
<1> QED
  BY <1>2, <1>3, <1>4 DEF IInv

LEMMA Typed ==
    ASSUME IInv
    PROVE  /\ stored \in Tokens \cup {None} /\ page \in Pages
           /\ shown \in Identity \cup {None} /\ NotAhead(shown) /\ Fetched(query)
           /\ signIn \in SignIn \cup {None} /\ logins \in 0..MaxLogins
           /\ version \in [Users -> Nat]
BY DEF IInv, TypeOK, IdentityIsCurrent

LEMMA EndSessionKeeps ==
    ASSUME IInv, EndSession, UNCHANGED <<server, logins>>
    PROVE  IInv'
BY Typed, BrowserKeeps, NoFetch DEF EndSession, NotAhead, Pages

LEMMA QueriesKeep ==
    ASSUME IInv, NEW q \in Queries, QueryAnswered(q) \/ QueryRetried(q) \/ QueryGivenUp(q)
    PROVE  IInv'
<1>1. query[q] \in Fetch \cup {None} /\ (q = "me" /\ query[q] # None => NotAhead(query[q].answer))
  BY Typed DEF Fetched
<1>2. CASE QueryAnswered(q)
  <2>1. query[q] # None /\ Fetched(query')
    BY <1>2, Typed, EndedIsFetched DEF QueryAnswered
  <2>2. shown' \in Identity \cup {None} /\ NotAhead(shown')
    BY <1>1, <1>2, <2>1, Typed DEF QueryAnswered, Fetch
  <2> QED
    BY <1>2, <2>1, <2>2, Typed, BrowserKeeps DEF QueryAnswered
<1>3. CASE QueryRetried(q)
  <2>1. query[q] # None /\ query[q].tries - 1 \in 0..Retries
    BY <1>1, <1>3, SessionBounds DEF QueryRetried, Fetch
  <2>2. /\ Sent(q, stored, query[q].tries - 1) \in Fetch
        /\ NotAhead(Sent(q, stored, query[q].tries - 1).answer)
    BY <2>1, Typed, SentIsFetch DEF IInv
  <2>3. query' = [query EXCEPT ![q] = Sent(q, stored, query[q].tries - 1)]
    BY <1>3 DEF QueryRetried
  <2>4. Fetched(query')
    BY <2>2, <2>3, Typed DEF Fetched
  <2> QED
    BY <1>3, <2>4, Typed, BrowserKeeps DEF QueryRetried
<1>4. CASE QueryGivenUp(q)
  <2>1. CASE query' = [query EXCEPT ![q] = None]
             /\ UNCHANGED <<server, stored, page, shown, signIn, mutation, logins>>
    BY <2>1, Typed, BrowserKeeps, EndedIsFetched
  <2> QED
    BY <1>4, <2>1, EndSessionKeeps DEF QueryGivenUp
<1> QED
  BY <1>2, <1>3, <1>4

\* Loading, navigating and looking again.
LEMMA PagesKeep ==
    ASSUME IInv,
           \/ \E p \in Inside \cup {"login"} : Open(p)
           \/ \E p \in Inside : Visit(p)
           \/ Focus \/ Poll \/ Logout
    PROVE  IInv'
<1>1. \A p \in Inside \cup {"login"} : Guarded(p, stored) \in Pages
  BY DEF Guarded, Inside, Pages
<1>2. ASSUME NEW p \in Inside \cup {"login"}, Open(p)
      PROVE  IInv'
  <2>1. page' \in Pages
    BY <1>1, <1>2 DEF Open
  <2>2. Fetched(query')
    BY <1>2, Typed, NoFetch, StartedIsFetched DEF Open, IInv
  <2> QED
    BY <1>2, <2>1, <2>2, Typed, BrowserKeeps DEF Open, NotAhead
<1>3. ASSUME NEW p \in Inside, Visit(p)
      PROVE  IInv'
  <2>1. page' \in Pages /\ Fetched(query')
    BY <1>1, <1>3, Typed, RenderedIsFetched DEF Visit
  <2> QED
    BY <1>3, <2>1, Typed, BrowserKeeps DEF Visit
<1>4. CASE Focus \/ Poll
  <2>1. Fetched(query')
    BY <1>4, Typed, StartedIsFetched DEF Focus, Poll, IInv
  <2> QED
    BY <1>4, <2>1, Typed, BrowserKeeps DEF Focus, Poll
<1>5. CASE Logout
  <2>1. page' \in Pages /\ Fetched(query')
    BY <1>5, RenderedIsFetched DEF Logout, Pages
  <2> QED
    BY <1>5, <2>1, Typed, BrowserKeeps DEF Logout
<1> QED
  BY <1>2, <1>3, <1>4, <1>5

LEMMA SigningInKeeps ==
    ASSUME IInv,
           \/ \E u \in Users : Submit(u)
           \/ ServeSignIn \/ SignedIn \/ SignInFailed
    PROVE  IInv'
<1>1. ASSUME NEW u \in Users, Submit(u)
      PROVE  IInv'
  <2>1. signIn' \in SignIn
    BY <1>1 DEF Submit, SignIn
  <2>2. logins' \in 0..MaxLogins
    BY <1>1, Typed, SessionBounds DEF Submit
  <2> QED
    BY <1>1, <2>1, <2>2, Typed, BrowserKeeps DEF Submit
<1>2. CASE ServeSignIn
  <2>1. signIn.by \in Users
    BY <1>2, Typed DEF ServeSignIn, SignIn
  <2>2. [user |-> signIn.by, version |-> version[signIn.by]] \in Tokens
    BY <2>1, Typed DEF Tokens
  <2>3. signIn' \in SignIn
    BY <1>2, <2>2 DEF ServeSignIn, SignIn
  <2> QED
    BY <1>2, <2>3, Typed, BrowserKeeps DEF ServeSignIn
<1>3. CASE SignedIn
  <2>1. signIn.token \in Tokens
    BY <1>3, Typed DEF SignedIn, SignIn
  <2>2. stored' \in Tokens \cup {None}
    BY <1>3, <2>1 DEF SignedIn
  <2>3. page' \in Pages /\ Fetched(query')
    BY <1>3, <2>1, RenderedIsFetched DEF SignedIn, Pages, Inside
  <2> QED
    BY <1>3, <2>2, <2>3, Typed, BrowserKeeps DEF SignedIn
<1>4. CASE SignInFailed
  BY <1>4, Typed, BrowserKeeps DEF SignInFailed
<1> QED
  BY <1>1, <1>2, <1>3, <1>4

LEMMA ElsewhereKeeps ==
    ASSUME IInv, (\E u \in Users : SignInElsewhere(u)) \/ SignOutElsewhere
    PROVE  IInv'
<1>1. ASSUME NEW u \in Users, SignInElsewhere(u)
      PROVE  IInv'
  <2>1. stored' \in Tokens
    BY <1>1, Typed DEF SignInElsewhere, Tokens
  <2>2. logins' \in 0..MaxLogins
    BY <1>1, Typed, SessionBounds DEF SignInElsewhere
  <2> QED
    BY <1>1, <2>1, <2>2, Typed, BrowserKeeps DEF SignInElsewhere
<1>2. CASE SignOutElsewhere
  BY <1>2, Typed, BrowserKeeps DEF SignOutElsewhere
<1> QED
  BY <1>1, <1>2

\* A request is made while an identity is shown.
LEMMA RequestKeeps ==
    ASSUME IInv, NEW m \in Change \cup Offer, Request(m),
           m.kind = "upload" /\ m.fresh => MayUpload(m.token)
    PROVE  IInv'
<1>1. /\ mutation' = m /\ m \in Mutation /\ m.state = "sent" /\ UNCHANGED server
      /\ UNCHANGED <<stored, page, shown, query, signIn, logins>>
  BY DEF Request, Mutation, Change, Offer
<1>2. TypeOK' /\ IdentityIsCurrent'
  BY <1>1 DEF IInv, TypeOK, IdentityIsCurrent, Fetched, NotAhead, server
<1>3. OfferedIsAllowed' /\ FreshUploadIsAllowed'
  BY <1>1 DEF OfferedIsAllowed, FreshUploadIsAllowed, MayUpload, server
<1> QED
  BY <1>2, <1>3 DEF IInv

LEMMA ChangePasswordKeeps ==
    ASSUME IInv, ChangePassword
    PROVE  IInv'
<1> DEFINE m == [kind |-> "password", token |-> stored, state |-> "sent"]
<1>1. m \in Change /\ m.kind = "password" /\ Request(m)
  BY Typed DEF Change, ChangePassword
<1> HIDE DEF m
<1> QED
  BY <1>1, RequestKeeps

\* An upload is fresh if the token sent with it is that of the identity shown.
LEMMA UploadKeeps ==
    ASSUME IInv, Upload
    PROVE  IInv'
<1> DEFINE fresh == stored = [user |-> shown.user, version |-> shown.version]
           m == [kind |-> "upload", token |-> stored, state |-> "sent", fresh |-> fresh]
<1>1. /\ shown \in Identity /\ shown # None /\ shown.importer /\ NotAhead(shown)
      /\ stored \in Tokens \cup {None}
  BY Typed DEF Upload
<1>2. fresh => MayUpload(stored)
  <2>1. SUFFICES ASSUME fresh PROVE MayUpload(stored)
    OBVIOUS
  <2>2. /\ stored.user = shown.user /\ stored.version = shown.version
        /\ stored \in Tokens
    BY <1>1, <2>1 DEF Identity, Tokens
  <2>3. /\ shown.version <= version[shown.user]
        /\ shown.version = version[shown.user] => importer[shown.user]
    BY <1>1 DEF NotAhead
  <2> QED
    BY <2>2, <2>3 DEF MayUpload
<1>3. Request(m) /\ fresh \in BOOLEAN
  BY DEF Upload
<1> HIDE DEF fresh
<1>4. m \in Offer /\ m.fresh = fresh /\ m.token = stored
  BY <1>1, <1>3 DEF Offer
<1> HIDE DEF m
<1> QED
  BY <1>2, <1>3, <1>4, RequestKeeps

\* The server's answer: what is left of the request is a refusal.
LEMMA RespondKeeps ==
    ASSUME IInv, UNCHANGED <<stored, page, shown, query, signIn, logins>>, UNCHANGED server,
           mutation # None, mutation.state = "sent",
           NEW answer \in {"answered", "refused", "password required", "forbidden"},
           answer = "forbidden" => mutation.kind = "upload" /\ ~mutation.fresh,
           Respond(answer)
    PROVE  IInv'
<1>1. mutation' \in Mutation \cup {None}
  BY DEF IInv, TypeOK, Mutation, Change, Offer, Respond
<1>2. TypeOK' /\ IdentityIsCurrent'
  BY <1>1 DEF IInv, TypeOK, IdentityIsCurrent, Fetched, NotAhead, server
<1>3. OfferedIsAllowed' /\ FreshUploadIsAllowed'
  BY DEF Respond, OfferedIsAllowed, FreshUploadIsAllowed
<1> QED
  BY <1>2, <1>3 DEF IInv

LEMMA Bumped ==
    ASSUME NEW u, Bump(u)
    PROVE  version' = [version EXCEPT ![u] = @ + 1]
BY DEF Bump

\* An account that counts its version up leaves every identity and every token
\* of before behind, whatever becomes of its role.
LEMMA BumpKeepsCurrent ==
    ASSUME IInv, NEW u \in Users, Bump(u),
           temporary' \in [Users -> BOOLEAN], importer' \in [Users -> BOOLEAN],
           \A x \in Users : x # u => importer'[x] = importer[x],
           UNCHANGED <<stored, page, shown, query, signIn, logins>>,
           mutation' \in {mutation, None}
    PROVE  IInv'
<1>1. /\ version' \in [Users -> Nat] /\ version'[u] = version[u] + 1
      /\ \A x \in Users : x # u => version'[x] = version[x]
  BY Bumped, Typed
<1>2. ASSUME NEW id \in Identity \cup {None}, NotAhead(id)
      PROVE  NotAhead(id)'
  BY <1>1, <1>2, Typed DEF Identity, NotAhead
<1>3. query["me"] # None => query["me"].answer \in Identity \cup {None}
  BY Typed DEF Fetched, Queries, Fetch
<1>4. IdentityIsCurrent'
  BY <1>2, <1>3, Typed DEF IdentityIsCurrent, Fetched
<1>5. TypeOK'
  BY <1>1 DEF IInv, TypeOK
<1>6. ASSUME NEW token, MayUpload(token)
      PROVE  MayUpload(token)'
  BY <1>1, <1>6, Typed DEF Tokens, MayUpload
<1>7. FreshUploadIsAllowed'
  BY <1>6 DEF IInv, TypeOK, FreshUploadIsAllowed
<1>8. OfferedIsAllowed'
  BY DEF IInv, OfferedIsAllowed
<1> QED
  BY <1>4, <1>5, <1>7, <1>8 DEF IInv

LEMMA ServeChangeKeeps ==
    ASSUME IInv, ServeChange
    PROVE  IInv'
<1>1. CASE /\ Accepted(mutation.token)
           /\ Bump(mutation.token.user)
           /\ temporary' = [temporary EXCEPT ![mutation.token.user] = FALSE]
           /\ Respond("answered")
           /\ UNCHANGED importer
  <2>1. mutation.token.user \in Users
    BY <1>1 DEF IInv, TypeOK, Mutation, Change, Offer, Tokens, Accepted, ServeChange
  <2>2. temporary' \in [Users -> BOOLEAN] /\ importer' \in [Users -> BOOLEAN]
    BY <1>1 DEF IInv, TypeOK
  <2> QED
    BY <1>1, <2>1, <2>2, BumpKeepsCurrent DEF ServeChange, Respond
<1>2. CASE /\ Respond(IF Accepted(mutation.token) THEN "answered" ELSE "refused")
           /\ UNCHANGED server
  BY <1>2, RespondKeeps DEF ServeChange
<1> QED
  BY <1>1, <1>2 DEF ServeChange

\* The server forbids an accepted token what its account may not do, which is
\* nothing a fresh upload asks.
LEMMA ServeUploadKeeps ==
    ASSUME IInv, ServeUpload
    PROVE  IInv'
<1> DEFINE answer == IF ~Accepted(mutation.token) THEN "refused"
                     ELSE IF temporary[mutation.token.user] THEN "password required"
                     ELSE IF ~importer[mutation.token.user] THEN "forbidden" ELSE "answered"
<1>1. answer = "forbidden" => mutation.kind = "upload" /\ ~mutation.fresh
  BY DEF IInv, FreshUploadIsAllowed, MayUpload, Accepted, ServeUpload
<1>2. answer \in {"answered", "refused", "password required", "forbidden"}
  OBVIOUS
<1>3. Respond(answer)
  BY DEF ServeUpload
<1> HIDE DEF answer
<1> QED
  BY <1>1, <1>2, <1>3, RespondKeeps DEF ServeUpload

LEMMA MutationsKeep ==
    ASSUME IInv, MutationLost \/ MutationRefused
    PROVE  IInv'
BY Typed, BrowserKeeps, EndSessionKeeps DEF MutationLost, MutationRefused

LEMMA RevokeKeeps ==
    ASSUME IInv, NEW u \in Users, Revoke(u)
    PROVE  IInv'
<1>1. /\ temporary' \in [Users -> BOOLEAN] /\ importer' \in [Users -> BOOLEAN]
      /\ \A x \in Users : x # u => importer'[x] = importer[x]
  BY DEF IInv, TypeOK, Revoke
<1> QED
  BY <1>1, BumpKeepsCurrent DEF Revoke

---------------------------------------------------------------------------
(* Theorems                                                                 *)

LEMMA InitEstablishes == Init => IInv
<1> SUFFICES ASSUME Init PROVE IInv
  OBVIOUS
<1>1. TypeOK
  BY SessionBounds DEF Init, TypeOK, Pages, Queries
<1>2. IdentityIsCurrent
  BY NoFetch DEF Init, IdentityIsCurrent, NotAhead
<1> QED
  BY <1>1, <1>2 DEF Init, IInv, FreshUploadIsAllowed, OfferedIsAllowed

\* IInv is inductive: initially true, and kept by the tab, the server and others.
THEOREM BrowserInvariance == Spec => []IInv
<1>1. Init => IInv
  BY InitEstablishes
<1>2. IInv /\ [Next]_vars => IInv'
  <2> SUFFICES ASSUME IInv, [Next]_vars PROVE IInv'
    OBVIOUS
  <2>1. CASE Answered
    BY <2>1, QueriesKeep, SigningInKeeps, ServeChangeKeeps, ServeUploadKeeps, MutationsKeep
       DEF Answered
  <2>2. CASE Acted
    BY <2>2, PagesKeep, ChangePasswordKeeps, UploadKeeps, SigningInKeeps DEF Acted
  <2>3. CASE Elsewhere
    BY <2>3, RevokeKeeps, ElsewhereKeeps DEF Elsewhere
  <2>4. CASE UNCHANGED vars
    BY <2>4, Typed, BrowserKeeps DEF vars
  <2> QED
    BY <2>1, <2>2, <2>3, <2>4 DEF Next
<1> QED
  BY <1>1, <1>2, PTL DEF Spec

\* Every variable of the tab and of the accounts keeps its type.
THEOREM BrowserTypes == Spec => []TypeOK
<1>1. IInv => TypeOK
  BY DEF IInv
<1> QED
  BY <1>1, BrowserInvariance, PTL

\* An upload the page offered by the role it shows is not answered "forbidden",
\* however roles change while requests are under way.
THEOREM OffersAreAllowed == Spec => []OfferedIsAllowed
<1>1. IInv => OfferedIsAllowed
  BY DEF IInv
<1> QED
  BY <1>1, BrowserInvariance, PTL
=============================================================================
