--------------------------- MODULE BrowserSession ---------------------------
(* A tab of a browser: the access token in localStorage, which all tabs of   *)
(* the browser share, and the tab's own React Query cache with the identity  *)
(* it shows.  frontend/src/main.tsx, hooks/useAuth.ts, routes/login.tsx,     *)
(* routes/_layout.tsx, settings.tsx and imports/new.tsx beneath it.          *)
(* The other tabs are modelled by what they do to the shared token.          *)
(*                                                                           *)
(* Users stand for accounts; the server is reduced to what decides an        *)
(* answer: an account's token version, whether its password is temporary and *)
(* whether it may import.  Accounts models the server in full.               *)
EXTENDS Naturals, Functions

CONSTANTS
    Users,        \* accounts somebody signs in with at this browser
    Newcomers,    \* those whose password is still the temporary one
    Viewers,      \* those whose role does not allow imports at first
    MaxVersion,   \* bound: changes and revocations of accounts, in all
    MaxLogins,    \* bound: sign-ins, of this tab and of others
    Retries,      \* times React Query repeats a failed query (3 by default)
    None

ASSUMPTION SessionBounds == /\ MaxVersion \in Nat
                            /\ MaxLogins \in Nat
                            /\ Retries \in Nat
ASSUMPTION NoUser == None \notin Users

VARIABLES
    version,      \* version[u]: user.token_version
    temporary,    \* temporary[u]: user.must_change_password
    importer,     \* importer[u]: the role is admin or operator, not viewer
    stored,       \* localStorage "access_token"
    page,         \* the route the tab renders
    shown,        \* the data of the cache entry ["currentUser"]
    query,        \* query[q]: the fetch of a query that is under way
    signIn,       \* the login mutation that is under way
    mutation,     \* the password change or upload that is under way
    logins        \* sign-ins so far

server == <<version, temporary, importer>>
vars == <<server, stored, page, shown, query, signIn, mutation, logins>>

Tokens == [user : Users, version : Nat]

\* What read_user_me answers; the version is that of the session it answered.
Identity == [user : Users, version : Nat, importer : BOOLEAN]

\* "leaving" is a tab whose window.location was set: its script runs no more.
Inside == {"overview", "settings", "new import"}
Pages == Inside \cup {"login", "leaving"}

\* The page query stands for the queries of the overview, which the server
\* answers to users with a password of their own; ["currentUser"] it answers
\* to every session.
Queries == {"me", "page"}

\* A fetch of a query: the token its last attempt carried, what the server had
\* to say of ["currentUser"] when it was sent, the attempts left, and whether
\* a mounted component still observes the query (if none, it is not retried).
Fetch == [token : Tokens \cup {None}, answer : Identity \cup {None},
          tries : 0..Retries, observed : BOOLEAN]

\* Mutations; "sent" until the server has acted.  fresh: the identity shown was
\* that of the session the upload was made with.
SignIn == [by : Users, state : {"sent"}]
          \cup [state : {"ok", "temporary"}, token : Tokens]
Change == [kind : {"password"}, token : Tokens \cup {None}, state : {"sent"}]
Offer == [kind : {"upload"}, fresh : BOOLEAN, token : Tokens \cup {None}, state : {"sent"}]
Mutation == Change \cup Offer
            \cup [state : {"refused", "password required"}]
            \cup [fresh : BOOLEAN, state : {"forbidden"}]

TypeOK ==
    /\ version \in [Users -> Nat]
    /\ temporary \in [Users -> BOOLEAN]
    /\ importer \in [Users -> BOOLEAN]
    /\ stored \in Tokens \cup {None}
    /\ page \in Pages
    /\ shown \in Identity \cup {None}
    /\ query \in [Queries -> Fetch \cup {None}]
    /\ signIn \in SignIn \cup {None}
    /\ mutation \in Mutation \cup {None}
    /\ logins \in 0..MaxLogins

Init ==
    /\ version = [u \in Users |-> 0]
    /\ temporary = [u \in Users |-> u \in Newcomers]
    /\ importer = [u \in Users |-> u \notin Viewers]
    /\ stored = None
    /\ page = "login"
    /\ shown = None
    /\ query = [q \in Queries |-> None]
    /\ signIn = None
    /\ mutation = None
    /\ logins = 0

\* get_current_user: the token names an account and its present version.
Accepted(token) == token # None /\ token.version = version[token.user]

\* token_version is counted up; the bound is one of the instance.
Bump(u) ==
    /\ FoldFunction(+, 0, version) < MaxVersion
    /\ version' = [version EXCEPT ![u] = @ + 1]
---------------------------------------------------------------------------
(* React Query: one fetch per query; a second caller joins it.              *)

\* The auth callback reads localStorage each time a request is sent.
Sent(q, token, tries) ==
    [token |-> token, tries |-> tries, observed |-> TRUE,
     answer |-> IF q = "me" /\ Accepted(token)
                THEN [user |-> token.user, version |-> token.version,
                      importer |-> importer[token.user]]
                ELSE None]

StartOrJoin(fetches, token, started) ==
    [q \in Queries |->
        IF q \notin started THEN fetches[q]
        ELSE IF fetches[q] = None THEN Sent(q, token, Retries)
        ELSE [fetches[q] EXCEPT !.observed = TRUE]]

Unobserve(fetches, unmounted) ==
    [q \in Queries |-> IF q \in unmounted /\ fetches[q] # None /\ fetches[q].tries > 0
                       THEN [fetches[q] EXCEPT !.observed = FALSE]
                       ELSE fetches[q]]

\* The queries page p mounts.  ["currentUser"], which the login form mounts
\* too, is enabled if a token is stored when the component renders.
Mounted(p, token) == (IF p = "overview" THEN {"page"} ELSE {})
                     \cup (IF p = "login" /\ token = None THEN {} ELSE {"me"})

\* Rendering page p after a navigation within the application.
Render(p, token) ==
    /\ page' = p
    /\ query' = LET m == Mounted(p, token)
                IN  Unobserve(StartOrJoin(query, token, m), Queries \ m)
---------------------------------------------------------------------------
(* Loading, navigating, leaving                                             *)

\* Guards of the routes: the layout sends a browser without a token to the
\* login page, the login page sends one with a token to the overview.
Guarded(p, token) == IF token = None THEN "login"
                     ELSE IF p = "login" THEN "overview" ELSE p

\* The tab loads the application at a URL; nothing of the old page survives.
Open(p) ==
    /\ page = "leaving" => p = "login"
    /\ LET q == Guarded(p, stored) IN
       /\ page' = q
       /\ query' = StartOrJoin([k \in Queries |-> None], stored, Mounted(q, stored))
    /\ shown' = None
    /\ signIn' = None
    /\ mutation' = None
    /\ UNCHANGED <<server, stored, logins>>

\* A link of the sidebar.  The guards run, the cache stays.
Visit(p) ==
    /\ page \in Inside
    /\ Render(Guarded(p, stored), stored)
    /\ UNCHANGED <<server, stored, shown, signIn, mutation, logins>>

\* Mutant: the profile is not fetched again with the other queries.
FocusWithoutIdentity ==
    /\ page # "leaving"
    /\ query' = StartOrJoin(query, stored, Mounted(page, stored) \ {"me"})
    /\ UNCHANGED <<server, stored, page, shown, signIn, mutation, logins>>

\* The window regains the focus, or the tab becomes visible: stale queries of
\* mounted components are fetched again.
Focus ==
    /\ page # "leaving"
    /\ query' = StartOrJoin(query, stored, Mounted(page, stored))
    /\ UNCHANGED <<server, stored, page, shown, signIn, mutation, logins>>

\* refetchInterval of the overview, while the tab is visible.
Poll ==
    /\ page = "overview"
    /\ query' = StartOrJoin(query, stored, {"page"})
    /\ UNCHANGED <<server, stored, page, shown, signIn, mutation, logins>>

\* logout(): the token goes, the tab shows the login form, the cache stays.
Logout ==
    /\ page \in Inside
    /\ stored' = None
    /\ Render("login", None)
    /\ UNCHANGED <<server, shown, signIn, mutation, logins>>

\* handleApiError: a query or mutation ended in 401 or 403.
EndSession ==
    /\ stored' = None
    /\ page' = "leaving"
    /\ shown' = None
    /\ query' = [q \in Queries |-> None]
    /\ signIn' = None
    /\ mutation' = None
---------------------------------------------------------------------------
(* Queries under way                                                        *)

\* A refused token stays refused, so an answer that took its time may be "ok"
\* if the token was accepted when it was sent, and is a refusal only if it is
\* refused when the answer arrives.
Answers(q, f) ==
    {"failed"}
    \cup (IF Accepted(f.token) THEN {} ELSE {"refused"})
    \cup (IF f.answer # None THEN {"ok"} ELSE {})
    \cup (IF q = "page" /\ Accepted(f.token)
          THEN {IF temporary[f.token.user] THEN "forbidden" ELSE "ok"} ELSE {})

\* The answer "ok" reaches the cache.
QueryAnswered(q) ==
    LET f == query[q] IN
    /\ f # None
    /\ "ok" \in Answers(q, f)
    /\ query' = [query EXCEPT ![q] = None]
    /\ shown' = IF q = "me" THEN f.answer ELSE shown
    /\ UNCHANGED <<server, stored, page, signIn, mutation, logins>>

\* Mutant: one retry too many.
QueryRetriedOnceMore(q) ==
    LET f == query[q] IN
    /\ f # None
    /\ f.tries >= 0 /\ f.observed
    /\ query' = [query EXCEPT ![q] = Sent(q, stored, f.tries - 1)]
    /\ UNCHANGED <<server, stored, page, shown, signIn, mutation, logins>>

\* An error is retried while attempts are left and a component observes the
\* query; the retry reads localStorage again.
QueryRetried(q) ==
    LET f == query[q] IN
    /\ f # None
    /\ f.tries > 0 /\ f.observed
    /\ query' = [query EXCEPT ![q] = Sent(q, stored, f.tries - 1)]
    /\ UNCHANGED <<server, stored, page, shown, signIn, mutation, logins>>

\* Mutant: handleApiError knows 403 only.
QueryGivenUpForbidden(q) ==
    LET f == query[q] IN
    /\ f # None
    /\ f.tries = 0 \/ ~f.observed
    /\ \/ /\ "forbidden" \in Answers(q, f)
          /\ EndSession
          /\ UNCHANGED <<server, logins>>
       \/ /\ query' = [query EXCEPT ![q] = None]
          /\ UNCHANGED <<server, stored, page, shown, signIn, mutation, logins>>

QueryGivenUp(q) ==
    LET f == query[q] IN
    /\ f # None
    /\ f.tries = 0 \/ ~f.observed
    /\ \/ /\ Answers(q, f) \cap {"refused", "forbidden"} # {}
          /\ EndSession
          /\ UNCHANGED <<server, logins>>
       \/ /\ query' = [query EXCEPT ![q] = None]
          /\ UNCHANGED <<server, stored, page, shown, signIn, mutation, logins>>
---------------------------------------------------------------------------
(* Signing in                                                               *)

\* onSubmit ignores a second submission while one is pending.
Submit(u) ==
    /\ page = "login"
    /\ signIn = None
    /\ logins < MaxLogins
    /\ logins' = logins + 1
    /\ signIn' = [by |-> u, state |-> "sent"]
    /\ UNCHANGED <<server, stored, page, shown, query, mutation>>

\* login_access_token issues a token of the present version.
ServeSignIn ==
    /\ signIn # None
    /\ signIn.state = "sent"
    /\ LET u == signIn.by IN
       signIn' = [state |-> IF temporary[u] THEN "temporary" ELSE "ok",
                  token |-> [user |-> u, version |-> version[u]]]
    /\ UNCHANGED <<server, stored, page, shown, query, mutation, logins>>

\* The mutation stores the token, then navigates: to the settings if the
\* password has to be changed, to the overview otherwise.
SignedIn ==
    /\ signIn # None
    /\ signIn.state # "sent"
    /\ stored' = signIn.token
    /\ Render(IF signIn.state = "temporary" THEN "settings" ELSE "overview", stored')
    /\ signIn' = None
    /\ UNCHANGED <<server, shown, mutation, logins>>

\* A wrong password (400), the rate limit (429), the network: a toast.
SignInFailed ==
    /\ signIn # None
    /\ signIn' = None
    /\ UNCHANGED <<server, stored, page, shown, query, mutation, logins>>
---------------------------------------------------------------------------
(* Mutations of the pages                                                   *)

\* One mutation at a time; the request carries the token that is stored.
Request(m) ==
    /\ mutation = None
    /\ shown # None
    /\ mutation' = m
    /\ UNCHANGED <<server, stored, page, shown, query, signIn, logins>>

ChangePassword ==
    /\ page = "settings"
    /\ Request([kind |-> "password", token |-> stored, state |-> "sent"])

\* The form is offered to those whose cached role may import.
Upload ==
    /\ page = "new import"
    /\ shown # None /\ shown.importer
    /\ Request([kind |-> "upload", token |-> stored, state |-> "sent",
                fresh |-> stored = [user |-> shown.user, version |-> shown.version]])

\* Success and other errors leave the session as it is, even after a change of
\* the password, with which the server refuses it from now on.
Respond(state) ==
    mutation' = CASE state = "answered" -> None
                  [] state = "forbidden" -> [fresh |-> mutation.fresh, state |-> state]
                  [] OTHER -> [state |-> state]

\* CurrentUser, then change_password: what was typed in must be the password of
\* the token's account. Whose password that was is open: who is at the keyboard
\* need not be the person whose profile the settings page shows, nor the one
\* whose token was sent, so it may be the right one whatever the tab shows.
ServeChange ==
    /\ mutation # None /\ mutation.state = "sent" /\ mutation.kind = "password"
    /\ \/ /\ Accepted(mutation.token)
          /\ Bump(mutation.token.user)
          /\ temporary' = [temporary EXCEPT ![mutation.token.user] = FALSE]
          /\ Respond("answered")
          /\ UNCHANGED importer
       \/ /\ Respond(IF Accepted(mutation.token) THEN "answered" ELSE "refused")
          /\ UNCHANGED server
    /\ UNCHANGED <<stored, page, shown, query, signIn, logins>>

\* OperatorUser, then upload_import.
ServeUpload ==
    /\ mutation # None /\ mutation.state = "sent" /\ mutation.kind = "upload"
    /\ Respond(IF ~Accepted(mutation.token) THEN "refused"
               ELSE IF temporary[mutation.token.user] THEN "password required"
               ELSE IF ~importer[mutation.token.user] THEN "forbidden" ELSE "answered")
    /\ UNCHANGED <<server, stored, page, shown, query, signIn, logins>>

MutationLost ==
    /\ mutation # None
    /\ mutation' = None
    /\ UNCHANGED <<server, stored, page, shown, query, signIn, logins>>

MutationRefused ==
    /\ mutation # None
    /\ mutation.state # "sent"
    /\ EndSession
    /\ UNCHANGED <<server, logins>>
---------------------------------------------------------------------------
(* What others do                                                           *)

\* Mutant: a new role leaves the token version as it is.
RevokeRoleOnly(u) ==
    /\ \/ /\ Bump(u)
          /\ \E b \in BOOLEAN : temporary' = [temporary EXCEPT ![u] = b]
          /\ UNCHANGED importer
       \/ /\ importer' = [importer EXCEPT ![u] = ~@]
          /\ UNCHANGED <<version, temporary>>
    /\ UNCHANGED <<stored, page, shown, query, signIn, mutation, logins>>

\* An administrator disables the account, gives it another role or a temporary
\* password; or its owner changes the password at another device.
Revoke(u) ==
    /\ Bump(u)
    /\ \/ \E b \in BOOLEAN : temporary' = [temporary EXCEPT ![u] = b] /\ UNCHANGED importer
       \/ importer' = [importer EXCEPT ![u] = ~@] /\ UNCHANGED temporary
    /\ UNCHANGED <<stored, page, shown, query, signIn, mutation, logins>>

\* In another tab somebody signs in, signs out, or loses the session.
SignInElsewhere(u) ==
    /\ logins < MaxLogins
    /\ logins' = logins + 1
    /\ stored' \in [user : {u}, version : 0..version[u]]
    /\ UNCHANGED <<server, page, shown, query, signIn, mutation>>

SignOutElsewhere ==
    /\ stored' = None
    /\ UNCHANGED <<server, page, shown, query, signIn, mutation, logins>>
---------------------------------------------------------------------------
Answered ==
    \/ \E q \in Queries : QueryAnswered(q) \/ QueryRetried(q) \/ QueryGivenUp(q)
    \/ ServeSignIn \/ SignedIn \/ SignInFailed
    \/ ServeChange \/ ServeUpload \/ MutationLost \/ MutationRefused

Acted ==
    \/ \E p \in Inside \cup {"login"} : Open(p)
    \/ \E p \in Inside : Visit(p)
    \/ Focus \/ Poll \/ Logout \/ ChangePassword \/ Upload
    \/ \E u \in Users : Submit(u)

Elsewhere ==
    \/ \E u \in Users : Revoke(u) \/ SignInElsewhere(u)
    \/ SignOutElsewhere

Next == Answered \/ Acted \/ Elsewhere

Spec == Init /\ [][Next]_vars

\* Every fetch is answered or fails in the end; a server asked again and again
\* answers sometimes, be it with a refusal; the timer of a visible tab ticks.
Fairness ==
    /\ \A q \in Queries :
          /\ WF_vars(QueryRetried(q) \/ QueryGivenUp(q))
          /\ SF_vars(QueryAnswered(q))
          /\ SF_vars(QueryGivenUp(q) /\ page' = "leaving")
    /\ WF_vars(Poll)

FairSpec == Spec /\ Fairness
---------------------------------------------------------------------------
(* Properties                                                               *)

\* What a page offers by the role in the cache the server allows: an upload is
\* answered "forbidden", which would sign the user out, only if the identity
\* shown was not that of the session in use.  A role changes together with the
\* token version (crud.py), so the role fetched with a token is the role the
\* server sees as long as it accepts that token (imports/new.tsx:26).
OfferedIsAllowed ==
    mutation # None /\ mutation.state = "forbidden" => ~mutation.fresh

\* A tab that shows the overview does not go on with a session the server
\* refuses, nor without one after another tab signed out: its queries are
\* repeated, fail, and main.tsx ends the session.
RefusedSessionEnds ==
    (page = "overview" /\ ~Accepted(stored)) ~> (page # "overview" \/ Accepted(stored))

\* A tab to which its user returns again and again shows in the end the
\* account its requests are made with, although signing out keeps the cache
\* and a fetch of the session before may still be under way (useAuth.ts:21).
IdentityCatchesUp ==
    []<><<Focus>>_vars
    => ((shown # None /\ stored # None)
            ~> (shown = None \/ stored = None \/ shown.user = stored.user))
=============================================================================
