---------------------------- MODULE OAuthServer ----------------------------
(* The sign-in of an MCP client through Discord, as the workers of the web     *)
(* server serve it: POST /register, GET /authorize, the Discord callback, POST *)
(* /token for a code and for a refresh token.  Credentials are signed and      *)
(* stateless; the database keeps the clients, the users and one OAuthNonce row *)
(* for each Discord state and each authorization code.  A request is a         *)
(* coroutine: one action per database statement or call to Discord, and any    *)
(* other request, on this worker or another, may run in between.               *)
EXTENDS Naturals, FiniteSets, ServiceClients

CONSTANTS
  Clients,       \* the ids registrations draw (bound)
  Uris,          \* redirect URIs, [parses, scheme, host]
  AllowedHosts,  \* MCP_REDIRECT_URI_HOSTS
  Rows,          \* what the table of clients may be at the start (bound)
  Edits,         \* the redirect URIs the staff may give a client (bound)
  Browsers,      \* browsers people sign in with
  Users,         \* Discord accounts
  AccountOf,     \* the Discord account a browser is signed in with
  Resources,     \* the resources a client may ask for
  SignIns,       \* the nonces /authorize may draw (bound on sign-ins)
  Codes,         \* the nonces issue_code may draw (bound on codes)
  Refreshes,     \* the nonces of refresh tokens (bound on token pairs)
  Requests,      \* the requests being served at a time
  PendingLife, CodeLife, RefreshLife,    \* LIFETIMES, in ticks of the clock
  MaxTime,       \* the last tick (bound)
  MaxRemoved,    \* clients the staff delete (bound)
  MaxFaults,     \* requests that die (bound)
  Nobody, Nothing

ASSUME OAuthAssumption ==
  /\ AccountOf \in [Browsers -> Users]
  /\ Rows \subseteq [Clients -> SUBSET Uris]
  /\ Edits \subseteq (SUBSET Uris) \ {{}}
  /\ Nobody \notin Browsers \cup Users
  /\ Nothing \notin Clients \cup SignIns \cup Codes \cup Refreshes
  /\ {PendingLife, CodeLife, RefreshLife, MaxTime, MaxRemoved, MaxFaults} \subseteq Nat
  /\ SignIns \cap Codes = {} /\ SignIns \cap Refreshes = {} /\ Codes \cap Refreshes = {}

VARIABLES
  now,                     \* the clock
  account,                 \* User rows: absent, active or inactive
  redirects, removed,      \* OAuthClient rows: a client's redirect URIs, or {} if it
                           \* has no row; the clients whose row the staff deleted
  pending, code, refresh,  \* the signed credentials: their claims
  access,                  \* the claims of the access tokens signed
  nonce,                   \* OAuthNonce rows, by the nonce they digest
  jar,                     \* browsers' cookies: the sign-ins they hold
  given,                   \* the codes redirected to their clients, and where to
  req,                     \* each request: where it stands, the credential it
                           \* handles, its browser and the account found
  faults,
  spent, lost              \* history: the time a nonce was consumed, and the time its
                           \* UPDATE asked with; the credentials whose request died

credentials == <<pending, code, refresh, access>>
world == <<now, account, redirects, removed, faults, lost>>   \* not for a request to change
vars == <<world, credentials, nonce, spent, jar, given, req>>
-----------------------------------------------------------------------------
Nonces == SignIns \cup Codes
Credentials == Nonces \cup Refreshes

Unsigned == [client |-> Nothing]

\* Claims of a signed credential; "of" is the credential it was made from.
PendingClaims == [client : Clients, redirect : Uris, resource : Resources, by : Browsers,
                  iat : Nat, exp : Nat]
GrantClaims == [client : Clients, resource : Resources, subject : Users, of : Nonces,
                iat : Nat, exp : Nat]
AccessClaims == [client : Clients, resource : Resources, subject : Users, of : Refreshes]

Signed(claims) == claims # Unsigned

\* tokens.load accepts a credential until its expiry.
Fresh(claims) == Signed(claims) /\ now < claims.exp

\* What a request handles at /token.
Claims(x) == IF x \in Codes THEN code[x] ELSE refresh[x]

\* "at" is the time a request has read for its UPDATE, which comes an await later.
Idle == [pc |-> "idle", about |-> Nothing, browser |-> Nobody, subject |-> Nobody, at |-> 0]

Begin(r, to, what, who, at) ==
  /\ req[r].pc = "idle"
  /\ req' = [req EXCEPT ![r] = [pc |-> to, about |-> what, browser |-> who,
                               subject |-> Nobody, at |-> at]]

Goto(r, from, to) == req[r].pc = from /\ req' = [req EXCEPT ![r].pc = to]

\* It goes on with a new credential, or with the account found.
Learn(r, from, to, what, whom) ==
  /\ req[r].pc = from
  /\ req' = [req EXCEPT ![r] = [pc |-> to, about |-> what, browser |-> req[r].browser,
                               subject |-> whom, at |-> 0]]

\* The response is sent: the request and its locals are gone.
Answer(r, from) == req[r].pc = from /\ req' = [req EXCEPT ![r] = Idle]

\* Faulty: consume without consumed=False in its WHERE clause.
ConsumableTwice(n, exp, at) == nonce[n] # "absent" /\ at < exp

\* Faulty: consume without expires_at__gt in its WHERE clause.
ConsumableLate(n, exp, at) == nonce[n] = "fresh"

\* OAuthNonceManager.consume: one UPDATE whose WHERE clause is this guard.  The
\* time in it was read when the statement was built, before the await that runs it.
Consumable(n, exp, at) == nonce[n] = "fresh" /\ at < exp
Consume(n, at) == /\ nonce' = [nonce EXCEPT ![n] = "consumed"]
                  /\ spent' = [spent EXCEPT ![n] = [asked |-> at, done |-> now]]
-----------------------------------------------------------------------------
\* Rows of clients may be older than today's list of hosts.
Init ==
  /\ now = 0
  /\ account \in [Users -> {"absent", "active"}]
  /\ redirects \in Rows /\ removed = {}
  /\ pending = [s \in SignIns |-> Unsigned]
  /\ code = [k \in Codes |-> Unsigned]
  /\ refresh = [t \in Refreshes |-> Unsigned]
  /\ access = {}
  /\ nonce = [n \in Nonces |-> "absent"]
  /\ jar = [b \in Browsers |-> {}]
  /\ given = {}
  /\ req = [r \in Requests |-> Idle]
  /\ faults = 0
  /\ spent = [n \in Nonces |-> [asked |-> 0, done |-> 0]]
  /\ lost = {}

(* The clients *)

Loopback == {"localhost", "127.0.0.1", "::1"}

RedirectAllowed(uri) ==
  uri.parses /\ uri.host \in AllowedHosts /\ (uri.scheme = "https" \/ uri.host \in Loopback)

\* POST /register, in one INSERT; a request that does not fit changes nothing.
Register(c, uris) ==
  /\ redirects[c] = {} /\ c \notin removed
  /\ uris # {} /\ \A uri \in uris : RedirectAllowed(uri)
  /\ redirects' = [redirects EXCEPT ![c] = uris]
  /\ UNCHANGED <<now, account, removed, faults, lost, credentials, nonce, spent, jar, given, req>>

\* The staff change or delete a client in the admin, which has no policy.
Edit(c, uris) ==
  /\ redirects[c] # {}
  /\ redirects' = [redirects EXCEPT ![c] = uris]
  /\ UNCHANGED <<now, account, removed, faults, lost, credentials, nonce, spent, jar, given, req>>

Remove(c) ==
  /\ redirects[c] # {} /\ Cardinality(removed) < MaxRemoved
  /\ redirects' = [redirects EXCEPT ![c] = {}]
  /\ removed' = removed \cup {c}
  /\ UNCHANGED <<now, account, faults, lost, credentials, nonce, spent, jar, given, req>>

\* Faulty: the cache of clients outlives the request.
HadRow(c) == redirects[c] # {} \/ c \in removed

\* OAuthProvider.get_client, whose cache is the request's own.
HasRow(c) == redirects[c] # {}

(* GET /authorize *)

\* The client, its redirect URI and the PKCE challenge are valid: the context is
\* signed and its nonce becomes Discord's state.
Authorize(r, b, c, uri, res, s) ==
  /\ HasRow(c) /\ uri \in redirects[c] /\ RedirectAllowed(uri)
  /\ pending[s] = Unsigned
  /\ Begin(r, "record_state", s, b, 0)
  /\ pending' = [pending EXCEPT ![s] = [client |-> c, redirect |-> uri, resource |-> res, by |-> b,
                                        iat |-> now, exp |-> now + PendingLife]]
  /\ UNCHANGED <<code, refresh, access, nonce, spent, jar, given>>

RecordState(r) ==
  /\ Goto(r, "record_state", "set_cookie")
  /\ nonce' = [nonce EXCEPT ![req[r].about] = "fresh"]
  /\ UNCHANGED <<credentials, spent, jar, given>>

SetCookie(r) ==
  /\ Answer(r, "set_cookie")
  /\ jar' = [jar EXCEPT ![req[r].browser] = @ \cup {req[r].about}]
  /\ UNCHANGED <<credentials, nonce, spent, given>>

(* GET /oauth/discord/callback.  Every answer deletes the cookie of its state. *)

Refuse(r, from) ==
  /\ Answer(r, from)
  /\ jar' = [jar EXCEPT ![req[r].browser] = @ \ {req[r].about}]

\* Faulty: the callback does without the cookie.
AnyState(b) == SignIns

\* The states whose cookie a browser can come back with.
Held(b) == jar[b]

\* The cookie is loaded and the time for the UPDATE read in one go.
Callback(r, b, s) ==
  /\ s \in Held(b)
  /\ \/ /\ Fresh(pending[s])
        /\ Begin(r, "consume_state", s, b, now)
        /\ UNCHANGED jar
     \/ /\ ~ Fresh(pending[s])
        /\ req[r].pc = "idle"
        /\ jar' = [jar EXCEPT ![b] = @ \ {s}]
        /\ UNCHANGED req
  /\ UNCHANGED <<credentials, nonce, spent, given>>

ConsumeState(r) ==
  LET s == req[r].about IN
  /\ req[r].pc = "consume_state"
  /\ \/ /\ Consumable(s, pending[s].exp, req[r].at)
        /\ Goto(r, "consume_state", "identify")
        /\ Consume(s, req[r].at)
        /\ UNCHANGED jar
     \/ /\ ~ Consumable(s, pending[s].exp, req[r].at)
        /\ Refuse(r, "consume_state")
        /\ UNCHANGED <<nonce, spent>>
  /\ UNCHANGED <<credentials, given>>

\* Faulty: keeps the browser where the account belongs.
BrowserItself(b) == b

\* The account Discord names in its second answer.
DiscordAccount(b) == AccountOf[b]

\* The sign-in may have been cancelled at Discord; else Discord is asked.
Answers == {~ cancelled /\ Identified(token, user) : cancelled \in BOOLEAN, token, user \in Replies}

\* The state has been spent either way.
Identify(r, identified) ==
  /\ \/ /\ identified
        /\ Learn(r, "identify", "lookup", req[r].about, DiscordAccount(req[r].browser))
        /\ UNCHANGED jar
     \/ /\ ~ identified
        /\ Refuse(r, "identify")
  /\ UNCHANGED <<credentials, nonce, spent, given>>

\* Only an active user gets a code; issue_code copies the claims of the context.
Lookup(r, k) ==
  LET s == req[r].about
      user == req[r].subject
  IN
  /\ req[r].pc = "lookup"
  /\ \/ /\ account[user] = "active" /\ code[k] = Unsigned
        /\ Learn(r, "lookup", "record_code", k, user)
        /\ code' = [code EXCEPT ![k] =
                      [client |-> pending[s].client, resource |-> pending[s].resource,
                       subject |-> user, of |-> s, iat |-> now, exp |-> now + CodeLife]]
        /\ UNCHANGED jar
     \/ /\ account[user] # "active"
        /\ Refuse(r, "lookup")
        /\ UNCHANGED code
  /\ UNCHANGED <<pending, refresh, access, nonce, spent, given>>

\* Faulty: the code is handed out without its row.
NoRow(k) == nonce

CodeRow(k) == [nonce EXCEPT ![k] = "fresh"]

RecordCode(r) ==
  /\ Goto(r, "record_code", "redirect")
  /\ nonce' = CodeRow(req[r].about)
  /\ UNCHANGED <<credentials, spent, jar, given>>

\* The redirect hands the code to its client.
Redirect(r) ==
  LET k == req[r].about
      s == code[k].of
  IN
  /\ Answer(r, "redirect")
  /\ given' = given \cup {<<k, pending[s].redirect>>}
  /\ jar' = [jar EXCEPT ![req[r].browser] = @ \ {s}]
  /\ UNCHANGED <<credentials, nonce, spent>>

(* POST /token *)

\* A code or a refresh token comes with what its client proves itself by.  A
\* request that proves nothing, or does not fit the credential (redirect URI,
\* resource, verifier, scopes), is refused like one of a client without a row.
Exchange(r, x) ==
  /\ x \in Refreshes \/ \E uri \in Uris : <<x, uri>> \in given
  /\ Signed(Claims(x))
  /\ Begin(r, "authenticate", x, Nobody, 0)
  /\ UNCHANGED <<credentials, nonce, spent, jar, given>>

\* HashedClientAuthenticator asks for the row; the credential is loaded after that,
\* twice in one go: by the load_ of its kind and by the exchange.
Authenticate(r, proven) ==
  LET claims == Claims(req[r].about)
      ok == proven /\ HasRow(claims.client) /\ Fresh(claims)
  IN
  /\ req[r].pc = "authenticate"
  /\ \/ ok /\ Goto(r, "authenticate", "require_user")
     \/ ~ ok /\ Answer(r, "authenticate")
  /\ UNCHANGED <<credentials, nonce, spent, jar, given>>

RequireUser(r) ==
  LET x == req[r].about
      ok == account[Claims(x).subject] = "active"
  IN
  /\ req[r].pc = "require_user"
  /\ \/ ok /\ Goto(r, "require_user", IF x \in Codes THEN "user_found" ELSE "reissue")
     \/ ~ ok /\ Answer(r, "require_user")
  /\ UNCHANGED <<credentials, nonce, spent, jar, given>>

\* With the user found, consume reads the clock and builds its UPDATE.
BuildUpdate(r) ==
  /\ req[r].pc = "user_found"
  /\ req' = [req EXCEPT ![r] = [@ EXCEPT !.pc = "consume_code", !.at = now]]
  /\ UNCHANGED <<credentials, nonce, spent, jar, given>>

\* Faulty: asks for the user once more after the code is spent.
IssueIfActive(k) == IF account[code[k].subject] = "active" THEN "issue_tokens" ELSE "idle"

OnceSpent(k) == "issue_tokens"

ConsumeCode(r) ==
  LET k == req[r].about IN
  /\ req[r].pc = "consume_code"
  /\ \/ /\ Consumable(k, code[k].exp, req[r].at)
        /\ Goto(r, "consume_code", OnceSpent(k))
        /\ Consume(k, req[r].at)
     \/ /\ ~ Consumable(k, code[k].exp, req[r].at)
        /\ Answer(r, "consume_code")
        /\ UNCHANGED <<nonce, spent>>
  /\ UNCHANGED <<credentials, jar, given>>

\* The access token that goes with refresh token t.
AccessFor(t, claims) ==
  [client |-> claims.client, resource |-> claims.resource, subject |-> claims.subject, of |-> t]

IssueTokens(r, t) ==
  LET k == req[r].about
      claims == [client |-> code[k].client, resource |-> code[k].resource,
                 subject |-> code[k].subject, of |-> k,
                 iat |-> now, exp |-> now + RefreshLife]
  IN
  /\ Answer(r, "issue_tokens")
  /\ refresh[t] = Unsigned
  /\ refresh' = [refresh EXCEPT ![t] = claims]
  /\ access' = access \cup {AccessFor(t, claims)}
  /\ UNCHANGED <<pending, code, nonce, spent, jar, given>>

\* A new access token; the refresh token is handed back as it is.
Reissue(r) ==
  LET t == req[r].about IN
  /\ Answer(r, "reissue")
  /\ access' = access \cup {AccessFor(t, refresh[t])}
  /\ UNCHANGED <<pending, code, refresh, nonce, spent, jar, given>>
-----------------------------------------------------------------------------
\* A worker dies or a response is lost.
Die(r) ==
  /\ req[r].pc # "idle" /\ faults < MaxFaults
  /\ faults' = faults + 1
  /\ lost' = lost \cup {req[r].about}
  /\ Answer(r, req[r].pc)
  /\ UNCHANGED <<now, account, redirects, removed, credentials, nonce, spent, jar, given>>

Tick ==
  /\ now < MaxTime
  /\ now' = now + 1
  /\ UNCHANGED <<account, redirects, removed, faults, lost, credentials, nonce, spent, jar, given, req>>

\* The bot creates the user at their first command; the staff (de)activates them.
SetAccount(u, to) ==
  /\ <<account[u], to>> \in {<<"absent", "active">>, <<"active", "inactive">>,
                             <<"inactive", "active">>}
  /\ account' = [account EXCEPT ![u] = to]
  /\ UNCHANGED <<now, redirects, removed, faults, lost, credentials, nonce, spent, jar, given, req>>

Arrive(r) ==
  \/ \E b \in Browsers, s \in SignIns :
       \/ \E c \in Clients, uri \in Uris, res \in Resources : Authorize(r, b, c, uri, res, s)
       \/ Callback(r, b, s)
  \/ \E x \in Codes \cup Refreshes : Exchange(r, x)

Serve(r) ==
  \/ RecordState(r) \/ SetCookie(r) \/ ConsumeState(r)
  \/ \E identified \in Answers : Identify(r, identified)
  \/ \E k \in Codes : Lookup(r, k)
  \/ RecordCode(r) \/ Redirect(r)
  \/ \E proven \in BOOLEAN : Authenticate(r, proven)
  \/ RequireUser(r) \/ BuildUpdate(r) \/ ConsumeCode(r)
  \/ (\E t \in Refreshes : IssueTokens(r, t)) \/ Reissue(r)

Next ==
  \/ \E r \in Requests : (Arrive(r) \/ Serve(r)) /\ UNCHANGED world
  \/ \E r \in Requests : Die(r)
  \/ Tick
  \/ \E c \in Clients :
       \/ Remove(c)
       \/ \E uris \in SUBSET Uris : Register(c, uris)
       \/ \E uris \in Edits : Edit(c, uris)
  \/ \E u \in Users, to \in {"active", "inactive"} : SetAccount(u, to)

Spec == Init /\ [][Next]_vars
-----------------------------------------------------------------------------
PCs == {"idle", "record_state", "set_cookie", "consume_state", "identify", "lookup",
        "record_code", "redirect", "authenticate", "require_user", "user_found",
        "consume_code", "issue_tokens", "reissue"}

RequestStates == [pc : PCs, about : Credentials \cup {Nothing},
                  browser : Browsers \cup {Nobody}, subject : Users \cup {Nobody}, at : Nat]

TypeOK ==
  /\ now \in Nat /\ faults \in Nat
  /\ account \in [Users -> {"absent", "active", "inactive"}]
  /\ redirects \in [Clients -> SUBSET Uris] /\ removed \subseteq Clients
  /\ pending \in [SignIns -> PendingClaims \cup {Unsigned}]
  /\ code \in [Codes -> GrantClaims \cup {Unsigned}]
  /\ refresh \in [Refreshes -> GrantClaims \cup {Unsigned}]
  /\ access \subseteq AccessClaims
  /\ nonce \in [Nonces -> {"absent", "fresh", "consumed"}]
  /\ jar \in [Browsers -> SUBSET SignIns]
  /\ given \subseteq Codes \X Uris
  /\ req \in [Requests -> RequestStates]
  /\ spent \in [Nonces -> [asked : Nat, done : Nat]]
  /\ lost \subseteq Credentials

CodesOf(s) == {k \in Codes : Signed(code[k]) /\ code[k].of = s}
PairsOf(k) == {t \in Refreshes : Signed(refresh[t]) /\ refresh[t].of = k}

\* However often and on however many workers the callback of a state and the
\* exchange of a code are repeated, a state yields one code and a code one pair
\* of tokens, and only after the nonce of each was spent.
SingleUse ==
  /\ \A k, l \in Codes : Signed(code[k]) /\ Signed(code[l]) /\ code[k].of = code[l].of => k = l
  /\ \A t, u \in Refreshes :
       Signed(refresh[t]) /\ Signed(refresh[u]) /\ refresh[t].of = refresh[u].of => t = u
  /\ \A k \in Codes : Signed(code[k]) => nonce[code[k].of] = "consumed"
  /\ \A t \in Refreshes : Signed(refresh[t]) => nonce[refresh[t].of] = "consumed"

\* A token speaks for the person who signed in, to the client and for the resource
\* that sign-in was begun for, through the three copies of the claims it is made by,
\* and its code went to the redirect URI of that sign-in, which is one allowed.
Provenance ==
  /\ \A t \in Refreshes : Signed(refresh[t]) =>
       LET k == refresh[t].of
           s == code[k].of
       IN  /\ k \in Codes /\ Signed(code[k]) /\ s \in SignIns /\ Signed(pending[s])
           /\ refresh[t].client = pending[s].client
           /\ refresh[t].resource = pending[s].resource
           /\ refresh[t].subject = AccountOf[pending[s].by]
           /\ RedirectAllowed(pending[s].redirect)
           /\ \A g \in given : g[1] = k => g[2] = pending[s].redirect
  /\ \A a \in access : /\ Signed(refresh[a.of])
                       /\ a = AccessFor(a.of, refresh[a.of])

\* A nonce is spent only by a request that asked within the lifetime of its
\* credential, though the credential was loaded some awaits before that; the UPDATE
\* may come later than that lifetime.  What a nonce was spent for is dated after it.
Chronology ==
  /\ \A k \in Codes : Signed(code[k]) =>
       LET s == code[k].of
       IN  /\ pending[s].iat <= spent[s].asked /\ spent[s].asked < pending[s].exp
           /\ spent[s].asked <= spent[s].done /\ spent[s].done <= code[k].iat
           /\ nonce[k] = "consumed" =>
                /\ code[k].iat <= spent[k].asked /\ spent[k].asked < code[k].exp
                /\ spent[k].asked <= spent[k].done
  /\ \A t \in Refreshes : Signed(refresh[t]) => spent[refresh[t].of].done <= refresh[t].iat

\* A code is spent last of all: once it is, its tokens are issued or about to be,
\* unless the request died.  A refused exchange leaves the code as it was.
CodeNotWasted ==
  \A k \in Codes : nonce[k] = "consumed" =>
    \/ PairsOf(k) # {}
    \/ \E r \in Requests : req[r].pc = "issue_tokens" /\ req[r].about = k
    \/ k \in lost

\* A client never holds a code the server does not know: the row is written before
\* the redirect.  While the code is unspent its browser has no use for its cookie.
GivenIsRecorded ==
  \A g \in given : nonce[g[1]] # "absent" /\ nonce[code[g[1]].of] = "consumed"

\* Deleting a client ends it: when no request of its own is past its authentication
\* it gets no token any more, though its codes and refresh tokens are still fresh,
\* and it never comes back.
Ended(c) ==
  /\ c \in removed
  /\ \A r \in Requests : req[r].pc \in {"require_user", "user_found", "consume_code", "issue_tokens", "reissue"}
                        => Claims(req[r].about).client # c

TokensOf(c) == {t \in Refreshes : refresh[t].client = c} \cup {a \in access : a.client = c}

RemovedForGood == [][\A c \in Clients : Ended(c) => Ended(c)' /\ TokensOf(c)' = TokensOf(c)]_vars

Count(S) == Cardinality(S)

\* How often each sign-in has been through each stage.
Times == [s \in SignIns |->
            << Count({x \in {s} : Signed(pending[x])}),
               Count({x \in {s} : nonce[x] = "consumed"}),
               Count(CodesOf(s)),
               Count({k \in CodesOf(s) : nonce[k] = "consumed"}),
               Count(UNION {PairsOf(k) : k \in CodesOf(s)}) >>]

Grant == INSTANCE OneTimeGrant WITH times <- Times

\* Every sign-in keeps to the stages of a one-time grant.
KeepsGrant == Grant!Spec
=============================================================================
