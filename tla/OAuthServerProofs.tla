------------------------- MODULE OAuthServerProofs -------------------------
(* Proofs about OAuthServer, for any clients, people, browsers, resources,     *)
(* credentials, lifetimes and number of requests that OAuthAssumption allows.  *)
EXTENDS OAuthServer, FiniteSetTheorems, TLAPS

(* The inductive invariant, in named parts. *)

SigningIn == {"record_state", "set_cookie", "consume_state", "identify", "lookup"}
Handing == {"record_code", "redirect"}
AtToken == {"authenticate", "require_user", "user_found", "consume_code", "issue_tokens", "reissue"}

\* A request handles a credential that was signed, and the browser of a sign-in is
\* the one that began it.
HandlesSigned(r) ==
  /\ req[r].pc \in SigningIn =>
       /\ req[r].about \in SignIns /\ Signed(pending[req[r].about])
       /\ req[r].browser = pending[req[r].about].by
  /\ req[r].pc = "lookup" => req[r].subject = AccountOf[req[r].browser]
  /\ req[r].pc \in Handing =>
       /\ req[r].about \in Codes /\ Signed(code[req[r].about])
       /\ req[r].browser \in Browsers
  /\ req[r].pc \in AtToken =>
       req[r].about \in Codes \cup Refreshes /\ Signed(Claims(req[r].about))
  /\ req[r].pc \in {"user_found", "consume_code", "issue_tokens"} => req[r].about \in Codes
  /\ req[r].pc = "reissue" => req[r].about \in Refreshes

RequestsHandleSigned == \A r \in Requests : HandlesSigned(r)

\* Every credential descends from the one it names, whose claims it bears and whose
\* nonce is spent.
CodesDescend ==
  \A k \in Codes : Signed(code[k]) =>
    LET s == code[k].of IN
    /\ s \in SignIns /\ Signed(pending[s]) /\ nonce[s] = "consumed"
    /\ code[k].client = pending[s].client /\ code[k].resource = pending[s].resource
    /\ code[k].subject = AccountOf[pending[s].by]

TokensDescend ==
  \A t \in Refreshes : Signed(refresh[t]) =>
    LET k == refresh[t].of IN
    /\ k \in Codes /\ Signed(code[k]) /\ nonce[k] = "consumed"
    /\ refresh[t].client = code[k].client /\ refresh[t].resource = code[k].resource
    /\ refresh[t].subject = code[k].subject

AccessDescends ==
  \A a \in access : Signed(refresh[a.of]) /\ a = AccessFor(a.of, refresh[a.of])

SentWhereAllowed ==
  /\ \A s \in SignIns : Signed(pending[s]) => RedirectAllowed(pending[s].redirect)
  /\ \A g \in given : Signed(code[g[1]]) /\ g[2] = pending[code[g[1]].of].redirect

\* A nonce has its row before anybody is told of it, and none before its credential.
RowsComeFirst ==
  /\ \A s \in SignIns : ~ Signed(pending[s]) => nonce[s] = "absent"
  /\ \A k \in Codes : ~ Signed(code[k]) => nonce[k] = "absent"
  /\ \A b \in Browsers : \A s \in jar[b] :
       Signed(pending[s]) /\ pending[s].by = b /\ nonce[s] # "absent"
  /\ \A g \in given : nonce[g[1]] # "absent"
  /\ \A r \in Requests :
       /\ req[r].pc \in {"record_state", "record_code"} => nonce[req[r].about] = "absent"
       /\ req[r].pc \in {"set_cookie", "consume_state", "redirect"} => nonce[req[r].about] # "absent"
       /\ req[r].pc \in AtToken /\ req[r].about \in Codes => nonce[req[r].about] # "absent"

\* One request at a time is past the nonce of a credential and still to issue the
\* next one, and none when that is there.
OneSpends ==
  /\ \A r \in Requests :
       /\ req[r].pc \in {"identify", "lookup"} =>
            nonce[req[r].about] = "consumed" /\ \A k \in Codes : Signed(code[k]) => code[k].of # req[r].about
       /\ req[r].pc = "issue_tokens" =>
            nonce[req[r].about] = "consumed"
            /\ \A t \in Refreshes : Signed(refresh[t]) => refresh[t].of # req[r].about
  /\ \A q, r \in Requests :
       req[q].about = req[r].about /\ q # r =>
         /\ ~ (req[q].pc \in {"identify", "lookup"} /\ req[r].pc \in {"identify", "lookup"})
         /\ ~ (req[q].pc = "issue_tokens" /\ req[r].pc = "issue_tokens")
         /\ ~ (req[q].pc = "record_state" /\ req[r].pc = "record_state")
         /\ ~ (req[q].pc = "record_code" /\ req[r].pc = "record_code")
  /\ \A k, l \in Codes : Signed(code[k]) /\ Signed(code[l]) /\ code[k].of = code[l].of => k = l
  /\ \A t, u \in Refreshes :
       Signed(refresh[t]) /\ Signed(refresh[u]) /\ refresh[t].of = refresh[u].of => t = u

\* The time a request has read for its UPDATE is not before its credential.
AsksAfter ==
  \A r \in Requests :
    /\ req[r].pc = "consume_state" => pending[req[r].about].iat <= req[r].at /\ req[r].at <= now
    /\ req[r].pc = "consume_code" => code[req[r].about].iat <= req[r].at /\ req[r].at <= now

\* A nonce was asked for within the lifetime of its credential, and then spent.
SpentInTime(n, claims) ==
  claims.iat <= spent[n].asked /\ spent[n].asked < claims.exp /\ spent[n].asked <= spent[n].done

\* Nothing is dated in the future.
DatesAgree ==
  /\ \A s \in SignIns : Signed(pending[s]) => pending[s].iat <= now
  /\ \A k \in Codes : Signed(code[k]) => code[k].iat <= now
  /\ \A n \in Nonces : spent[n].done <= now
  /\ \A s \in SignIns : nonce[s] = "consumed" => SpentInTime(s, pending[s])
  /\ \A k \in Codes : nonce[k] = "consumed" => SpentInTime(k, code[k])
  /\ \A k \in Codes : Signed(code[k]) => spent[code[k].of].done <= code[k].iat
  /\ \A t \in Refreshes : Signed(refresh[t]) => spent[refresh[t].of].done <= refresh[t].iat

RemovedAreGone == \A c \in removed : redirects[c] = {}

IInv == /\ TypeOK /\ RequestsHandleSigned
        /\ CodesDescend /\ TokensDescend /\ AccessDescends /\ SentWhereAllowed
        /\ RowsComeFirst /\ OneSpends /\ AsksAfter /\ DatesAgree /\ CodeNotWasted
        /\ RemovedAreGone
-----------------------------------------------------------------------------
\* What is not signed has no claims.
LEMMA UnsignedIsNone ==
  /\ \A claims \in PendingClaims : claims # Unsigned
  /\ \A claims \in GrantClaims : claims # Unsigned
  BY OAuthAssumption DEF PendingClaims, GrantClaims, Unsigned

\* The types hold at first.
LEMMA TypeInit == Init => TypeOK
  BY OAuthAssumption DEF Init, TypeOK, Idle, RequestStates, PCs, Unsigned

\* The ways a request moves on.
LEMMA BeginType ==
  ASSUME TypeOK, NEW r \in Requests, NEW to \in PCs, NEW what \in Credentials,
         NEW who \in Browsers \cup {Nobody}, NEW at \in Nat, Begin(r, to, what, who, at)
  PROVE  req' \in [Requests -> RequestStates]
  BY DEF Begin, TypeOK, RequestStates

LEMMA GotoType ==
  ASSUME TypeOK, NEW r \in Requests, NEW from, NEW to \in PCs, Goto(r, from, to)
  PROVE  req' \in [Requests -> RequestStates]
  BY DEF Goto, TypeOK, RequestStates

LEMMA AnswerType ==
  ASSUME TypeOK, NEW r \in Requests, NEW from, Answer(r, from)
  PROVE  req' \in [Requests -> RequestStates]
  BY DEF Answer, Idle, TypeOK, RequestStates, PCs

LEMMA AdvanceType ==
  ASSUME TypeOK, NEW r \in Requests, NEW state \in RequestStates, req' = [req EXCEPT ![r] = state]
  PROVE  req' \in [Requests -> RequestStates]
  BY DEF TypeOK

LEMMA BuildType ==
  ASSUME TypeOK, NEW r \in Requests, BuildUpdate(r)
  PROVE  /\ req' \in [Requests -> RequestStates] /\ req[r].pc = "user_found"
         /\ req'[r].pc = "consume_code" /\ req'[r].about = req[r].about /\ req'[r].at = now
  <1> DEFINE state == [req[r] EXCEPT !.pc = "consume_code", !.at = now]
  <1>1. req[r] \in RequestStates /\ now \in Nat
    BY DEF TypeOK
  <1>2. state \in RequestStates /\ state.pc = "consume_code" /\ state.about = req[r].about /\ state.at = now
    BY <1>1 DEF RequestStates, PCs
  <1>3. req[r].pc = "user_found" /\ req' = [req EXCEPT ![r] = state]
    BY DEF BuildUpdate
  <1> HIDE DEF state
  <1> QED
    BY <1>2, <1>3, AdvanceType DEF TypeOK

\* What the steps that learn something do.
LEMMA IdentifyEffect ==
  ASSUME TypeOK, RequestsHandleSigned, NEW r \in Requests, NEW identified,
         Identify(r, identified), ~ Refuse(r, "identify")
  PROVE  /\ req[r].pc = "identify" /\ req[r].about \in SignIns /\ req[r].browser \in Browsers
         /\ req' \in [Requests -> RequestStates] /\ UNCHANGED jar
         /\ req'[r].pc = "lookup" /\ req'[r].subject = AccountOf[req[r].browser]
         /\ req'[r].about = req[r].about /\ req'[r].browser = req[r].browser
  <1> DEFINE whom == AccountOf[req[r].browser]
             state == [pc |-> "lookup", about |-> req[r].about, browser |-> req[r].browser,
                       subject |-> whom, at |-> 0]
  <1>1. req[r].pc = "identify" /\ req' = [req EXCEPT ![r] = state] /\ UNCHANGED jar
    BY DEF Identify, Learn, DiscordAccount
  <1>2. req[r].about \in SignIns /\ req[r].browser \in Browsers
    BY <1>1 DEF RequestsHandleSigned, HandlesSigned, SigningIn, TypeOK, PendingClaims, Signed
  <1>3. state \in RequestStates
    BY <1>2, OAuthAssumption DEF RequestStates, PCs, Credentials, Nonces
  <1>4. state.pc = "lookup" /\ state.subject = whom
        /\ state.about = req[r].about /\ state.browser = req[r].browser
    OBVIOUS
  <1> HIDE DEF state
  <1> QED
    BY <1>1, <1>2, <1>3, <1>4, AdvanceType DEF TypeOK

LEMMA LookupEffect ==
  ASSUME TypeOK, RequestsHandleSigned, NEW r \in Requests, NEW k \in Codes,
         Lookup(r, k), ~ (Refuse(r, "lookup") /\ UNCHANGED code)
  PROVE  /\ req[r].pc = "lookup" /\ req[r].about \in SignIns /\ pending[req[r].about] \in PendingClaims
         /\ req[r].browser \in Browsers /\ req[r].subject \in Users
         /\ req' \in [Requests -> RequestStates] /\ UNCHANGED jar
         /\ req'[r].pc = "record_code" /\ req'[r].about = k /\ req'[r].browser = req[r].browser
         /\ code[k] = Unsigned /\ Signed(code'[k])
         /\ code' = [code EXCEPT ![k] =
                       [client |-> pending[req[r].about].client,
                        resource |-> pending[req[r].about].resource,
                        subject |-> req[r].subject, of |-> req[r].about,
                        iat |-> now, exp |-> now + CodeLife]]
  <1> DEFINE state == [pc |-> "record_code", about |-> k, browser |-> req[r].browser,
                       subject |-> req[r].subject, at |-> 0]
  <1>1. /\ req[r].pc = "lookup" /\ req' = [req EXCEPT ![r] = state] /\ UNCHANGED jar
        /\ code[k] = Unsigned
    BY DEF Lookup, Learn
  <1>2. req[r].about \in SignIns /\ pending[req[r].about] \in PendingClaims
    BY <1>1 DEF RequestsHandleSigned, HandlesSigned, SigningIn, TypeOK, Signed
  <1>3. req[r].browser \in Browsers /\ req[r].subject \in Users
    BY <1>1, <1>2, OAuthAssumption DEF RequestsHandleSigned, HandlesSigned, SigningIn,
       PendingClaims
  <1>4. state \in RequestStates
    BY <1>3 DEF RequestStates, PCs, Credentials, Nonces
  <1>5. state.pc = "record_code" /\ state.about = k /\ state.browser = req[r].browser
    OBVIOUS
  <1>6. /\ req' \in [Requests -> RequestStates] /\ req'[r].pc = "record_code"
        /\ req'[r].about = k /\ req'[r].browser = req[r].browser
    <2> HIDE DEF state
    <2> QED
      BY <1>1, <1>4, <1>5, AdvanceType DEF TypeOK
  <1> DEFINE claims == [client |-> pending[req[r].about].client,
                        resource |-> pending[req[r].about].resource,
                        subject |-> req[r].subject, of |-> req[r].about,
                        iat |-> now, exp |-> now + CodeLife]
  <1>7. code' = [code EXCEPT ![k] = claims]
    BY DEF Lookup
  <1>8. claims \in GrantClaims
    BY <1>2, <1>3, OAuthAssumption DEF GrantClaims, PendingClaims, Nonces, TypeOK
  <1>9. Signed(code'[k])
    <2> HIDE DEF claims
    <2> QED
      BY <1>7, <1>8, UnsignedIsNone DEF Signed, TypeOK
  <1> QED
    BY <1>1, <1>2, <1>3, <1>6, <1>7, <1>9

\* Every step keeps the types.
LEMMA TypeStep == TypeOK /\ RequestsHandleSigned /\ CodesDescend /\ [Next]_vars => TypeOK'
<1> SUFFICES ASSUME TypeOK, RequestsHandleSigned, CodesDescend, [Next]_vars PROVE TypeOK'
  OBVIOUS
<1> USE OAuthAssumption DEF credentials, world, PCs
<1> DEFINE Goal == TypeOK'
<1>1. ASSUME NEW r \in Requests, NEW b \in Browsers, NEW c \in Clients, NEW uri \in Uris,
             NEW res \in Resources, NEW s \in SignIns, Authorize(r, b, c, uri, res, s), UNCHANGED world
      PROVE  Goal
  <2>1. req' \in [Requests -> RequestStates]
    BY <1>1, BeginType DEF Authorize, Credentials, Nonces
  <2> QED
    BY <1>1, <2>1 DEF Authorize, PendingClaims, TypeOK
<1>2. ASSUME NEW r \in Requests, NEW b \in Browsers, NEW s \in SignIns, Callback(r, b, s), UNCHANGED world
      PROVE  Goal
  <2>1. req' \in [Requests -> RequestStates]
    BY <1>2, BeginType DEF Callback, Credentials, Nonces, TypeOK
  <2> QED
    BY <1>2, <2>1 DEF Callback, TypeOK
<1>3. ASSUME NEW r \in Requests, NEW x \in Codes \cup Refreshes, Exchange(r, x), UNCHANGED world
      PROVE  Goal
  <2>1. req' \in [Requests -> RequestStates]
    BY <1>3, BeginType DEF Exchange, Credentials, Nonces
  <2> QED
    BY <1>3, <2>1 DEF Exchange, TypeOK
<1>4. ASSUME NEW r \in Requests, Serve(r), UNCHANGED world PROVE Goal
  <2>1. CASE RecordState(r)
    BY <1>4, <2>1, GotoType DEF RecordState, TypeOK
  <2>2. CASE SetCookie(r)
    <3>1. req[r].about \in SignIns
      BY <2>2 DEF SetCookie, Answer, RequestsHandleSigned, HandlesSigned, SigningIn
    <3> QED
      BY <1>4, <2>2, <3>1, AnswerType DEF SetCookie, TypeOK
  <2>3. CASE ConsumeState(r)
    <3>1. req' \in [Requests -> RequestStates]
      BY <2>3, GotoType, AnswerType DEF ConsumeState, Refuse
    <3>2. req[r].at \in Nat
      BY DEF TypeOK, RequestStates
    <3>3. spent' \in [Nonces -> [asked : Nat, done : Nat]] /\ nonce' \in [Nonces -> {"absent", "fresh", "consumed"}]
      BY <2>3, <3>2 DEF ConsumeState, Consume, TypeOK
    <3>4. jar' \in [Browsers -> SUBSET SignIns]
      BY <2>3 DEF ConsumeState, Refuse, TypeOK
    <3> QED
      BY <1>4, <2>3, <3>1, <3>3, <3>4 DEF ConsumeState, TypeOK
  <2>4. CASE \E identified \in Answers : Identify(r, identified)
    <3>1. CASE ~ Refuse(r, "identify")
      <4>1. req' \in [Requests -> RequestStates] /\ UNCHANGED jar
        BY <2>4, <3>1, IdentifyEffect
      <4> QED
        BY <1>4, <2>4, <4>1 DEF Identify, TypeOK
    <3>2. CASE Refuse(r, "identify")
      BY <1>4, <2>4, <3>2, AnswerType DEF Identify, Refuse, TypeOK
    <3> QED
      BY <3>1, <3>2
  <2>5. ASSUME NEW k \in Codes, Lookup(r, k) PROVE Goal
    <3>1. CASE Refuse(r, "lookup") /\ UNCHANGED code
      <4>1. req' \in [Requests -> RequestStates] /\ jar' \in [Browsers -> SUBSET SignIns]
        BY <3>1, AnswerType DEF Refuse, TypeOK
      <4> QED
        BY <1>4, <2>5, <3>1, <4>1 DEF Lookup, TypeOK
    <3>2. CASE ~ (Refuse(r, "lookup") /\ UNCHANGED code)
      <4> DEFINE s == req[r].about
                 claims == [client |-> pending[s].client, resource |-> pending[s].resource,
                            subject |-> req[r].subject, of |-> s, iat |-> now, exp |-> now + CodeLife]
      <4>1. /\ s \in SignIns /\ pending[s] \in PendingClaims /\ req[r].subject \in Users
            /\ code' = [code EXCEPT ![k] = claims] /\ UNCHANGED jar
            /\ req' \in [Requests -> RequestStates]
        BY <2>5, <3>2, LookupEffect
      <4>2. claims \in GrantClaims
        BY <4>1 DEF GrantClaims, PendingClaims, Nonces, TypeOK
      <4> HIDE DEF claims
      <4>3. code' \in [Codes -> GrantClaims \cup {Unsigned}]
        BY <4>1, <4>2 DEF TypeOK
      <4> QED
        BY <1>4, <2>5, <4>1, <4>3 DEF Lookup, TypeOK
    <3> QED
      BY <3>1, <3>2
  <2>6. CASE RecordCode(r)
    BY <1>4, <2>6, GotoType DEF RecordCode, CodeRow, TypeOK
  <2>7. CASE Redirect(r)
    <3>1. /\ req[r].about \in Codes /\ code[req[r].about] \in GrantClaims
          /\ code[req[r].about].of \in SignIns /\ pending[code[req[r].about].of] \in PendingClaims
      BY <2>7 DEF Redirect, Answer, RequestsHandleSigned, HandlesSigned, CodesDescend, Handing,
         Signed, TypeOK
    <3>2. pending[code[req[r].about].of].redirect \in Uris
      BY <3>1 DEF PendingClaims
    <3>3. given' \subseteq Codes \X Uris
      BY <2>7, <3>1, <3>2 DEF Redirect, TypeOK
    <3>4. jar' \in [Browsers -> SUBSET SignIns]
      BY <2>7 DEF Redirect, TypeOK
    <3> QED
      BY <1>4, <2>7, <3>3, <3>4, AnswerType DEF Redirect, TypeOK
  <2>8. CASE \E proven \in BOOLEAN : Authenticate(r, proven)
    BY <1>4, <2>8, GotoType, AnswerType DEF Authenticate, TypeOK
  <2>9. CASE RequireUser(r)
    BY <1>4, <2>9, GotoType, AnswerType DEF RequireUser, TypeOK
  <2>10. CASE ConsumeCode(r)
    <3>1. req' \in [Requests -> RequestStates]
      BY <2>10, GotoType, AnswerType DEF ConsumeCode, OnceSpent
    <3>2. req[r].at \in Nat
      BY DEF TypeOK, RequestStates
    <3> QED
      BY <1>4, <2>10, <3>1, <3>2 DEF ConsumeCode, Consume, TypeOK
  <2>13. CASE BuildUpdate(r)
    BY <1>4, <2>13, BuildType DEF BuildUpdate, TypeOK
  <2>11. ASSUME NEW t \in Refreshes, IssueTokens(r, t) PROVE Goal
    <3> DEFINE k == req[r].about
               claims == [client |-> code[k].client, resource |-> code[k].resource,
                          subject |-> code[k].subject, of |-> k,
                          iat |-> now, exp |-> now + RefreshLife]
    <3>1. k \in Codes /\ code[k] \in GrantClaims
      BY <2>11 DEF IssueTokens, Answer, RequestsHandleSigned, HandlesSigned, AtToken, Signed,
         Claims, TypeOK
    <3>2. claims \in GrantClaims /\ AccessFor(t, claims) \in AccessClaims
      BY <3>1 DEF GrantClaims, AccessClaims, AccessFor, Nonces, TypeOK
    <3>3. /\ refresh' = [refresh EXCEPT ![t] = claims]
          /\ access' = access \cup {AccessFor(t, claims)}
      BY <2>11 DEF IssueTokens
    <3> HIDE DEF claims
    <3> QED
      BY <1>4, <2>11, <3>2, <3>3, AnswerType DEF IssueTokens, TypeOK
  <2>12. CASE Reissue(r)
    <3> DEFINE t == req[r].about
    <3>1. t \in Refreshes /\ refresh[t] \in GrantClaims
      BY <2>12 DEF Reissue, Answer, RequestsHandleSigned, HandlesSigned, AtToken, Signed, Claims,
         TypeOK
    <3>2. AccessFor(t, refresh[t]) \in AccessClaims
      BY <3>1 DEF GrantClaims, AccessClaims, AccessFor
    <3> QED
      BY <1>4, <2>12, <3>2, AnswerType DEF Reissue, TypeOK
  <2> QED
    BY <1>4, <2>1, <2>2, <2>3, <2>4, <2>5, <2>6, <2>7, <2>8, <2>9, <2>10, <2>11, <2>12,
       <2>13 DEF Serve
<1>5. ASSUME NEW r \in Requests, Die(r) PROVE Goal
  <2>1. req[r].pc \in SigningIn \cup Handing \cup AtToken
    BY <1>5 DEF Die, TypeOK, RequestStates, SigningIn, Handing, AtToken
  <2>2. req[r].about \in Credentials
    BY <2>1 DEF RequestsHandleSigned, HandlesSigned, Credentials, Nonces
  <2> QED
    BY <1>5, <2>2, AnswerType DEF Die, TypeOK
<1>6. CASE Tick
  BY <1>6 DEF Tick, TypeOK
<1>7. ASSUME NEW c \in Clients, Remove(c) PROVE Goal
  BY <1>7 DEF Remove, TypeOK
<1>8. ASSUME NEW c \in Clients, NEW uris \in SUBSET Uris, Register(c, uris) \/ Edit(c, uris) PROVE Goal
  BY <1>8 DEF Register, Edit, TypeOK
<1>9. ASSUME NEW u \in Users, NEW to \in {"active", "inactive"}, SetAccount(u, to) PROVE Goal
  BY <1>9 DEF SetAccount, TypeOK
<1>10. CASE UNCHANGED vars
  BY <1>10 DEF vars, TypeOK
<1> QED
  BY <1>1, <1>2, <1>3, <1>4, <1>5, <1>6, <1>7, <1>8, <1>9, <1>10 DEF Next, Arrive
-----------------------------------------------------------------------------
(* What changes, and by whom. *)

\* A step is of a request, the end of one, or none of theirs.
LEMMA WhoSteps ==
  [Next]_vars =>
    \/ \E r \in Requests : (Arrive(r) \/ Serve(r)) /\ UNCHANGED world
    \/ \E r \in Requests : /\ Die(r)
                           /\ UNCHANGED <<credentials, nonce, spent, jar, given>>
    \/ UNCHANGED <<credentials, nonce, spent, jar, given, req>>
  BY DEF Next, vars, Die, Tick, Remove, Register, Edit, SetAccount

\* Only /authorize signs a context.
LEMMA PendingChanges ==
  ASSUME [Next]_vars
  PROVE  \/ UNCHANGED pending
         \/ \E r \in Requests, b \in Browsers, c \in Clients, uri \in Uris, res \in Resources, s \in SignIns :
              Authorize(r, b, c, uri, res, s) /\ UNCHANGED world
  <1> DEFINE Goal ==
             \/ UNCHANGED pending
             \/ \E r \in Requests, b \in Browsers, c \in Clients, uri \in Uris, res \in Resources, s \in SignIns :
                  Authorize(r, b, c, uri, res, s) /\ UNCHANGED world
  <1>1. ASSUME NEW r \in Requests, Arrive(r) \/ Serve(r), UNCHANGED world PROVE Goal
    BY <1>1 DEF Arrive, Serve, Callback, Exchange, RecordState, SetCookie, ConsumeState,
           Identify, Lookup, RecordCode, Redirect, Authenticate, RequireUser, BuildUpdate,
           ConsumeCode, IssueTokens, Reissue, credentials
  <1> QED
    BY <1>1, WhoSteps DEF credentials

\* Only the lookup at the end of a callback signs a code.
LEMMA CodeChanges ==
  ASSUME [Next]_vars
  PROVE  \/ UNCHANGED code
         \/ \E r \in Requests, k \in Codes : Lookup(r, k) /\ UNCHANGED world
  <1> DEFINE Goal ==
             \/ UNCHANGED code
             \/ \E r \in Requests, k \in Codes : Lookup(r, k) /\ UNCHANGED world
  <1>1. ASSUME NEW r \in Requests, Arrive(r) \/ Serve(r), UNCHANGED world PROVE Goal
    BY <1>1 DEF Arrive, Serve, Authorize, Callback, Exchange, RecordState, SetCookie,
           ConsumeState, Identify, RecordCode, Redirect, Authenticate, RequireUser,
           BuildUpdate, ConsumeCode, IssueTokens, Reissue, credentials
  <1> QED
    BY <1>1, WhoSteps DEF credentials

\* Only the last step of an exchange signs tokens.
LEMMA TokensChange ==
  ASSUME [Next]_vars
  PROVE  \/ UNCHANGED <<refresh, access>>
         \/ \E r \in Requests, t \in Refreshes : IssueTokens(r, t) /\ UNCHANGED world
         \/ \E r \in Requests : Reissue(r) /\ UNCHANGED world
  <1> DEFINE Goal ==
             \/ UNCHANGED <<refresh, access>>
             \/ \E r \in Requests, t \in Refreshes : IssueTokens(r, t) /\ UNCHANGED world
             \/ \E r \in Requests : Reissue(r) /\ UNCHANGED world
  <1>1. ASSUME NEW r \in Requests, Arrive(r) \/ Serve(r), UNCHANGED world PROVE Goal
    BY <1>1 DEF Arrive, Serve, Authorize, Callback, Exchange, RecordState, SetCookie,
           ConsumeState, Identify, Lookup, RecordCode, Redirect, Authenticate, RequireUser,
           BuildUpdate, ConsumeCode, credentials
  <1> QED
    BY <1>1, WhoSteps DEF credentials

\* Only four statements write the rows of nonces.
LEMMA NonceChanges ==
  ASSUME [Next]_vars
  PROVE  \/ UNCHANGED <<nonce, spent>>
         \/ \E r \in Requests : /\ RecordState(r) \/ ConsumeState(r) \/ RecordCode(r) \/ ConsumeCode(r)
                                /\ UNCHANGED world
  <1> DEFINE Goal ==
             \/ UNCHANGED <<nonce, spent>>
             \/ \E r \in Requests : /\ RecordState(r) \/ ConsumeState(r) \/ RecordCode(r) \/ ConsumeCode(r)
                                    /\ UNCHANGED world
  <1>1. ASSUME NEW r \in Requests, Arrive(r) \/ Serve(r), UNCHANGED world PROVE Goal
    BY <1>1 DEF Arrive, Serve, Authorize, Callback, Exchange, SetCookie, Identify, Lookup,
           Redirect, Authenticate, RequireUser, BuildUpdate, IssueTokens, Reissue, credentials
  <1> QED
    BY <1>1, WhoSteps DEF credentials

\* Only the redirect hands a code out.
LEMMA GivenChanges ==
  ASSUME [Next]_vars
  PROVE  \/ UNCHANGED given
         \/ \E r \in Requests : Redirect(r) /\ UNCHANGED world
  <1> DEFINE Goal ==
             \/ UNCHANGED given
             \/ \E r \in Requests : Redirect(r) /\ UNCHANGED world
  <1>1. ASSUME NEW r \in Requests, Arrive(r) \/ Serve(r), UNCHANGED world PROVE Goal
    BY <1>1 DEF Arrive, Serve, Authorize, Callback, Exchange, RecordState, SetCookie,
           ConsumeState, Identify, Lookup, RecordCode, Authenticate, RequireUser,
           BuildUpdate, ConsumeCode, IssueTokens, Reissue, credentials
  <1> QED
    BY <1>1, WhoSteps DEF credentials

\* Only the answer of /authorize gives a browser a cookie.
LEMMA JarChanges ==
  ASSUME TypeOK, [Next]_vars
  PROVE  \/ UNCHANGED jar
         \/ \E r \in Requests : SetCookie(r) /\ UNCHANGED world
         \/ \A b \in Browsers : jar'[b] \subseteq jar[b]
  <1> DEFINE Goal ==
             \/ UNCHANGED jar
             \/ \E r \in Requests : SetCookie(r) /\ UNCHANGED world
             \/ \A b \in Browsers : jar'[b] \subseteq jar[b]
  <1>1. ASSUME NEW r \in Requests, Arrive(r) \/ Serve(r), UNCHANGED world PROVE Goal
    BY <1>1 DEF Arrive, Serve, Authorize, Callback, Exchange, RecordState, ConsumeState,
           Identify, Lookup, RecordCode, Redirect, Authenticate, RequireUser, BuildUpdate,
           ConsumeCode, IssueTokens, Reissue, credentials, Refuse, TypeOK
  <1> QED
    BY <1>1, WhoSteps DEF credentials

\* Only the clock changes the time, only a death what is lost, only registrations
\* and the staff the clients.
LEMMA WorldChanges ==
  [Next]_vars => \/ now' = now
                 \/ Tick
  BY DEF Next, vars, world, Die, Tick, Remove, Register, Edit, SetAccount

LEMMA LostChanges ==
  [Next]_vars => \/ lost' = lost
                 \/ \E r \in Requests : Die(r)
  BY DEF Next, vars, world, Die, Tick, Remove, Register, Edit, SetAccount

LEMMA ClientsChange ==
  [Next]_vars =>
    \/ UNCHANGED <<redirects, removed>>
    \/ \E c \in Clients : \/ Remove(c)
                          \/ \E uris \in SUBSET Uris : Register(c, uris) \/ Edit(c, uris)
  BY OAuthAssumption DEF Next, vars, world, Die, Tick, Remove, Register, Edit, SetAccount

\* In a step one request moves at most: the step is its own.
LEMMA OneMoves ==
  ASSUME TypeOK, NEW p \in Requests, Arrive(p) \/ Serve(p) \/ Die(p), NEW r \in Requests, r # p
  PROVE  req'[r] = req[r]
  <1>1. req \in [Requests -> RequestStates]
    BY DEF TypeOK
  <1>2. CASE Arrive(p)
    BY <1>1, <1>2 DEF Arrive, Authorize, Callback, Exchange, Begin
  <1>3. CASE RecordState(p) \/ SetCookie(p) \/ ConsumeState(p)
    BY <1>1, <1>3 DEF RecordState, SetCookie, ConsumeState, Refuse, Goto, Answer
  <1>4. CASE (\E identified \in Answers : Identify(p, identified)) \/ \E k \in Codes : Lookup(p, k)
    BY <1>1, <1>4 DEF Identify, Lookup, Refuse, Learn, Answer
  <1>5. CASE RecordCode(p) \/ Redirect(p) \/ (\E proven \in BOOLEAN : Authenticate(p, proven))
    BY <1>1, <1>5 DEF RecordCode, Redirect, Authenticate, Goto, Answer
  <1>6. CASE RequireUser(p) \/ BuildUpdate(p) \/ ConsumeCode(p) \/ (\E t \in Refreshes : IssueTokens(p, t)) \/ Reissue(p)
    BY <1>1, <1>6 DEF RequireUser, BuildUpdate, ConsumeCode, IssueTokens, Reissue, Goto, Answer
  <1>7. CASE Die(p)
    BY <1>1, <1>7 DEF Die, Answer
  <1> QED
    BY <1>2, <1>3, <1>4, <1>5, <1>6, <1>7 DEF Serve

\* Either no request moves or one does, and the others stay.
LEMMA RequestsMove ==
  ASSUME TypeOK, [Next]_vars
  PROVE  \/ UNCHANGED req
         \/ \E p \in Requests : /\ \/ (Arrive(p) \/ Serve(p)) /\ UNCHANGED world
                                   \/ Die(p)
                                /\ \A r \in Requests : r # p => req'[r] = req[r]
  BY WhoSteps, OneMoves
-----------------------------------------------------------------------------
\* What a step never takes back: what was signed, and what was spent.
Onward ==
  /\ \A s \in SignIns : Signed(pending[s]) => pending'[s] = pending[s]
  /\ \A k \in Codes : Signed(code[k]) => code'[k] = code[k]
  /\ \A t \in Refreshes : Signed(refresh[t]) => refresh'[t] = refresh[t]
  /\ \A n \in Nonces : nonce[n] = "consumed" => nonce'[n] = "consumed" /\ spent'[n] = spent[n]
  /\ \A n \in Nonces : nonce[n] # "absent" => nonce'[n] # "absent"
  /\ now <= now'

\* No step goes back on any of it.
LEMMA StepOnward == TypeOK /\ RequestsHandleSigned /\ RowsComeFirst /\ [Next]_vars => Onward
<1> SUFFICES ASSUME TypeOK, RequestsHandleSigned, RowsComeFirst, [Next]_vars PROVE Onward
  OBVIOUS
<1>1. \A s \in SignIns : Signed(pending[s]) => pending'[s] = pending[s]
  BY PendingChanges DEF Authorize, Signed, TypeOK
<1>2. \A k \in Codes : Signed(code[k]) => code'[k] = code[k]
  <2>1. ASSUME NEW r \in Requests, NEW k \in Codes, Lookup(r, k), NEW l \in Codes, Signed(code[l])
        PROVE  code'[l] = code[l]
    BY <2>1 DEF Lookup, Signed, TypeOK
  <2> QED
    BY <2>1, CodeChanges
<1>3. \A t \in Refreshes : Signed(refresh[t]) => refresh'[t] = refresh[t]
  <2>1. ASSUME NEW r \in Requests, NEW t \in Refreshes, IssueTokens(r, t),
               NEW u \in Refreshes, Signed(refresh[u])
        PROVE  refresh'[u] = refresh[u]
    BY <2>1 DEF IssueTokens, Signed, TypeOK
  <2> QED
    BY <2>1, TokensChange DEF Reissue
<1>4. ASSUME NEW n \in Nonces
      PROVE  /\ nonce[n] = "consumed" => nonce'[n] = "consumed" /\ spent'[n] = spent[n]
             /\ nonce[n] # "absent" => nonce'[n] # "absent"
  <2>1. ASSUME NEW r \in Requests, RecordState(r) \/ RecordCode(r)
        PROVE  nonce[req[r].about] = "absent" /\ nonce' = [nonce EXCEPT ![req[r].about] = "fresh"]
               /\ spent' = spent
    BY <2>1 DEF RecordState, RecordCode, CodeRow, Goto, RowsComeFirst
  <2>2. ASSUME NEW r \in Requests, ConsumeState(r) \/ ConsumeCode(r)
        PROVE  \/ UNCHANGED <<nonce, spent>>
               \/ \E x : nonce[x] = "fresh" /\ nonce' = [nonce EXCEPT ![x] = "consumed"]
                         /\ \E at : spent' = [spent EXCEPT ![x] = [asked |-> at, done |-> now]]
    BY <2>2 DEF ConsumeState, ConsumeCode, Consume, Consumable
  <2> QED
    BY <2>1, <2>2, NonceChanges DEF TypeOK
<1>5. now <= now'
  BY WorldChanges DEF Tick, TypeOK
<1> QED
  BY <1>1, <1>2, <1>3, <1>4, <1>5 DEF Onward

\* A code a step signs, it signs from the context its request handles.
LEMMA NewCode ==
  ASSUME TypeOK, RequestsHandleSigned, [Next]_vars,
         NEW k \in Codes, Signed(code'[k]), ~ Signed(code[k])
  PROVE  \E r \in Requests :
           /\ req[r].pc = "lookup" /\ req[r].about \in SignIns
           /\ UNCHANGED <<pending, refresh, nonce, spent, now>>
           /\ req'[r].pc = "record_code" /\ req'[r].about = k
           /\ \A q \in Requests : q # r => req'[q] = req[q]
           /\ code'[k].client = pending[req[r].about].client
           /\ code'[k].resource = pending[req[r].about].resource
           /\ code'[k].subject = req[r].subject /\ code'[k].of = req[r].about
           /\ code'[k].iat = now /\ code'[k].exp = now + CodeLife
           /\ \A l \in Codes : l # k => code'[l] = code[l]
  <1>1. PICK r \in Requests, l \in Codes : Lookup(r, l) /\ UNCHANGED world
    BY CodeChanges DEF Signed
  <1>2. ~ UNCHANGED code
    OBVIOUS
  <1> DEFINE claims == [client |-> pending[req[r].about].client,
                        resource |-> pending[req[r].about].resource,
                        subject |-> req[r].subject, of |-> req[r].about,
                        iat |-> now, exp |-> now + CodeLife]
  <1>3. /\ req[r].pc = "lookup" /\ req[r].about \in SignIns
        /\ UNCHANGED <<pending, refresh, nonce, spent, now>>
        /\ req'[r].pc = "record_code" /\ req'[r].about = l
        /\ code' = [code EXCEPT ![l] = claims]
    BY <1>1, <1>2, LookupEffect DEF Lookup, world
  <1>4. /\ claims.client = pending[req[r].about].client /\ claims.resource = pending[req[r].about].resource
        /\ claims.subject = req[r].subject /\ claims.of = req[r].about
        /\ claims.iat = now /\ claims.exp = now + CodeLife
    OBVIOUS
  <1> HIDE DEF claims
  <1>6. l = k /\ code'[k] = claims /\ \A m \in Codes : m # k => code'[m] = code[m]
    BY <1>3 DEF TypeOK
  <1>5. \A q \in Requests : q # r => req'[q] = req[q]
    BY <1>1, OneMoves DEF Serve
  <1> QED
    BY <1>3, <1>4, <1>5, <1>6

\* And a refresh token from the code.
LEMMA NewToken ==
  ASSUME TypeOK, RequestsHandleSigned, [Next]_vars,
         NEW t \in Refreshes, Signed(refresh'[t]), ~ Signed(refresh[t])
  PROVE  \E r \in Requests :
           LET k == req[r].about IN
           /\ req[r].pc = "issue_tokens" /\ k \in Codes /\ Signed(code[k])
           /\ UNCHANGED <<pending, code, nonce, spent, now>> /\ req'[r] = Idle
           /\ refresh'[t].client = code[k].client /\ refresh'[t].resource = code[k].resource
           /\ refresh'[t].subject = code[k].subject /\ refresh'[t].of = k /\ refresh'[t].iat = now
           /\ \A u \in Refreshes : u # t => refresh'[u] = refresh[u]
  <1>1. PICK r \in Requests, u \in Refreshes : IssueTokens(r, u) /\ UNCHANGED world
    BY TokensChange DEF Signed, Reissue
  <1>2. u = t
    BY <1>1 DEF IssueTokens, Signed, TypeOK
  <1>3. req[r].pc = "issue_tokens" /\ req[r].about \in Codes /\ Signed(code[req[r].about])
    BY <1>1 DEF IssueTokens, Answer, RequestsHandleSigned, HandlesSigned, AtToken, Claims
  <1>4. req'[r] = Idle
    BY <1>1 DEF IssueTokens, Answer, TypeOK
  <1> QED
    BY <1>1, <1>2, <1>3, <1>4 DEF IssueTokens, TypeOK, world
-----------------------------------------------------------------------------
(* Each part of the invariant is kept. *)

\* A code descends from the context its request handles.
LEMMA CodesStep ==
  TypeOK /\ RequestsHandleSigned /\ CodesDescend /\ OneSpends /\ Onward /\ [Next]_vars => CodesDescend'
<1> SUFFICES ASSUME TypeOK, RequestsHandleSigned, CodesDescend, OneSpends, Onward, [Next]_vars,
                    NEW k \in Codes, Signed(code'[k])
             PROVE  LET s == code'[k].of IN
                    /\ s \in SignIns /\ Signed(pending'[s]) /\ nonce'[s] = "consumed"
                    /\ code'[k].client = pending'[s].client /\ code'[k].resource = pending'[s].resource
                    /\ code'[k].subject = AccountOf[pending'[s].by]
  BY DEF CodesDescend, Signed
<1>1. CASE Signed(code[k])
  BY <1>1 DEF CodesDescend, Onward, Nonces
<1>2. CASE ~ Signed(code[k])
  <2>1. PICK r \in Requests :
          /\ req[r].pc = "lookup" /\ req[r].about \in SignIns /\ UNCHANGED <<pending, nonce>>
          /\ code'[k].client = pending[req[r].about].client
          /\ code'[k].resource = pending[req[r].about].resource
          /\ code'[k].subject = req[r].subject /\ code'[k].of = req[r].about
    BY <1>2, NewCode
  <2>2. Signed(pending[req[r].about]) /\ req[r].subject = AccountOf[pending[req[r].about].by]
    BY <2>1 DEF RequestsHandleSigned, HandlesSigned, SigningIn
  <2>3. nonce[req[r].about] = "consumed"
    BY <2>1 DEF OneSpends
  <2> QED
    BY <2>1, <2>2, <2>3
<1> QED
  BY <1>1, <1>2

\* A refresh token descends from the code its request has spent.
LEMMA TokensStep ==
  TypeOK /\ RequestsHandleSigned /\ TokensDescend /\ OneSpends /\ Onward /\ [Next]_vars => TokensDescend'
<1> SUFFICES ASSUME TypeOK, RequestsHandleSigned, TokensDescend, OneSpends, Onward, [Next]_vars,
                    NEW t \in Refreshes, Signed(refresh'[t])
             PROVE  LET k == refresh'[t].of IN
                    /\ k \in Codes /\ Signed(code'[k]) /\ nonce'[k] = "consumed"
                    /\ refresh'[t].client = code'[k].client /\ refresh'[t].resource = code'[k].resource
                    /\ refresh'[t].subject = code'[k].subject
  BY DEF TokensDescend, Signed
<1>1. CASE Signed(refresh[t])
  BY <1>1 DEF TokensDescend, Onward, Nonces
<1>2. CASE ~ Signed(refresh[t])
  <2>1. PICK r \in Requests :
          /\ req[r].pc = "issue_tokens" /\ req[r].about \in Codes /\ Signed(code[req[r].about])
          /\ UNCHANGED <<code, nonce>>
          /\ refresh'[t].client = code[req[r].about].client
          /\ refresh'[t].resource = code[req[r].about].resource
          /\ refresh'[t].subject = code[req[r].about].subject /\ refresh'[t].of = req[r].about
    BY <1>2, NewToken
  <2>2. nonce[req[r].about] = "consumed"
    BY <2>1 DEF OneSpends
  <2> QED
    BY <2>1, <2>2
<1> QED
  BY <1>1, <1>2

\* An access token goes with a refresh token, new or handed back.
LEMMA AccessStep ==
  TypeOK /\ RequestsHandleSigned /\ AccessDescends /\ Onward /\ [Next]_vars => AccessDescends'
<1> SUFFICES ASSUME TypeOK, RequestsHandleSigned, AccessDescends, Onward, [Next]_vars, NEW a \in access'
             PROVE  Signed(refresh'[a.of]) /\ a = AccessFor(a.of, refresh'[a.of])
  BY DEF AccessDescends, Signed, AccessFor
<1>1. CASE a \in access
  BY <1>1 DEF AccessDescends, AccessClaims, Onward, TypeOK
<1>2. ASSUME NEW r \in Requests, NEW t \in Refreshes, IssueTokens(r, t), a \notin access
      PROVE  Signed(refresh'[a.of]) /\ a = AccessFor(a.of, refresh'[a.of])
  <2> DEFINE k == req[r].about
             claims == [client |-> code[k].client, resource |-> code[k].resource,
                        subject |-> code[k].subject, of |-> k,
                        iat |-> now, exp |-> now + RefreshLife]
  <2>1. refresh'[t] = claims /\ a = AccessFor(t, claims)
    BY <1>2 DEF IssueTokens, TypeOK
  <2>2. k \in Codes /\ code[k] \in GrantClaims
    BY <1>2 DEF IssueTokens, Answer, RequestsHandleSigned, HandlesSigned, AtToken, Signed, Claims,
       TypeOK
  <2>3. claims \in GrantClaims
    BY <2>2, OAuthAssumption DEF GrantClaims, Nonces, TypeOK
  <2>4. a.of = t
    BY <2>1 DEF AccessFor
  <2> HIDE DEF claims
  <2>5. claims # Unsigned
    BY <2>3, UnsignedIsNone
  <2> QED
    BY <2>1, <2>4, <2>5 DEF Signed
<1>3. ASSUME NEW r \in Requests, Reissue(r), a \notin access
      PROVE  Signed(refresh'[a.of]) /\ a = AccessFor(a.of, refresh'[a.of])
  <2>1. req[r].about \in Refreshes /\ Signed(refresh[req[r].about])
    BY <1>3, OAuthAssumption DEF Reissue, Answer, RequestsHandleSigned, HandlesSigned, AtToken,
       Claims
  <2>2. a = AccessFor(req[r].about, refresh[req[r].about]) /\ UNCHANGED refresh
    BY <1>3 DEF Reissue
  <2>3. a.of = req[r].about
    BY <2>2 DEF AccessFor
  <2> QED
    BY <2>1, <2>2, <2>3
<1> QED
  BY <1>1, <1>2, <1>3, TokensChange

\* A code is sent where its context says, which was checked when that was signed.
LEMMA SentStep ==
  TypeOK /\ RequestsHandleSigned /\ SentWhereAllowed /\ CodesDescend /\ Onward /\ [Next]_vars
    => SentWhereAllowed'
<1> SUFFICES ASSUME TypeOK, RequestsHandleSigned, SentWhereAllowed, CodesDescend, Onward, [Next]_vars
             PROVE  SentWhereAllowed'
  OBVIOUS
<1>1. ASSUME NEW s \in SignIns, Signed(pending'[s])
      PROVE  RedirectAllowed(pending'[s].redirect)
  <2>1. CASE Signed(pending[s])
    BY <1>1, <2>1 DEF SentWhereAllowed, Onward
  <2>2. CASE ~ Signed(pending[s])
    BY <1>1, <2>2, PendingChanges DEF Authorize, Signed, TypeOK
  <2> QED
    BY <2>1, <2>2
<1>2. ASSUME NEW g \in given'
      PROVE  Signed(code'[g[1]]) /\ g[2] = pending'[code'[g[1]].of].redirect
  <2>1. CASE g \in given
    <3>1. g[1] \in Codes /\ Signed(code[g[1]]) /\ g[2] = pending[code[g[1]].of].redirect
      BY <2>1 DEF SentWhereAllowed, TypeOK
    <3>2. code[g[1]].of \in SignIns /\ Signed(pending[code[g[1]].of])
      BY <3>1 DEF CodesDescend
    <3> QED
      BY <3>1, <3>2 DEF Onward
  <2>2. ASSUME NEW r \in Requests, Redirect(r), g \notin given
        PROVE  Signed(code'[g[1]]) /\ g[2] = pending'[code'[g[1]].of].redirect
    <3>1. g = <<req[r].about, pending[code[req[r].about].of].redirect>> /\ UNCHANGED <<code, pending>>
      BY <1>2, <2>2 DEF Redirect, credentials
    <3>2. Signed(code[req[r].about])
      BY <2>2 DEF Redirect, Answer, RequestsHandleSigned, HandlesSigned, Handing
    <3> QED
      BY <3>1, <3>2
  <2> QED
    BY <1>2, <2>1, <2>2, GivenChanges
<1> QED
  BY <1>1, <1>2 DEF SentWhereAllowed, Signed, RedirectAllowed

\* The row of a deleted client does not come back.
LEMMA RemovedStep ==
  TypeOK /\ RemovedAreGone /\ [Next]_vars => RemovedAreGone'
<1> SUFFICES ASSUME TypeOK, RemovedAreGone, [Next]_vars PROVE RemovedAreGone'
  OBVIOUS
<1>1. ASSUME NEW c \in Clients, Remove(c) PROVE RemovedAreGone'
  BY <1>1 DEF Remove, RemovedAreGone, TypeOK
<1>2. ASSUME NEW c \in Clients, NEW uris, Register(c, uris) \/ Edit(c, uris) PROVE RemovedAreGone'
  BY <1>2 DEF Register, Edit, RemovedAreGone, TypeOK
<1> QED
  BY <1>1, <1>2, ClientsChange DEF RemovedAreGone

\* A request that stays where it is still handles what was signed.
LEMMA StillHandles ==
  ASSUME TypeOK, RequestsHandleSigned, Onward, NEW r \in Requests, req'[r] = req[r]
  PROVE  HandlesSigned(r)'
  BY DEF RequestsHandleSigned, HandlesSigned, Onward, Claims, SigningIn, Handing, AtToken

\* An idle request handles nothing.
LEMMA IdleHandles ==
  ASSUME NEW r \in Requests, req'[r].pc = "idle"
  PROVE  HandlesSigned(r)'
  BY DEF HandlesSigned, SigningIn, Handing, AtToken

\* Whatever a request goes on to, what it handles was signed.
LEMMA HandledStep ==
  TypeOK /\ RequestsHandleSigned /\ RowsComeFirst /\ Onward /\ [Next]_vars => RequestsHandleSigned'
<1> SUFFICES ASSUME TypeOK, RequestsHandleSigned, RowsComeFirst, Onward, [Next]_vars, NEW r \in Requests,
                    req'[r] # req[r], req'[r].pc # "idle"
             PROVE  HandlesSigned(r)'
  BY StillHandles, IdleHandles DEF RequestsHandleSigned, HandlesSigned, Signed, Claims
<1> USE DEF SigningIn, Handing, AtToken
<1>1. (Arrive(r) \/ Serve(r)) /\ UNCHANGED world
  BY RequestsMove DEF Die, Answer, Idle, TypeOK
<1>2. ASSUME NEW b \in Browsers, NEW c \in Clients, NEW uri \in Uris, NEW res \in Resources,
             NEW s \in SignIns, Authorize(r, b, c, uri, res, s)
      PROVE  HandlesSigned(r)'
  <2> DEFINE claims == [client |-> c, redirect |-> uri, resource |-> res, by |-> b,
                        iat |-> now, exp |-> now + PendingLife]
  <2>1. pending'[s] = claims /\ claims.by = b
    BY <1>2 DEF Authorize, TypeOK
  <2>2. claims \in PendingClaims
    BY OAuthAssumption DEF PendingClaims, TypeOK
  <2>3. claims # Unsigned
    BY <2>2, UnsignedIsNone
  <2> HIDE DEF claims
  <2>4. req'[r].pc = "record_state" /\ req'[r].about = s /\ req'[r].browser = b
    BY <1>2 DEF Authorize, Begin, TypeOK
  <2> QED
    BY <2>1, <2>3, <2>4 DEF HandlesSigned, Signed
<1>3. ASSUME NEW b \in Browsers, NEW s \in SignIns, Callback(r, b, s)
      PROVE  HandlesSigned(r)'
  <2>1. req'[r].pc = "consume_state" /\ req'[r].about = s /\ req'[r].browser = b
    BY <1>3 DEF Callback, Begin, TypeOK
  <2>2. Signed(pending[s]) /\ pending[s].by = b
    BY <1>3 DEF Callback, Held, RowsComeFirst
  <2> QED
    BY <2>1, <2>2 DEF HandlesSigned, Onward
<1>4. ASSUME NEW x \in Codes \cup Refreshes, Exchange(r, x)
      PROVE  HandlesSigned(r)'
  <2>1. req'[r].pc = "authenticate" /\ req'[r].about = x /\ Signed(Claims(x))
    BY <1>4 DEF Exchange, Begin, TypeOK
  <2> QED
    BY <2>1 DEF HandlesSigned, Onward, Claims
<1>5. CASE RecordState(r) \/ ConsumeState(r)
  <2>1. /\ req[r].pc \in {"record_state", "consume_state"} /\ req'[r].pc \in {"set_cookie", "identify"}
        /\ req'[r].about = req[r].about /\ req'[r].browser = req[r].browser
    BY <1>5 DEF RecordState, ConsumeState, Refuse, Goto, Answer, Idle, TypeOK, RequestStates
  <2> QED
    BY <2>1 DEF HandlesSigned, RequestsHandleSigned, Onward
<1>6. ASSUME NEW identified, Identify(r, identified)
      PROVE  HandlesSigned(r)'
  <2>1. ~ Refuse(r, "identify")
    BY DEF Refuse, Answer, Idle, TypeOK
  <2> QED
    BY <1>6, <2>1, IdentifyEffect DEF HandlesSigned, RequestsHandleSigned, Onward
<1>7. ASSUME NEW k \in Codes, Lookup(r, k)
      PROVE  HandlesSigned(r)'
  <2>1. ~ Refuse(r, "lookup")
    BY DEF Refuse, Answer, Idle, TypeOK
  <2>2. /\ req'[r].pc = "record_code" /\ req'[r].about = k /\ req'[r].browser \in Browsers
        /\ Signed(code'[k])
    BY <1>7, <2>1, LookupEffect
  <2> QED
    BY <2>2 DEF HandlesSigned
<1>8. CASE RecordCode(r)
  <2>1. /\ req[r].pc = "record_code" /\ req'[r].pc = "redirect"
        /\ req'[r].about = req[r].about /\ req'[r].browser = req[r].browser
    BY <1>8 DEF RecordCode, Goto, TypeOK, RequestStates
  <2> QED
    BY <2>1 DEF HandlesSigned, RequestsHandleSigned, Onward
<1>11. CASE BuildUpdate(r)
  BY <1>11, BuildType, OAuthAssumption DEF HandlesSigned, RequestsHandleSigned, Onward, Claims
<1>9. CASE (\E proven \in BOOLEAN : Authenticate(r, proven)) \/ RequireUser(r) \/ ConsumeCode(r)
  <2>1. /\ req[r].pc \in AtToken /\ req'[r].pc \in AtToken
        /\ req'[r].about = req[r].about
    BY <1>9 DEF Authenticate, RequireUser, ConsumeCode, OnceSpent, Goto, Answer, Idle, TypeOK,
       RequestStates
  <2>2. req'[r].pc \in {"user_found", "consume_code", "issue_tokens"} => req[r].about \in Codes
    BY <1>9 DEF Authenticate, RequireUser, ConsumeCode, OnceSpent, Goto, Answer, Idle, TypeOK,
         RequestStates, RequestsHandleSigned, HandlesSigned
  <2>3. req'[r].pc = "reissue" => req[r].about \in Refreshes
    BY <1>9 DEF Authenticate, RequireUser, ConsumeCode, OnceSpent, Goto, Answer, Idle, TypeOK,
         RequestStates, RequestsHandleSigned, HandlesSigned
  <2> QED
    BY <2>1, <2>2, <2>3, OAuthAssumption DEF HandlesSigned, RequestsHandleSigned, Onward, Claims
<1>10. ~ (SetCookie(r) \/ Redirect(r) \/ (\E t \in Refreshes : IssueTokens(r, t)) \/ Reissue(r))
  BY DEF SetCookie, Redirect, IssueTokens, Reissue, Answer, Idle, TypeOK
<1> QED
  BY <1>1, <1>2, <1>3, <1>4, <1>5, <1>6, <1>7, <1>8, <1>9, <1>10, <1>11 DEF Arrive, Serve
-----------------------------------------------------------------------------
(* How a request moves, and what moves with it. *)

Told(r) == req'[r].about = req[r].about

MovesOn(r) ==
  \/ req'[r].pc = "idle"
  \/ /\ req'[r].pc = "record_state" /\ req'[r].about \in SignIns
     /\ ~ Signed(pending[req'[r].about]) /\ UNCHANGED <<code, refresh, nonce, spent>>
  \/ /\ req[r].pc = "record_state" /\ req'[r].pc = "set_cookie" /\ Told(r)
     /\ nonce' = [nonce EXCEPT ![req[r].about] = "fresh"] /\ UNCHANGED <<credentials, spent>>
  \/ /\ req'[r].pc = "consume_state" /\ \E b \in Browsers : req'[r].about \in jar[b]
     /\ req'[r].at = now /\ UNCHANGED <<credentials, nonce, spent, now>>
  \/ /\ req[r].pc = "consume_state" /\ req'[r].pc = "identify" /\ Told(r)
     /\ nonce[req[r].about] = "fresh" /\ nonce' = [nonce EXCEPT ![req[r].about] = "consumed"]
     /\ req[r].at < pending[req[r].about].exp
     /\ UNCHANGED credentials
  \/ /\ req[r].pc = "identify" /\ req'[r].pc = "lookup" /\ Told(r)
     /\ UNCHANGED <<credentials, nonce, spent>>
  \/ /\ req[r].pc = "lookup" /\ req'[r].pc = "record_code" /\ req'[r].about \in Codes
     /\ ~ Signed(code[req'[r].about]) /\ UNCHANGED <<pending, refresh, nonce, spent>>
  \/ /\ req[r].pc = "record_code" /\ req'[r].pc = "redirect" /\ Told(r)
     /\ nonce' = [nonce EXCEPT ![req[r].about] = "fresh"] /\ UNCHANGED <<credentials, spent>>
  \/ /\ req'[r].pc = "authenticate"
     /\ req'[r].about \in Refreshes \/ \E uri \in Uris : <<req'[r].about, uri>> \in given
     /\ UNCHANGED <<credentials, nonce, spent>>
  \/ /\ req[r].pc \in {"authenticate", "require_user"} /\ Told(r)
     /\ req'[r].pc \in {"require_user", "user_found", "reissue"}
     /\ UNCHANGED <<credentials, nonce, spent>>
  \/ /\ req[r].pc = "user_found" /\ req'[r].pc = "consume_code" /\ Told(r)
     /\ req'[r].at = now /\ UNCHANGED <<credentials, nonce, spent, now>>
  \/ /\ req[r].pc = "consume_code" /\ req'[r].pc = "issue_tokens" /\ Told(r)
     /\ nonce[req[r].about] = "fresh" /\ nonce' = [nonce EXCEPT ![req[r].about] = "consumed"]
     /\ req[r].at < code[req[r].about].exp
     /\ UNCHANGED credentials

\* A request that changes takes one of those moves.
LEMMA AMove ==
  ASSUME TypeOK, RequestsHandleSigned, [Next]_vars, NEW r \in Requests, req'[r] # req[r]
  PROVE  MovesOn(r)
<1>0. Die(r) \/ UNCHANGED world
  BY RequestsMove
<1>1. CASE Die(r)
  BY <1>1 DEF Die, Answer, Idle, TypeOK, MovesOn
<1>2. ASSUME NEW b \in Browsers, NEW c \in Clients, NEW uri \in Uris, NEW res \in Resources,
             NEW s \in SignIns, Authorize(r, b, c, uri, res, s)
      PROVE  MovesOn(r)
  BY <1>2 DEF Authorize, Begin, TypeOK, MovesOn, Signed
<1>3. ASSUME NEW b \in Browsers, NEW s \in SignIns, Callback(r, b, s) PROVE MovesOn(r)
  <2>1. req'[r].at = now /\ now' = now
    BY <1>0, <1>3 DEF Callback, Begin, Idle, Die, Answer, TypeOK, world
  <2> QED
    BY <1>3, <2>1 DEF Callback, Begin, Held, TypeOK, MovesOn
<1>4. ASSUME NEW x \in Codes \cup Refreshes, Exchange(r, x) PROVE MovesOn(r)
  BY <1>4 DEF Exchange, Begin, TypeOK, MovesOn
<1>5. CASE RecordState(r) \/ SetCookie(r)
  BY <1>5 DEF RecordState, SetCookie, Goto, Answer, Idle, TypeOK, RequestStates, MovesOn, Told
<1>6. CASE ConsumeState(r)
  BY <1>6 DEF ConsumeState, Consume, Consumable, Refuse, Goto, Answer, Idle, TypeOK,
     RequestStates,
              MovesOn, Told
<1>7. ASSUME NEW identified, Identify(r, identified) PROVE MovesOn(r)
  <2>1. CASE Refuse(r, "identify")
    BY <2>1 DEF Refuse, Answer, Idle, TypeOK, MovesOn
  <2>2. CASE ~ Refuse(r, "identify")
    <3>1. UNCHANGED <<credentials, nonce, spent>>
      BY <1>7 DEF Identify
    <3> QED
      BY <1>7, <2>2, <3>1, IdentifyEffect DEF MovesOn, Told
  <2> QED
    BY <2>1, <2>2
<1>8. ASSUME NEW k \in Codes, Lookup(r, k) PROVE MovesOn(r)
  <2>1. CASE Refuse(r, "lookup") /\ UNCHANGED code
    BY <2>1 DEF Refuse, Answer, Idle, TypeOK, MovesOn
  <2>2. CASE ~ (Refuse(r, "lookup") /\ UNCHANGED code)
    <3>1. UNCHANGED <<pending, refresh, nonce, spent>>
      BY <1>8 DEF Lookup
    <3>2. /\ req[r].pc = "lookup" /\ req'[r].pc = "record_code" /\ req'[r].about = k
          /\ ~ Signed(code[k])
      BY <1>8, <2>2, LookupEffect DEF Signed
    <3> QED
      BY <3>1, <3>2 DEF MovesOn
  <2> QED
    BY <2>1, <2>2
<1>9. CASE RecordCode(r) \/ Redirect(r)
  BY <1>9 DEF RecordCode, CodeRow, Redirect, Goto, Answer, Idle, TypeOK, RequestStates, MovesOn,
     Told
<1>10. CASE (\E proven \in BOOLEAN : Authenticate(r, proven)) \/ RequireUser(r)
  BY <1>10 DEF Authenticate, RequireUser, Goto, Answer, Idle, TypeOK, RequestStates, MovesOn, Told
<1>11. CASE ConsumeCode(r)
  BY <1>11 DEF ConsumeCode, Consume, Consumable, OnceSpent, Goto, Answer, Idle, TypeOK,
     RequestStates,
               MovesOn, Told
<1>13. CASE BuildUpdate(r)
  <2>1. now' = now
    BY <1>0, <1>13 DEF BuildUpdate, Die, Answer, Idle, TypeOK, world
  <2> QED
    BY <1>13, <2>1, BuildType DEF BuildUpdate, MovesOn, Told
<1>12. CASE (\E t \in Refreshes : IssueTokens(r, t)) \/ Reissue(r)
  BY <1>12 DEF IssueTokens, Reissue, Answer, Idle, TypeOK, MovesOn
<1> QED
  BY <1>1, <1>2, <1>3, <1>4, <1>5, <1>6, <1>7, <1>8, <1>9, <1>10, <1>11, <1>12, <1>13,
     RequestsMove
     DEF Arrive, Serve

\* A nonce changes with the request that handles it.
LEMMA NonceMoves ==
  ASSUME TypeOK, RequestsHandleSigned, [Next]_vars, NEW n \in Nonces, nonce'[n] # nonce[n] \/ spent'[n] # spent[n]
  PROVE  \E r \in Requests :
           /\ n = req[r].about /\ Told(r) /\ UNCHANGED <<credentials, now>>
           /\ \A m \in Nonces : m # n => nonce'[m] = nonce[m]
           /\ \A q \in Requests : q # r => req'[q] = req[q]
           /\ \/ /\ \/ n \in SignIns /\ req[r].pc = "record_state" /\ req'[r].pc = "set_cookie"
                    \/ n \in Codes /\ req[r].pc = "record_code" /\ req'[r].pc = "redirect"
                 /\ nonce'[n] = "fresh" /\ UNCHANGED spent
              \/ /\ \/ n \in SignIns /\ req[r].pc = "consume_state" /\ req'[r].pc = "identify"
                       /\ req[r].at < pending[n].exp
                    \/ n \in Codes /\ req[r].pc = "consume_code" /\ req'[r].pc = "issue_tokens"
                       /\ req[r].at < code[n].exp
                 /\ nonce[n] = "fresh" /\ nonce'[n] = "consumed"
                 /\ spent'[n].asked = req[r].at /\ spent'[n].done = now
<1>1. PICK r \in Requests : /\ RecordState(r) \/ ConsumeState(r) \/ RecordCode(r) \/ ConsumeCode(r)
                            /\ UNCHANGED world
  BY NonceChanges
<1>2. \A q \in Requests : q # r => req'[q] = req[q]
  BY <1>1, OneMoves DEF Serve
<1>3. /\ req[r].pc \in {"record_state", "consume_state"} => req[r].about \in SignIns
      /\ req[r].pc \in {"record_code", "consume_code"} => req[r].about \in Codes
  BY DEF RequestsHandleSigned, HandlesSigned, SigningIn, Handing
<1>4. UNCHANGED <<credentials, now>>
  BY <1>1 DEF RecordState, ConsumeState, RecordCode, ConsumeCode, world
<1>5. CASE RecordState(r) \/ RecordCode(r)
  <2>1. /\ nonce' = [nonce EXCEPT ![req[r].about] = "fresh"] /\ UNCHANGED spent
        /\ \/ req[r].pc = "record_state" /\ req' = [req EXCEPT ![r].pc = "set_cookie"]
           \/ req[r].pc = "record_code" /\ req' = [req EXCEPT ![r].pc = "redirect"]
    BY <1>5 DEF RecordState, RecordCode, CodeRow, Goto
  <2>2. n = req[r].about
    BY <2>1 DEF TypeOK
  <2>3. Told(r) /\ \/ req[r].pc = "record_state" /\ req'[r].pc = "set_cookie"
                   \/ req[r].pc = "record_code" /\ req'[r].pc = "redirect"
    BY <2>1 DEF TypeOK, RequestStates, Told
  <2>4. nonce'[n] = "fresh" /\ \A m \in Nonces : m # n => nonce'[m] = nonce[m]
    BY <2>1, <2>2 DEF TypeOK
  <2> QED
    BY <1>2, <1>3, <1>4, <2>1, <2>2, <2>3, <2>4
<1>6. CASE ConsumeState(r) \/ ConsumeCode(r)
  <2>1. /\ nonce' = [nonce EXCEPT ![req[r].about] = "consumed"]
        /\ spent' = [spent EXCEPT ![req[r].about] = [asked |-> req[r].at, done |-> now]]
        /\ nonce[req[r].about] = "fresh"
        /\ \/ /\ req[r].pc = "consume_state" /\ req' = [req EXCEPT ![r].pc = "identify"]
              /\ req[r].at < pending[req[r].about].exp
           \/ /\ req[r].pc = "consume_code" /\ req' = [req EXCEPT ![r].pc = "issue_tokens"]
              /\ req[r].at < code[req[r].about].exp
    BY <1>6 DEF ConsumeState, ConsumeCode, OnceSpent, Consume, Consumable, Goto
  <2>2. n = req[r].about
    BY <2>1 DEF TypeOK
  <2>3. Told(r) /\ \/ req[r].pc = "consume_state" /\ req'[r].pc = "identify"
                   \/ req[r].pc = "consume_code" /\ req'[r].pc = "issue_tokens"
    BY <2>1 DEF TypeOK, RequestStates, Told
  <2>4. /\ nonce'[n] = "consumed" /\ spent'[n].asked = req[r].at /\ spent'[n].done = now
        /\ \A m \in Nonces : m # n => nonce'[m] = nonce[m]
    BY <2>1, <2>2 DEF TypeOK
  <2> QED
    BY <1>2, <1>3, <1>4, <2>1, <2>2, <2>3, <2>4
<1> QED
  BY <1>1, <1>5, <1>6
-----------------------------------------------------------------------------
\* Rows are written once, before anybody is told of their nonce.
LEMMA RowsStep ==
  TypeOK /\ TypeOK' /\ RequestsHandleSigned /\ RowsComeFirst /\ OneSpends /\ Onward /\ [Next]_vars
    => RowsComeFirst'
<1> SUFFICES ASSUME TypeOK, TypeOK', RequestsHandleSigned, RowsComeFirst, OneSpends, Onward, [Next]_vars
             PROVE  RowsComeFirst'
  OBVIOUS
<1> USE DEF SigningIn, Handing, AtToken
<1>0. SignIns \subseteq Nonces /\ Codes \subseteq Nonces /\ SignIns \cap Codes = {} /\ Codes \cap Refreshes = {}
  BY OAuthAssumption DEF Nonces
<1>1. \A s \in SignIns : ~ Signed(pending'[s]) => nonce'[s] = "absent"
  BY <1>0, NonceMoves DEF Onward, RowsComeFirst, RequestsHandleSigned, HandlesSigned
<1>2. \A k \in Codes : ~ Signed(code'[k]) => nonce'[k] = "absent"
  <2> SUFFICES ASSUME NEW k \in Codes, ~ Signed(code'[k]), nonce'[k] # nonce[k] PROVE FALSE
    BY DEF Onward, RowsComeFirst
  <2> QED
    BY <1>0, NonceMoves DEF Onward, RequestsHandleSigned, HandlesSigned, Claims, credentials
<1>3. ASSUME NEW b \in Browsers, NEW s \in jar'[b]
      PROVE  Signed(pending'[s]) /\ pending'[s].by = b /\ nonce'[s] # "absent"
  <2>1. s \in SignIns
    BY DEF TypeOK
  <2>2. CASE s \in jar[b]
    BY <1>0, <2>1, <2>2 DEF RowsComeFirst, Onward
  <2>3. ASSUME NEW r \in Requests, SetCookie(r), s \notin jar[b]
        PROVE  Signed(pending[s]) /\ pending[s].by = b /\ nonce[s] # "absent"
    <3>1. req[r].browser = b /\ req[r].about = s /\ req[r].pc = "set_cookie"
      BY <2>3 DEF SetCookie, Answer, TypeOK
    <3> QED
      BY <3>1 DEF RequestsHandleSigned, HandlesSigned, RowsComeFirst
  <2> QED
    BY <1>0, <2>1, <2>2, <2>3, JarChanges DEF Onward
<1>4. ASSUME NEW g \in given' PROVE nonce'[g[1]] # "absent"
  <2>1. g[1] \in Codes
    BY DEF TypeOK
  <2>2. ASSUME NEW r \in Requests, Redirect(r), g \notin given PROVE nonce[g[1]] # "absent"
    BY <1>4, <2>2 DEF Redirect, Answer, RowsComeFirst
  <2> QED
    BY <1>0, <1>4, <2>1, <2>2, GivenChanges DEF RowsComeFirst, Onward
<1>5. ASSUME NEW r \in Requests, req'[r].pc \in {"record_state", "record_code"}
      PROVE  nonce'[req'[r].about] = "absent"
  <2>1. CASE req'[r] = req[r]
    <3>1. nonce[req[r].about] = "absent" /\ req[r].about \in Nonces
      BY <1>0, <1>5, <2>1 DEF RowsComeFirst, RequestsHandleSigned, HandlesSigned
    <3>2. ASSUME nonce'[req[r].about] # nonce[req[r].about] PROVE FALSE
      <4>1. PICK q \in Requests : /\ req[q].about = req[r].about /\ req'[q].pc # req[q].pc
                                  /\ req[q].pc \in {"record_state", "record_code"}
                                  /\ req[q].pc = "record_state" => req[r].about \in SignIns
                                  /\ req[q].pc = "record_code" => req[r].about \in Codes
        BY <3>1, <3>2, NonceMoves
      <4> QED
        BY <1>0, <1>5, <2>1, <4>1 DEF OneSpends, RequestsHandleSigned, HandlesSigned
    <3> QED
      BY <2>1, <3>1, <3>2
  <2>2. CASE req'[r] # req[r]
    BY <1>5, <2>2, AMove DEF MovesOn, RowsComeFirst
  <2> QED
    BY <2>1, <2>2
<1>6. ASSUME NEW r \in Requests, req'[r].pc \in {"set_cookie", "consume_state", "redirect"}
      PROVE  nonce'[req'[r].about] # "absent"
  <2>1. req[r].pc \in {"record_state", "set_cookie", "consume_state", "record_code", "redirect"}
          => req[r].about \in Nonces
    BY <1>0 DEF RequestsHandleSigned, HandlesSigned
  <2>2. CASE req'[r] = req[r]
    BY <1>6, <2>1, <2>2 DEF RowsComeFirst, Onward
  <2>3. CASE req'[r] # req[r] /\ req'[r].pc = "consume_state"
    BY <2>3, AMove DEF MovesOn, RowsComeFirst
  <2>4. CASE req'[r] # req[r] /\ req'[r].pc # "consume_state"
    BY <1>6, <2>1, <2>4, AMove DEF MovesOn, TypeOK, Told
  <2> QED
    BY <2>2, <2>3, <2>4
<1>7. ASSUME NEW r \in Requests, req'[r].pc \in AtToken, req'[r].about \in Codes
      PROVE  nonce'[req'[r].about] # "absent"
  <2>1. CASE req'[r] = req[r]
    BY <1>0, <1>7, <2>1 DEF RowsComeFirst, Onward
  <2>2. CASE req'[r] # req[r] /\ req'[r].pc = "authenticate"
    <3>1. PICK uri \in Uris : <<req'[r].about, uri>> \in given /\ UNCHANGED nonce
      BY <1>0, <1>7, <2>2, AMove DEF MovesOn
    <3> QED
      BY <3>1 DEF RowsComeFirst
  <2>3. CASE req'[r] # req[r] /\ req'[r].pc # "authenticate"
    <3>1. Told(r) /\ req[r].pc \in AtToken
      BY <1>7, <2>3, AMove DEF MovesOn
    <3> QED
      BY <1>0, <1>7, <3>1 DEF Told, RowsComeFirst, Onward
  <2> QED
    BY <2>1, <2>2, <2>3
<1> QED
  BY <1>1, <1>2, <1>3, <1>4, <1>5, <1>6, <1>7 DEF RowsComeFirst, Signed

\* Two requests never both get past the same nonce.
LEMMA SpendsStep ==
  TypeOK /\ TypeOK' /\ RequestsHandleSigned /\ CodesDescend /\ TokensDescend /\ OneSpends /\ Onward /\ [Next]_vars
    => OneSpends'
<1> SUFFICES ASSUME TypeOK, TypeOK', RequestsHandleSigned, CodesDescend, TokensDescend, OneSpends, Onward,
                    [Next]_vars
             PROVE  OneSpends'
  OBVIOUS
<1> USE DEF SigningIn, Handing, AtToken
<1>0. SignIns \subseteq Nonces /\ Codes \subseteq Nonces /\ SignIns \cap Codes = {} /\ Codes \cap Refreshes = {}
  BY OAuthAssumption DEF Nonces
\* No code or token comes of a nonce that is not spent.
<1>1. \A k \in Codes : Signed(code[k]) => nonce[code[k].of] = "consumed"
  BY DEF CodesDescend
<1>2. \A t \in Refreshes : Signed(refresh[t]) => nonce[refresh[t].of] = "consumed"
  BY DEF TokensDescend
\* A request that takes a credential a step further was the only one to.
<1>3. ASSUME NEW r \in Requests, req'[r].pc \in {"identify", "lookup"}
      PROVE  /\ nonce'[req'[r].about] = "consumed"
             /\ \A k \in Codes : Signed(code'[k]) => code'[k].of # req'[r].about
  <2>1. CASE req'[r] = req[r]
    <3>1. req[r].about \in SignIns /\ nonce[req[r].about] = "consumed"
          /\ \A k \in Codes : Signed(code[k]) => code[k].of # req[r].about
      BY <1>3, <2>1 DEF OneSpends, RequestsHandleSigned, HandlesSigned
    <3>2. ASSUME NEW k \in Codes, Signed(code'[k]), ~ Signed(code[k]) PROVE code'[k].of # req[r].about
      <4>1. PICK q \in Requests : /\ req[q].pc = "lookup" /\ req'[q].pc = "record_code"
                                  /\ code'[k].of = req[q].about
        BY <3>2, NewCode
      <4>2. q # r
        BY <1>3, <4>1
      <4> QED
        BY <1>3, <2>1, <4>1, <4>2 DEF OneSpends
    <3> QED
      BY <1>0, <2>1, <3>1, <3>2 DEF Onward
  <2>2. CASE req'[r] # req[r]
    <3>1. /\ Told(r) /\ UNCHANGED credentials
          /\ \/ req[r].pc = "identify" /\ UNCHANGED nonce
             \/ /\ req[r].pc = "consume_state" /\ nonce[req[r].about] = "fresh"
                /\ nonce' = [nonce EXCEPT ![req[r].about] = "consumed"]
      BY <1>3, <2>2, AMove DEF MovesOn
    <3>2. req[r].about \in Nonces
      BY <1>0, <3>1 DEF RequestsHandleSigned, HandlesSigned
    <3> QED
      BY <1>1, <3>1, <3>2 DEF Told, OneSpends, credentials, TypeOK
  <2> QED
    BY <2>1, <2>2
<1>4. ASSUME NEW r \in Requests, req'[r].pc = "issue_tokens"
      PROVE  /\ nonce'[req'[r].about] = "consumed"
             /\ \A t \in Refreshes : Signed(refresh'[t]) => refresh'[t].of # req'[r].about
  <2>1. CASE req'[r] = req[r]
    <3>1. req[r].about \in Codes /\ nonce[req[r].about] = "consumed"
          /\ \A t \in Refreshes : Signed(refresh[t]) => refresh[t].of # req[r].about
      BY <1>4, <2>1 DEF OneSpends, RequestsHandleSigned, HandlesSigned
    <3>2. ASSUME NEW t \in Refreshes, Signed(refresh'[t]), ~ Signed(refresh[t])
          PROVE  refresh'[t].of # req[r].about
      <4>1. PICK q \in Requests : /\ req[q].pc = "issue_tokens" /\ req'[q] = Idle
                                  /\ refresh'[t].of = req[q].about
        BY <3>2, NewToken
      <4>2. q # r
        BY <1>4, <4>1 DEF Idle
      <4> QED
        BY <1>4, <2>1, <4>1, <4>2 DEF OneSpends
    <3> QED
      BY <1>0, <2>1, <3>1, <3>2 DEF Onward
  <2>2. CASE req'[r] # req[r]
    <3>1. /\ Told(r) /\ UNCHANGED credentials
          /\ req[r].pc = "consume_code" /\ nonce[req[r].about] = "fresh"
          /\ nonce' = [nonce EXCEPT ![req[r].about] = "consumed"]
      BY <1>4, <2>2, AMove DEF MovesOn
    <3>2. req[r].about \in Nonces
      BY <1>0, <3>1 DEF RequestsHandleSigned, HandlesSigned
    <3> QED
      BY <1>2, <3>1, <3>2 DEF Told, credentials, TypeOK
  <2> QED
    BY <2>1, <2>2
<1>5. ASSUME NEW q \in Requests, NEW r \in Requests, q # r, req'[q].about = req'[r].about,
             req'[q] # req[q], req'[r] = req[r]
      PROVE  /\ ~ (req'[q].pc \in {"identify", "lookup"} /\ req'[r].pc \in {"identify", "lookup"})
             /\ ~ (req'[q].pc = "issue_tokens" /\ req'[r].pc = "issue_tokens")
             /\ ~ (req'[q].pc = "record_state" /\ req'[r].pc = "record_state")
             /\ ~ (req'[q].pc = "record_code" /\ req'[r].pc = "record_code")
  <2>1. MovesOn(q)
    BY <1>5, AMove
  <2>2. ~ (req'[q].pc \in {"identify", "lookup"} /\ req'[r].pc \in {"identify", "lookup"})
    BY <1>5, <2>1 DEF MovesOn, Told, OneSpends
  <2>3. ~ (req'[q].pc = "issue_tokens" /\ req'[r].pc = "issue_tokens")
    BY <1>5, <2>1 DEF MovesOn, Told, OneSpends
  <2>4. ~ (req'[q].pc = "record_state" /\ req'[r].pc = "record_state")
    BY <1>5, <2>1 DEF MovesOn, RequestsHandleSigned, HandlesSigned
  <2>5. ~ (req'[q].pc = "record_code" /\ req'[r].pc = "record_code")
    BY <1>5, <2>1 DEF MovesOn, RequestsHandleSigned, HandlesSigned
  <2> QED
    BY <2>2, <2>3, <2>4, <2>5
<1>6. ASSUME NEW q \in Requests, NEW r \in Requests, q # r, req'[q].about = req'[r].about
      PROVE  /\ ~ (req'[q].pc \in {"identify", "lookup"} /\ req'[r].pc \in {"identify", "lookup"})
             /\ ~ (req'[q].pc = "issue_tokens" /\ req'[r].pc = "issue_tokens")
             /\ ~ (req'[q].pc = "record_state" /\ req'[r].pc = "record_state")
             /\ ~ (req'[q].pc = "record_code" /\ req'[r].pc = "record_code")
  <2>1. req'[q] = req[q] \/ req'[r] = req[r]
    BY <1>6, RequestsMove
  <2>2. CASE req'[q] = req[q] /\ req'[r] = req[r]
    BY <1>6, <2>2 DEF OneSpends
  <2> QED
    BY <1>5, <1>6, <2>1, <2>2
<1>7. \A k, l \in Codes : Signed(code'[k]) /\ Signed(code'[l]) /\ code'[k].of = code'[l].of => k = l
  <2>1. ASSUME NEW k \in Codes, NEW l \in Codes, Signed(code'[k]), Signed(code'[l]), ~ Signed(code[k]), k # l
        PROVE  code'[k].of # code'[l].of
    <3>1. PICK q \in Requests : /\ req[q].pc = "lookup" /\ code'[k].of = req[q].about
                                /\ code'[l] = code[l]
      BY <2>1, NewCode
    <3> QED
      BY <2>1, <3>1 DEF OneSpends
  <2> QED
    BY <2>1 DEF OneSpends, Onward
<1>8. \A t, u \in Refreshes :
        Signed(refresh'[t]) /\ Signed(refresh'[u]) /\ refresh'[t].of = refresh'[u].of => t = u
  <2>1. ASSUME NEW t \in Refreshes, NEW u \in Refreshes, Signed(refresh'[t]), Signed(refresh'[u]),
               ~ Signed(refresh[t]), t # u
        PROVE  refresh'[t].of # refresh'[u].of
    <3>1. PICK q \in Requests : /\ req[q].pc = "issue_tokens" /\ refresh'[t].of = req[q].about
                                /\ refresh'[u] = refresh[u]
      BY <2>1, NewToken
    <3> QED
      BY <2>1, <3>1 DEF OneSpends
  <2> QED
    BY <2>1 DEF OneSpends, Onward
<1> QED
  BY <1>3, <1>4, <1>6, <1>7, <1>8 DEF OneSpends, Signed

\* What a request asks with, it read from the clock.
LEMMA AsksStep ==
  TypeOK /\ TypeOK' /\ RequestsHandleSigned /\ RowsComeFirst /\ DatesAgree /\ AsksAfter /\ Onward /\ [Next]_vars
    => AsksAfter'
<1> SUFFICES ASSUME TypeOK, TypeOK', RequestsHandleSigned, RowsComeFirst, DatesAgree, AsksAfter, Onward,
                    [Next]_vars, NEW r \in Requests
             PROVE  /\ req'[r].pc = "consume_state" =>
                         pending'[req'[r].about].iat <= req'[r].at /\ req'[r].at <= now'
                    /\ req'[r].pc = "consume_code" =>
                         code'[req'[r].about].iat <= req'[r].at /\ req'[r].at <= now'
  BY DEF AsksAfter
<1>0. now \in Nat /\ now' \in Nat /\ now <= now' /\ req[r].at \in Nat
  BY DEF TypeOK, RequestStates, Onward
<1>1. CASE req'[r] = req[r]
  <2>1. req[r].pc = "consume_state" => pending'[req[r].about] = pending[req[r].about]
    BY DEF RequestsHandleSigned, HandlesSigned, SigningIn, Onward
  <2>2. req[r].pc = "consume_code" => code'[req[r].about] = code[req[r].about]
    BY DEF RequestsHandleSigned, HandlesSigned, AtToken, Claims, Onward
  <2>3. req[r].at <= now => req[r].at <= now'
    BY <1>0
  <2> QED
    BY <1>1, <2>1, <2>2, <2>3 DEF AsksAfter
<1>2. CASE req'[r] # req[r] /\ req'[r].pc = "consume_state"
  <2>1. PICK b \in Browsers : req'[r].about \in jar[b] /\ req'[r].at = now /\ UNCHANGED <<pending, now>>
    BY <1>2, AMove DEF MovesOn, credentials
  <2>2. req'[r].about \in SignIns /\ Signed(pending[req'[r].about])
    BY <2>1 DEF RowsComeFirst, TypeOK
  <2> QED
    BY <1>0, <1>2, <2>1, <2>2 DEF DatesAgree
<1>3. CASE req'[r] # req[r] /\ req'[r].pc = "consume_code"
  <2>1. /\ req[r].pc = "user_found" /\ req'[r].about = req[r].about
        /\ req'[r].at = now /\ UNCHANGED <<code, now>>
    BY <1>3, AMove DEF MovesOn, Told, credentials
  <2>2. req[r].about \in Codes /\ Signed(code[req[r].about])
    BY <2>1 DEF RequestsHandleSigned, HandlesSigned, AtToken, Claims
  <2> QED
    BY <1>0, <1>3, <2>1, <2>2 DEF DatesAgree
<1> QED
  BY <1>1, <1>2, <1>3

\* Dates stay in order as the clock goes on.
LEMMA DatesStep ==
  TypeOK /\ TypeOK' /\ RequestsHandleSigned /\ RowsComeFirst /\ CodesDescend /\ TokensDescend /\ AsksAfter
  /\ DatesAgree /\ Onward /\ [Next]_vars => DatesAgree'
<1> SUFFICES ASSUME TypeOK, TypeOK', RequestsHandleSigned, RowsComeFirst, CodesDescend, TokensDescend,
                    AsksAfter, DatesAgree, Onward, [Next]_vars
             PROVE  DatesAgree'
  OBVIOUS
<1>0. SignIns \subseteq Nonces /\ Codes \subseteq Nonces /\ SignIns \cap Codes = {}
  BY OAuthAssumption DEF Nonces
<1>1. ASSUME NEW s \in SignIns, Signed(pending'[s]) PROVE pending'[s].iat <= now'
  <2>1. CASE Signed(pending[s])
    <3>1. pending'[s] = pending[s] /\ pending[s] \in PendingClaims /\ pending[s].iat <= now
      BY <2>1 DEF Onward, DatesAgree, Signed, TypeOK
    <3> QED
      BY <3>1 DEF PendingClaims, Onward, TypeOK
  <2>2. CASE ~ Signed(pending[s])
    <3>1. pending'[s].iat = now
      BY <1>1, <2>2, PendingChanges DEF Authorize, Signed, TypeOK
    <3> QED
      BY <3>1 DEF Onward
  <2> QED
    BY <2>1, <2>2
<1>2. ASSUME NEW k \in Codes, Signed(code'[k])
      PROVE  code'[k].iat <= now' /\ spent'[code'[k].of].done <= code'[k].iat
  <2>1. CASE Signed(code[k])
    <3>1. code'[k] = code[k] /\ code[k] \in GrantClaims /\ code[k].iat <= now
          /\ nonce[code[k].of] = "consumed" /\ code[k].of \in Nonces /\ spent[code[k].of].done <= code[k].iat
      BY <1>0, <2>1 DEF Onward, DatesAgree, CodesDescend, Signed, TypeOK
    <3> QED
      BY <3>1 DEF GrantClaims, Onward, TypeOK
  <2>2. CASE ~ Signed(code[k])
    <3>1. PICK r \in Requests : /\ req[r].about \in SignIns /\ UNCHANGED <<spent, now>>
                                /\ code'[k].of = req[r].about /\ code'[k].iat = now
      BY <1>2, <2>2, NewCode
    <3> QED
      BY <1>0, <3>1 DEF DatesAgree, TypeOK
  <2> QED
    BY <2>1, <2>2
<1>3. ASSUME NEW t \in Refreshes, Signed(refresh'[t]) PROVE spent'[refresh'[t].of].done <= refresh'[t].iat
  <2>1. CASE Signed(refresh[t])
    <3>1. refresh'[t] = refresh[t] /\ nonce[refresh[t].of] = "consumed" /\ refresh[t].of \in Nonces
          /\ spent[refresh[t].of].done <= refresh[t].iat
      BY <1>0, <2>1 DEF Onward, DatesAgree, TokensDescend
    <3> QED
      BY <3>1 DEF Onward
  <2>2. CASE ~ Signed(refresh[t])
    <3>1. PICK r \in Requests : /\ req[r].about \in Codes /\ UNCHANGED <<spent, now>>
                                /\ refresh'[t].of = req[r].about /\ refresh'[t].iat = now
      BY <1>3, <2>2, NewToken
    <3> QED
      BY <1>0, <3>1 DEF DatesAgree
  <2> QED
    BY <2>1, <2>2
<1>4. ASSUME NEW n \in Nonces PROVE spent'[n].done <= now'
  <2>1. CASE spent'[n] = spent[n]
    <3>1. spent[n].done \in Nat /\ spent[n].done <= now /\ now \in Nat /\ now' \in Nat /\ now <= now'
      BY DEF DatesAgree, Onward, TypeOK
    <3> QED
      BY <2>1, <3>1
  <2>2. CASE spent'[n] # spent[n]
    <3>1. spent'[n].done = now
      BY <2>2, NonceMoves
    <3> QED
      BY <3>1 DEF Onward
  <2> QED
    BY <2>1, <2>2
<1>5. ASSUME NEW s \in SignIns, nonce'[s] = "consumed" PROVE SpentInTime(s, pending[s])'
  <2>1. CASE nonce[s] = "consumed"
    BY <1>0, <2>1 DEF DatesAgree, SpentInTime, Onward, RowsComeFirst
  <2>2. CASE nonce[s] # "consumed"
    <3>1. PICK r \in Requests : /\ s = req[r].about /\ req[r].pc = "consume_state" /\ nonce[s] = "fresh"
                                /\ spent'[s].asked = req[r].at /\ spent'[s].done = now
                                /\ req[r].at < pending[s].exp
      BY <1>0, <1>5, <2>2, NonceMoves
    <3>2. pending'[s] = pending[s]
      BY <3>1 DEF RowsComeFirst, Onward
    <3>3. pending[s].iat <= req[r].at /\ req[r].at <= now
      BY <3>1 DEF AsksAfter
    <3> QED
      BY <3>1, <3>2, <3>3 DEF SpentInTime
  <2> QED
    BY <2>1, <2>2
<1>6. ASSUME NEW k \in Codes, nonce'[k] = "consumed" PROVE SpentInTime(k, code[k])'
  <2>1. CASE nonce[k] = "consumed"
    BY <1>0, <2>1 DEF DatesAgree, SpentInTime, Onward, RowsComeFirst
  <2>2. CASE nonce[k] # "consumed"
    <3>1. PICK r \in Requests : /\ k = req[r].about /\ req[r].pc = "consume_code" /\ nonce[k] = "fresh"
                                /\ spent'[k].asked = req[r].at /\ spent'[k].done = now
                                /\ req[r].at < code[k].exp
      BY <1>0, <1>6, <2>2, NonceMoves
    <3>2. code'[k] = code[k]
      BY <3>1 DEF RowsComeFirst, Onward
    <3>3. code[k].iat <= req[r].at /\ req[r].at <= now
      BY <3>1 DEF AsksAfter
    <3> QED
      BY <3>1, <3>2, <3>3 DEF SpentInTime
  <2> QED
    BY <2>1, <2>2
<1> QED
  BY <1>1, <1>2, <1>3, <1>4, <1>5, <1>6 DEF DatesAgree, Signed

\* A spent code keeps its tokens, the request about to issue them, or its loss.
LEMMA WasteStep ==
  TypeOK /\ TypeOK' /\ RequestsHandleSigned /\ RowsComeFirst /\ CodeNotWasted /\ Onward /\ [Next]_vars
    => CodeNotWasted'
<1> SUFFICES ASSUME TypeOK, TypeOK', RequestsHandleSigned, RowsComeFirst, CodeNotWasted, Onward, [Next]_vars,
                    NEW k \in Codes, nonce'[k] = "consumed"
             PROVE  \/ \E t \in Refreshes : Signed(refresh'[t]) /\ refresh'[t].of = k
                    \/ \E r \in Requests : req'[r].pc = "issue_tokens" /\ req'[r].about = k
                    \/ k \in lost'
  BY DEF CodeNotWasted, PairsOf, Signed
<1>0. k \in Nonces /\ SignIns \cap Codes = {}
  BY OAuthAssumption DEF Nonces
<1>1. CASE nonce[k] # "consumed"
  <2>1. PICK r \in Requests : k = req[r].about /\ Told(r) /\ req'[r].pc = "issue_tokens"
    BY <1>0, <1>1, NonceMoves
  <2> QED
    BY <2>1 DEF Told
<1>2. CASE nonce[k] = "consumed" /\ PairsOf(k) # {}
  BY <1>2 DEF PairsOf, Onward
<1>3. CASE k \in lost
  BY <1>3, LostChanges DEF Die
<1>4. ASSUME NEW r \in Requests, req[r].pc = "issue_tokens", req[r].about = k, req'[r] # req[r]
      PROVE  \/ \E t \in Refreshes : Signed(refresh'[t]) /\ refresh'[t].of = k
             \/ k \in lost'
  <2>1. CASE Die(r)
    BY <1>4, <2>1 DEF Die
  <2>2. ASSUME NEW t \in Refreshes, IssueTokens(r, t)
        PROVE  Signed(refresh'[t]) /\ refresh'[t].of = k
    <3> DEFINE claims == [client |-> code[k].client, resource |-> code[k].resource,
                          subject |-> code[k].subject, of |-> k,
                          iat |-> now, exp |-> now + RefreshLife]
    <3>1. refresh'[t] = claims
      BY <1>4, <2>2 DEF IssueTokens, TypeOK
    <3>2. refresh'[t] = Unsigned \/ refresh'[t] \in GrantClaims
      BY DEF TypeOK
    <3>3. claims.of = k /\ claims.subject = code[k].subject /\ claims.client = code[k].client
      OBVIOUS
    <3>4. Signed(code[k])
      BY <1>4 DEF RequestsHandleSigned, HandlesSigned, AtToken, Claims
    <3>5. code[k].client \in Clients
      BY <3>4 DEF Signed, TypeOK, GrantClaims
    <3>6. claims # Unsigned
      BY <3>5, OAuthAssumption DEF Unsigned
    <3> QED
      BY <3>1, <3>3, <3>6 DEF Signed
  <2>3. Die(r) \/ \E t \in Refreshes : IssueTokens(r, t)
    <3>1. Die(r) \/ Arrive(r) \/ Serve(r)
      BY <1>4, RequestsMove
    <3>2. ~ Arrive(r)
      BY <1>4 DEF Arrive, Authorize, Callback, Exchange, Begin, Idle, TypeOK
    <3>3. ~ (RequireUser(r) \/ BuildUpdate(r) \/ ConsumeCode(r) \/ Reissue(r) \/ RecordCode(r) \/ Redirect(r))
      BY <1>4 DEF RequireUser, BuildUpdate, ConsumeCode, Reissue, RecordCode, Redirect, Goto, Answer
    <3> QED
      BY <1>4, <3>1, <3>2, <3>3 DEF Serve, RecordState, SetCookie, ConsumeState, Identify, Learn, Lookup,
         Refuse, Authenticate, Goto, Answer
  <2> QED
    BY <2>1, <2>2, <2>3
<1> QED
  BY <1>1, <1>2, <1>3, <1>4 DEF CodeNotWasted

-----------------------------------------------------------------------------
\* The invariant holds at first, and every step keeps it.
LEMMA InvariantAtFirst == Init => IInv
<1> SUFFICES ASSUME Init PROVE IInv
  OBVIOUS
<1>1. TypeOK
  BY TypeInit
<1> QED
  BY <1>1, OAuthAssumption DEF Init, IInv, RequestsHandleSigned, HandlesSigned, CodesDescend,
     TokensDescend, AccessDescends,
     SentWhereAllowed, RowsComeFirst, OneSpends, AsksAfter, DatesAgree, CodeNotWasted, RemovedAreGone,
     Signed, Idle, SigningIn, Handing, AtToken, Nonces

LEMMA InvariantKept == IInv /\ [Next]_vars => IInv'
<1> SUFFICES ASSUME IInv, [Next]_vars PROVE IInv'
  OBVIOUS
<1>1. TypeOK'
  BY TypeStep DEF IInv
<1>2. Onward
  BY StepOnward DEF IInv
<1> QED
  BY <1>1, <1>2, HandledStep, CodesStep, TokensStep, AccessStep, SentStep, RowsStep, SpendsStep,
     AsksStep, DatesStep, WasteStep, RemovedStep DEF IInv

\* So it always holds.
LEMMA InvariantHolds == Spec => []IInv
  BY InvariantAtFirst, InvariantKept, PTL DEF Spec
-----------------------------------------------------------------------------
(* The stages of a sign-in. *)

\* A sign-in has been through a stage.
Passed(s, stage) ==
  \/ stage = 1 /\ Signed(pending[s])
  \/ stage = 2 /\ nonce[s] = "consumed"
  \/ stage = 3 /\ \E k \in Codes : Signed(code[k]) /\ code[k].of = s
  \/ stage = 4 /\ \E k \in Codes : Signed(code[k]) /\ code[k].of = s /\ nonce[k] = "consumed"
  \/ stage = 5 /\ \E k \in Codes : /\ Signed(code[k]) /\ code[k].of = s
                                   /\ \E t \in Refreshes : Signed(refresh[t]) /\ refresh[t].of = k

\* A set without two elements is counted by whether it has one.
LEMMA CountOne ==
  ASSUME NEW S, \A x, y \in S : x = y
  PROVE  Count(S) = IF S # {} THEN 1 ELSE 0
<1>1. CASE S = {}
  BY <1>1, FS_EmptySet DEF Count
<1>2. CASE S # {}
  <2>1. PICK x : S = {x}
    BY <1>2
  <2> QED
    BY <1>2, <2>1, FS_Singleton DEF Count
<1> QED
  BY <1>1, <1>2

Stages == [s \in SignIns |-> [stage \in 1..5 |-> IF Passed(s, stage) THEN 1 ELSE 0]]

\* The refinement mapping counts no stage twice.
LEMMA TimesAreStages == IInv => Times = Stages
<1> SUFFICES ASSUME IInv, NEW s \in SignIns PROVE Times[s] = Stages[s]
  BY DEF Times, Stages
<1> DEFINE A == {x \in {s} : Signed(pending[x])}
           B == {x \in {s} : nonce[x] = "consumed"}
           C == CodesOf(s)
           D == {k \in CodesOf(s) : nonce[k] = "consumed"}
           E == UNION {PairsOf(k) : k \in CodesOf(s)}
<1>1. Count(A) = IF Passed(s, 1) THEN 1 ELSE 0
  BY CountOne DEF Passed
<1>2. Count(B) = IF Passed(s, 2) THEN 1 ELSE 0
  BY CountOne DEF Passed
<1>3. \A k, l \in C : k = l
  BY DEF CodesOf, IInv, OneSpends
<1>4. Count(C) = IF Passed(s, 3) THEN 1 ELSE 0
  <2>1. C # {} <=> Passed(s, 3)
    BY DEF CodesOf, Passed
  <2> HIDE DEF C
  <2> QED
    BY <1>3, <2>1, CountOne
<1>5. Count(D) = IF Passed(s, 4) THEN 1 ELSE 0
  <2>1. D # {} <=> Passed(s, 4)
    BY DEF CodesOf, Passed
  <2>2. \A k, l \in D : k = l
    BY <1>3
  <2> HIDE DEF D
  <2> QED
    BY <2>1, <2>2, CountOne
<1>6. Count(E) = IF Passed(s, 5) THEN 1 ELSE 0
  <2>1. E # {} <=> Passed(s, 5)
    BY DEF CodesOf, PairsOf, Passed
  <2>2. \A t, u \in E : t = u
    BY <1>3 DEF PairsOf, IInv, OneSpends
  <2> HIDE DEF E
  <2> QED
    BY <2>1, <2>2, CountOne
<1>7. Times[s] = <<Count(A), Count(B), Count(C), Count(D), Count(E)>>
  BY DEF Times
<1> HIDE DEF A, B, C, D, E
<1> QED
  BY <1>1, <1>2, <1>4, <1>5, <1>6, <1>7 DEF Stages

\* A stage passed stays passed.
LEMMA StagesStay ==
  ASSUME IInv, Onward, NEW s \in SignIns, NEW stage \in 1..5, Passed(s, stage)
  PROVE  Passed(s, stage)'
  BY DEF IInv, Onward, Passed, Nonces, TokensDescend

\* A step takes one sign-in through the stage that comes next for it, or none.
LEMMA OneStage ==
  ASSUME IInv, TypeOK', RowsComeFirst', Onward, [Next]_vars
  PROVE  \/ \A s \in SignIns, stage \in 1..5 : Passed(s, stage)' <=> Passed(s, stage)
         \/ \E s \in SignIns, stage \in 1..5 :
              /\ ~ Passed(s, stage) /\ Passed(s, stage)'
              /\ stage > 1 => Passed(s, stage - 1)
              /\ \A u \in SignIns, other \in 1..5 :
                   <<u, other>> # <<s, stage>> => (Passed(u, other)' <=> Passed(u, other))
<1> DEFINE Goes(s, stage) ==
             /\ ~ Passed(s, stage) /\ Passed(s, stage)'
             /\ stage > 1 => Passed(s, stage - 1)
             /\ \A u \in SignIns, other \in 1..5 :
                  <<u, other>> # <<s, stage>> => (Passed(u, other)' <=> Passed(u, other))
<1>0. SignIns \subseteq Nonces /\ Codes \subseteq Nonces /\ SignIns \cap Codes = {}
  BY OAuthAssumption DEF Nonces
\* /authorize begins it.
<1>1. ASSUME NEW s \in SignIns, Signed(pending'[s]), ~ Signed(pending[s]) PROVE Goes(s, 1)
  <2>1. /\ \A u \in SignIns : u # s => pending'[u] = pending[u]
        /\ UNCHANGED <<code, refresh, nonce>>
    BY <1>1, PendingChanges DEF Authorize, Signed, IInv, TypeOK
  <2> QED
    BY <1>1, <2>1 DEF Passed, Signed
\* The callback spends its state.
<1>2. ASSUME NEW s \in SignIns, nonce'[s] = "consumed", nonce[s] # "consumed" PROVE Goes(s, 2)
  <2>1. /\ UNCHANGED credentials /\ nonce[s] = "fresh"
        /\ \A m \in Nonces : m # s => nonce'[m] = nonce[m]
    BY <1>0, <1>2, NonceMoves DEF IInv
  <2>2. Signed(pending[s])
    BY <2>1 DEF IInv, RowsComeFirst
  <2> QED
    BY <1>0, <1>2, <2>1, <2>2 DEF Passed, credentials, Signed
\* issue_code signs its code.
<1>3. ASSUME NEW k \in Codes, Signed(code'[k]), ~ Signed(code[k]) PROVE \E s \in SignIns : Goes(s, 3)
  <2>1. PICK r \in Requests :
          /\ req[r].pc = "lookup" /\ req[r].about \in SignIns /\ UNCHANGED <<pending, refresh, nonce>>
          /\ code'[k].of = req[r].about /\ \A l \in Codes : l # k => code'[l] = code[l]
    BY <1>3, NewCode DEF IInv
  <2>2. /\ nonce[req[r].about] = "consumed" /\ nonce[k] = "absent"
        /\ \A l \in Codes : Signed(code[l]) => code[l].of # req[r].about
    BY <1>3, <2>1 DEF IInv, OneSpends, RowsComeFirst
  <2>3. \A t \in Refreshes : Signed(refresh[t]) => refresh[t].of # k
    BY <1>3 DEF IInv, TokensDescend
  <2>4. PICK s \in SignIns : s = req[r].about
    BY <2>1
  <2>5. ~ Passed(s, 3) /\ Passed(s, 3)' /\ Passed(s, 2)
    BY <1>3, <2>1, <2>2, <2>4 DEF Passed, Signed
  <2>6. ASSUME NEW u \in SignIns, NEW other \in 1..5, <<u, other>> # <<s, 3>>
        PROVE  Passed(u, other)' <=> Passed(u, other)
    <3>1. CASE other \in {1, 2}
      BY <2>1, <3>1 DEF Passed, Signed
    <3>2. CASE other = 3
      BY <1>3, <2>1, <2>4, <2>6, <3>2 DEF Passed, Signed
    <3>3. CASE other = 4
      BY <1>3, <2>1, <2>2, <3>3 DEF Passed, Signed
    <3>4. CASE other = 5
      BY <1>3, <2>1, <2>3, <3>4 DEF Passed, Signed
    <3> QED
      BY <3>1, <3>2, <3>3, <3>4
  <2> QED
    BY <2>5, <2>6
\* The exchange spends the code.
<1>4. ASSUME NEW k \in Codes, nonce'[k] = "consumed", nonce[k] # "consumed" PROVE \E s \in SignIns : Goes(s, 4)
  <2>1. /\ UNCHANGED credentials /\ nonce[k] = "fresh"
        /\ \A m \in Nonces : m # k => nonce'[m] = nonce[m]
    BY <1>0, <1>4, NonceMoves DEF IInv
  <2>2. Signed(code[k])
    BY <2>1 DEF IInv, RowsComeFirst
  <2>3. code[k].of \in SignIns /\ \A l \in Codes : Signed(code[l]) /\ code[l].of = code[k].of => l = k
    BY <2>2 DEF IInv, CodesDescend, OneSpends
  <2>4. PICK s \in SignIns : s = code[k].of
    BY <2>3
  <2>5. ~ Passed(s, 4) /\ Passed(s, 4)' /\ Passed(s, 3)
    BY <1>4, <2>1, <2>2, <2>3, <2>4 DEF Passed, Signed, credentials
  <2>6. ASSUME NEW u \in SignIns, NEW other \in 1..5, <<u, other>> # <<s, 4>>
        PROVE  Passed(u, other)' <=> Passed(u, other)
    <3>1. CASE other = 4
      BY <1>0, <1>4, <2>1, <2>4, <2>6, <3>1 DEF Passed, Signed, credentials
    <3>2. CASE other # 4
      BY <1>0, <2>1, <3>2 DEF Passed, Signed, credentials
    <3> QED
      BY <3>1, <3>2
  <2> QED
    BY <2>5, <2>6
\* And issues the tokens.
<1>5. ASSUME NEW t \in Refreshes, Signed(refresh'[t]), ~ Signed(refresh[t]) PROVE \E s \in SignIns : Goes(s, 5)
  <2>1. PICK r \in Requests :
          LET k == req[r].about IN
          /\ req[r].pc = "issue_tokens" /\ k \in Codes /\ Signed(code[k])
          /\ UNCHANGED <<pending, code, nonce>> /\ refresh'[t].of = k
          /\ \A u \in Refreshes : u # t => refresh'[u] = refresh[u]
    BY <1>5, NewToken DEF IInv
  <2> DEFINE k == req[r].about
  <2>2. nonce[k] = "consumed" /\ \A u \in Refreshes : Signed(refresh[u]) => refresh[u].of # k
    BY <2>1 DEF IInv, OneSpends
  <2>3. code[k].of \in SignIns /\ \A l \in Codes : Signed(code[l]) /\ code[l].of = code[k].of => l = k
    BY <2>1 DEF IInv, CodesDescend, OneSpends
  <2>4. PICK s \in SignIns : s = code[k].of
    BY <2>3
  <2>5. ~ Passed(s, 5) /\ Passed(s, 5)' /\ Passed(s, 4)
    BY <1>5, <2>1, <2>2, <2>3, <2>4 DEF Passed, Signed
  <2>6. ASSUME NEW u \in SignIns, NEW other \in 1..5, <<u, other>> # <<s, 5>>
        PROVE  Passed(u, other)' <=> Passed(u, other)
    <3>1. CASE other = 5
      BY <1>5, <2>1, <2>4, <2>6, <3>1 DEF Passed, Signed
    <3>2. CASE other # 5
      BY <2>1, <3>2 DEF Passed, Signed
    <3> QED
      BY <3>1, <3>2
  <2> QED
    BY <2>5, <2>6
\* Any other step takes none anywhere.
<1>6. ASSUME \A s \in SignIns : Signed(pending'[s]) => Signed(pending[s]),
             \A n \in Nonces : nonce'[n] = "consumed" => nonce[n] = "consumed",
             \A k \in Codes : Signed(code'[k]) => Signed(code[k]),
             \A t \in Refreshes : Signed(refresh'[t]) => Signed(refresh[t]),
             NEW s \in SignIns, NEW stage \in 1..5
      PROVE  Passed(s, stage)' <=> Passed(s, stage)
  <2>1. Passed(s, stage)' => Passed(s, stage)
    BY <1>0, <1>6 DEF Passed, Signed, Onward
  <2> QED
    BY <2>1, StagesStay
<1> QED
  BY <1>0, <1>1, <1>2, <1>3, <1>4, <1>5, <1>6 DEF Nonces

\* At first no sign-in has been through any stage.
LEMMA GrantInit == Init => Grant!Init
<1> SUFFICES ASSUME Init PROVE Times = [s \in SignIns |-> [stage \in 1..5 |-> 0]]
  BY DEF Grant!Init
<1>1. \A s \in SignIns, stage \in 1..5 : ~ Passed(s, stage)
  BY DEF Init, Passed, Signed, Nonces
<1> QED
  BY <1>1, InvariantAtFirst, TimesAreStages DEF Stages

Mapped == IInv /\ Times = Stages

\* A step of the server is a stage of one sign-in, or a stutter, of the grant.
LEMMA GrantStep == Mapped /\ Mapped' /\ [Next]_vars => [Grant!Next]_Times
<1> SUFFICES ASSUME IInv, IInv', Times = Stages, Times' = Stages', [Next]_vars PROVE Grant!Next \/ UNCHANGED Times
  BY DEF Mapped
<1>1. Onward /\ TypeOK' /\ RowsComeFirst'
  BY StepOnward DEF IInv
<1>2. CASE \A s \in SignIns, stage \in 1..5 : Passed(s, stage)' <=> Passed(s, stage)
  BY <1>2 DEF Stages
<1>3. ASSUME NEW s \in SignIns, NEW stage \in 1..5,
             ~ Passed(s, stage), Passed(s, stage)', stage > 1 => Passed(s, stage - 1),
             \A u \in SignIns, other \in 1..5 :
               <<u, other>> # <<s, stage>> => (Passed(u, other)' <=> Passed(u, other))
      PROVE  Grant!Reach(s, stage)
  <2>1. Times[s][stage] = 0 /\ (stage > 1 => Times[s][stage - 1] = 1)
    BY <1>3 DEF Stages
  <2>2. Stages' = [Stages EXCEPT ![s][stage] = 1]
    BY <1>3 DEF Stages
  <2> QED
    BY <2>1, <2>2 DEF Grant!Reach
<1> QED
  BY <1>1, <1>2, <1>3, OneStage DEF Grant!Next
-----------------------------------------------------------------------------
(* The end of a client. *)

\* Nobody gets past the authentication of a client that has no row.
LEMMA PastAuthentication ==
  ASSUME IInv, [Next]_vars, NEW r \in Requests, req'[r] # req[r],
         req'[r].pc \in {"require_user", "user_found", "consume_code", "issue_tokens", "reissue"}
  PROVE  /\ req'[r].about = req[r].about /\ req[r].pc \in AtToken
         /\ \/ req[r].pc \in {"require_user", "user_found", "consume_code"}
            \/ redirects[Claims(req[r].about).client] # {}
<1>1. req'[r].about = req[r].about /\ req[r].pc \in {"authenticate", "require_user", "user_found", "consume_code"}
  BY AMove DEF IInv, MovesOn, Told
<1>2. CASE req[r].pc = "authenticate"
  <2>1. \E proven \in BOOLEAN : Authenticate(r, proven)
    <3>1. ~ Die(r)
      BY DEF Die, Answer, Idle, IInv, TypeOK
    <3>2. Arrive(r) \/ Serve(r)
      BY <3>1, RequestsMove DEF IInv
    <3> QED
      BY <1>2, <3>2 DEF Arrive, Serve, Authorize, Callback, Exchange, RecordState, SetCookie,
         ConsumeState, Identify, Learn, Lookup, RecordCode, Redirect, Refuse, RequireUser,
         BuildUpdate, ConsumeCode,
         IssueTokens, Reissue, Begin, Goto, Answer
  <2>2. ASSUME NEW proven, Authenticate(r, proven) PROVE redirects[Claims(req[r].about).client] # {}
    BY <2>2 DEF Authenticate, HasRow, Answer, Idle, IInv, TypeOK
  <2> QED
    BY <1>1, <1>2, <2>1, <2>2 DEF AtToken
<1> QED
  BY <1>1, <1>2 DEF AtToken

\* A client that has ended stays so.
LEMMA EndStays ==
  ASSUME IInv, Onward, [Next]_vars, NEW c \in Clients, Ended(c)
  PROVE  Ended(c)'
<1>1. c \in removed'
  BY ClientsChange DEF Ended, Remove, Register, Edit
<1>2. ASSUME NEW r \in Requests,
             req'[r].pc \in {"require_user", "user_found", "consume_code", "issue_tokens", "reissue"}
      PROVE  Claims(req[r].about)'.client # c
  <2> DEFINE x == req[r].about
  <2>1. x \in Codes \cup Refreshes /\ Signed(Claims(x)) /\ req'[r].about = x
    BY <1>2, PastAuthentication DEF IInv, RequestsHandleSigned, HandlesSigned, AtToken
  <2>2. Claims(x).client # c
    BY <1>2, PastAuthentication DEF Ended, IInv, RemovedAreGone
  <2>3. (IF x \in Codes THEN code'[x] ELSE refresh'[x]) = Claims(x)
    BY <2>1 DEF Claims, Onward
  <2> QED
    BY <2>1, <2>2, <2>3 DEF Claims
<1> QED
  BY <1>1, <1>2 DEF Ended

\* And gets no token.
LEMMA NoTokenAfterwards ==
  ASSUME IInv, TypeOK', Onward, [Next]_vars, NEW c \in Clients, Ended(c)
  PROVE  TokensOf(c)' = TokensOf(c)
<1>1. ASSUME NEW t \in Refreshes PROVE refresh'[t].client = c <=> refresh[t].client = c
  <2>1. CASE Signed(refresh[t])
    BY <2>1 DEF Onward
  <2>2. CASE ~ Signed(refresh'[t])
    BY <2>1, <2>2 DEF Signed
  <2>3. CASE ~ Signed(refresh[t]) /\ Signed(refresh'[t])
    <3>1. PICK r \in Requests : /\ req[r].pc = "issue_tokens" /\ req[r].about \in Codes
                                /\ refresh'[t].client = code[req[r].about].client
      BY <2>3, NewToken DEF IInv
    <3>2. refresh'[t].client # c
      BY <3>1 DEF Ended, Claims
    <3> QED
      BY <2>3, <3>2, OAuthAssumption DEF Signed, Unsigned
  <2> QED
    BY <2>1, <2>2, <2>3
<1>2. access \subseteq access'
  BY TokensChange DEF IssueTokens, Reissue
<1>3. ASSUME NEW a \in access', a \notin access PROVE a.client # c
  <2>1. ASSUME NEW r \in Requests, NEW t \in Refreshes, IssueTokens(r, t) PROVE a.client # c
    <3>1. a.client = code[req[r].about].client
      BY <1>3, <2>1 DEF IssueTokens, AccessFor
    <3>2. req[r].pc = "issue_tokens" /\ req[r].about \in Codes
      BY <2>1 DEF IssueTokens, Answer, IInv, RequestsHandleSigned, HandlesSigned
    <3> QED
      BY <3>1, <3>2 DEF Ended, Claims
  <2>2. ASSUME NEW r \in Requests, Reissue(r) PROVE a.client # c
    <3>1. a.client = refresh[req[r].about].client
      BY <1>3, <2>2 DEF Reissue, AccessFor
    <3>2. req[r].pc = "reissue" /\ req[r].about \in Refreshes
      BY <2>2 DEF Reissue, Answer, IInv, RequestsHandleSigned, HandlesSigned
    <3> QED
      BY <3>1, <3>2, OAuthAssumption DEF Ended, Claims
  <2> QED
    BY <1>3, <2>1, <2>2, TokensChange
<1> QED
  BY <1>1, <1>2, <1>3 DEF TokensOf
-----------------------------------------------------------------------------
(* The theorems. *)

\* The credentials, rows, cookies and requests keep their types: claims are signed
\* whole, and a request only ever handles credentials that exist.
THEOREM TypeCorrect == Spec => []TypeOK
<1>1. IInv => TypeOK
  BY DEF IInv
<1> QED
  BY <1>1, InvariantHolds, PTL

\* However often, and on however many workers, the callback of a state and the
\* exchange of a code are repeated, OAuthNonceManager.consume lets one through: a
\* state yields one code, a code one pair of tokens.
THEOREM IssuedOnce == Spec => []SingleUse
<1>1. IInv => SingleUse
  BY DEF IInv, OneSpends, CodesDescend, TokensDescend, SingleUse
<1> QED
  BY <1>1, InvariantHolds, PTL

\* Through the three copies of its claims a token speaks for the Discord account of
\* the browser the sign-in was begun in, to its client, and its code went where
\* that client's policy allows.
THEOREM SpeaksForItsUser == Spec => []Provenance
<1>1. IInv => Provenance
  <2> SUFFICES ASSUME IInv PROVE Provenance
    OBVIOUS
  <2>1. ASSUME NEW t \in Refreshes, Signed(refresh[t])
        PROVE  LET k == refresh[t].of
                   s == code[k].of
               IN  /\ k \in Codes /\ Signed(code[k]) /\ s \in SignIns /\ Signed(pending[s])
                   /\ refresh[t].client = pending[s].client
                   /\ refresh[t].resource = pending[s].resource
                   /\ refresh[t].subject = AccountOf[pending[s].by]
                   /\ RedirectAllowed(pending[s].redirect)
                   /\ \A g \in given : g[1] = k => g[2] = pending[s].redirect
    BY <2>1 DEF IInv, TokensDescend, CodesDescend, SentWhereAllowed
  <2> QED
    BY <2>1 DEF IInv, AccessDescends, Provenance
<1> QED
  BY <1>1, InvariantHolds, PTL

\* consume spends a nonce only for a request that read the clock within the lifetime
\* of the credential, however many awaits before that it was loaded; the UPDATE may
\* come later, and what the nonce is spent for is dated after it.
THEOREM InTime == Spec => []Chronology
<1>1. IInv => Chronology
  BY DEF IInv, CodesDescend, DatesAgree, SpentInTime, Chronology
<1> QED
  BY <1>1, InvariantHolds, PTL

\* A code is spent last of all: unless the request died its tokens are issued or
\* about to be.
THEOREM SpentForTokens == Spec => []CodeNotWasted
<1>1. IInv => CodeNotWasted
  BY DEF IInv
<1> QED
  BY <1>1, InvariantHolds, PTL

\* The row of a code is written before its client is told of it.
THEOREM RowBeforeCode == Spec => []GivenIsRecorded
<1>1. IInv => GivenIsRecorded
  BY DEF IInv, TypeOK, RowsComeFirst, SentWhereAllowed, CodesDescend, GivenIsRecorded
<1> QED
  BY <1>1, InvariantHolds, PTL

\* Once the staff have deleted a client, and no request of its own is past its
\* authentication, it gets no token any more and does not come back.
THEOREM DeletedForGood == Spec => RemovedForGood
<1>1. IInv /\ IInv' /\ [Next]_vars => [\A c \in Clients : Ended(c) => Ended(c)' /\ TokensOf(c)' = TokensOf(c)]_vars
  <2> SUFFICES ASSUME IInv, IInv', [Next]_vars, NEW c \in Clients, Ended(c)
               PROVE  Ended(c)' /\ TokensOf(c)' = TokensOf(c)
    OBVIOUS
  <2>1. Onward /\ TypeOK'
    BY StepOnward DEF IInv
  <2> QED
    BY <2>1, EndStays, NoTokenAfterwards
<1> QED
  BY <1>1, InvariantHolds, PTL DEF Spec, RemovedForGood

\* A sign-in goes through the stages of a one-time grant, each at most once, in
\* order, in whatever way its requests interleave, die or are repeated.
THEOREM GrantKept == Spec => KeepsGrant
<1>1. Init => Grant!Init
  BY GrantInit
<1>2. IInv => Mapped
  BY TimesAreStages DEF Mapped
<1>3. Mapped /\ Mapped' /\ [Next]_vars => [Grant!Next]_Times
  BY GrantStep
<1>4. Spec => Grant!Init /\ [][Grant!Next]_Times
  BY <1>1, <1>2, <1>3, InvariantHolds, PTL DEF Spec
<1> QED
  BY <1>4 DEF KeepsGrant, Grant!Spec
=============================================================================
