--------------------------- MODULE Authorization ---------------------------
(***************************************************************************)
(* An app signs a user in: the replicas of Boot answer the requests of     *)
(* Consent, exchange the codes at /oauth/token, sign tokens with the key   *)
(* each replica holds, and answer /oauth/userinfo for tokens signed by     *)
(* any of them.  An exchange is one step here; TokenGrants has its         *)
(* statements, the refresh tokens and the accounts that are disabled.      *)
(* Tokens do not expire: what holds of a token here holds while it lasts.  *)
(***************************************************************************)
EXTENDS Consent

VARIABLES issued     \* the tokens signed so far

vars == <<bootVars, consentVars, issued>>

(* What a token may say of its user.                                       *)
IdClaims == {"name", "email", "email_verified", "picture"}

(* The claims, tells being those about the user, and history: proof is     *)
(* what the exchange was backed by, exposed whether the code could be read *)
(* by a bystander.                                                         *)
Token == [kid : Kids, typ : {"access", "id"}, user : Users \cup {None}, client : Clients,
          scopes : SUBSET Scopes, tells : SUBSET IdClaims,
          proof : SUBSET {"secret", "verifier"}, exposed : BOOLEAN]

Init == BootInit /\ ConsentInit /\ issued = {}

-----------------------------------------------------------------------------
(* authenticateClient: a public app by its id alone, a confidential one by *)
(* its secret, never by none.  Throttle has the lockout of a caller.       *)
HasSecret(c, secret) == secret # None /\ secret = registry[c].secret

AuthenticateClient(c, secret) ==
    /\ registry[c] # Unregistered
    /\ registry[c].confidential => HasSecret(c, secret)

(* tokens.VerifyPKCE                                                       *)
VerifyPKCE(challenge, method, verifier) ==
    CASE challenge = None -> verifier = None
      [] challenge # None /\ verifier = None -> FALSE
      [] challenge # None /\ verifier # None /\ method \in {"S256", ""} -> challenge = S256(verifier)
      [] OTHER -> challenge = verifier

Matches(code, c, redirect, verifier) ==
    /\ code.request.client = c
    /\ redirect \in {None, code.request.redirect}
    /\ VerifyPKCE(code.request.challenge, code.request.method, verifier)

(* History: a bystander may see the code, and no secret protects it.       *)
Exposed(r) == r.public \/ RedirectIsInterceptable(r.redirect)

(* writeTokenResponse: the access token and, for openid, the id token,     *)
(* which names no scopes and tells all it can of the user, whatever other  *)
(* scopes there are.                                                       *)
Signed(n, code, c, proof) ==
    LET access == [kid |-> replica[n].signs, typ |-> "access", user |-> code.user, client |-> c,
                   scopes |-> code.request.scopes, tells |-> {}, proof |-> proof,
                   exposed |-> Exposed(code.request)] IN
    {access} \cup IF "openid" \in access.scopes
                  THEN {[access EXCEPT !.typ = "id", !.scopes = {}, !.tells = IdClaims]} ELSE {}

(* grantAuthorizationCode: whatever does not match is found out after the  *)
(* code has been consumed.                                                 *)
Exchange(n, k, c, secret, redirect, verifier) ==
    LET proof == {p \in {"secret", "verifier"} :
                    IF p = "secret" THEN HasSecret(c, secret)
                    ELSE verifier # None /\ codes[k].request.challenge = S256(verifier)} IN
    /\ AuthenticateClient(c, secret)
    /\ codes[k] # None /\ codes[k].state = "live"
    /\ codes' = [codes EXCEPT ![k].state = "dead"]
    /\ issued' = IF Matches(codes[k], c, redirect, verifier)
                 THEN issued \cup Signed(n, codes[k], c, proof) ELSE issued
    /\ UNCHANGED <<work, session, page, call, consent, approved, stands, racing>>

(* grantClientCredentials: a service token, with no user behind it.        *)
ServiceToken(n, c, secret, want) ==
    LET scopes == IF want = {} THEN registry[c].scopes ELSE want IN
    /\ Count
    /\ AuthenticateClient(c, secret)
    /\ registry[c].confidential
    /\ scopes \subseteq registry[c].scopes
    /\ issued' = issued \cup {[kid |-> replica[n].signs, typ |-> "access", user |-> None, client |-> c,
                               scopes |-> scopes, tells |-> {}, proof |-> {"secret"}, exposed |-> FALSE]}
    /\ UNCHANGED <<session, page, call, consent, codes, approved, stands, racing>>

(* A code expires unused.                                                  *)
ExpireCode(k) ==
    /\ codes[k] # None /\ codes[k].state = "live"
    /\ codes' = [codes EXCEPT ![k].state = "dead"]
    /\ UNCHANGED <<work, session, page, call, consent, approved, stands, racing, issued>>

-----------------------------------------------------------------------------
(* Keyring.Verify at replica n, and bearer: an id token is no credential.  *)
Verify(n, t) == t.kid \in replica[n].ring
Bearer(n, t) == Verify(n, t) /\ t.typ = "access"

(* handleUserInfo: what replica n tells of the user; a service token has    *)
(* none.                                                                   *)
Fields(S) ==
    {"name", "picture", "is_admin", "created_at"}
        \cup (IF "email" \in S THEN {"email", "email_verified"} ELSE {})
        \cup (IF "profile" \in S THEN {"phone", "preferred_username", "phone_verified"} ELSE {})
        \cup (IF "wallet" \in S THEN {"wallet"} ELSE {})

UserInfo(n, t) == IF Bearer(n, t) /\ t.user # None THEN Fields(t.scopes) ELSE {}

-----------------------------------------------------------------------------
Authorize(n) ==
    LET catalogue == replica[n].config.catalogue IN
    \E b \in Browsers, q \in Queries :
        \/ AskLogin(b, q, catalogue)
        \/ AskApproval(b, q, catalogue)
        \/ \E h \in Procs : LetIn(h, b, q, catalogue)

Decision(n) ==
    \E h \in Procs, b \in Browsers : Decide(h, b, replica[n].config.catalogue)

Disconnect == \E b \in Browsers, c \in Clients : RevokeConsent(b, c)

TokenRequest(n) ==
    \E c \in Clients, secret \in Secrets \cup {None} :
        \/ \E k \in Codes, redirect \in Uris \cup {None}, verifier \in Challenges :
              Exchange(n, k, c, secret, redirect, verifier)
        \/ \E want \in SUBSET Scopes : ServiceToken(n, c, secret, want)

Handling ==
    \/ \E h \in Procs : SaveConsent(h) \/ IssueCode(h) \/ Die(h)
    \/ \E b \in Browsers : SignOut(b) \/ \E u \in Users : SignIn(b, u)

(* A request is answered by a replica that is up; what it reads of the     *)
(* boot's state is registry, its own catalogue and its own keys.           *)
Serve ==
    /\ \/ \E n \in Replicas : Up(n) /\ (Authorize(n) \/ Decision(n)) /\ UNCHANGED issued
       \/ \E n \in Replicas : Up(n) /\ TokenRequest(n)
       \/ Disconnect /\ UNCHANGED issued
       \/ Handling /\ UNCHANGED issued
       \/ \E k \in Codes : ExpireCode(k)
    /\ UNCHANGED <<keys, registry, replica>>

Next ==
    \/ BootNext /\ UNCHANGED <<consentVars, issued>>
    \/ Serve

Spec == Init /\ [][Next]_vars

-----------------------------------------------------------------------------
(* Every row, page, handler and token is well formed; no code is without a *)
(* redirect and scopes; a started replica has a signing key of its ring.   *)
TypeOK == BootTypeOK /\ ConsentTypeOK /\ issued \in SUBSET Token

(* What the app holding token t reads of its user: in t, and with t from   *)
(* /oauth/userinfo at replica n.                                           *)
Learns(n, t) == t.tells \cup UserInfo(n, t)

(* No app ever goes beyond what a user approved for that app, on a page    *)
(* shown to that user: it has a code or a token only after an approval,    *)
(* with scopes that were approved; an id token's claims (name, address,    *)
(* picture) only if openid was; and from /oauth/userinfo the fields that   *)
(* the approved scopes open, name and picture being opened by any.  This   *)
(* whatever pages are open in whose browser, whoever has signed in since,  *)
(* and however approvals and disconnections overlap.  EmailNeedsItsScope   *)
(* is what it does not say.                                                *)
OnlyWhatWasApproved ==
    /\ \A k \in Codes : codes[k] # None =>
          codes[k].request.scopes \subseteq approved[codes[k].user][codes[k].request.client]
    /\ \A t \in issued : t.user # None =>
          LET S == approved[t.user][t.client] IN
          /\ S # {} /\ t.scopes \subseteq S
          /\ t.tells # {} => "openid" \in S
          /\ \A n \in Replicas : UserInfo(n, t) \subseteq Fields(S)

(* "Your email address", the approval page says of the email scope: an app *)
(* reads a user's address, in a token or from /oauth/userinfo, only if the *)
(* user approved that scope for it.  handleUserInfo asks for the scope;    *)
(* writeTokenResponse puts the address in every id token.                  *)
EmailNeedsItsScope ==
    \A t \in issued, n \in Replicas :
        t.user # None /\ "email" \in Learns(n, t) => "email" \in approved[t.user][t.client]

(* A code that a bystander could pick up, one of a public app or one sent  *)
(* to a custom scheme or to loopback, is exchanged only with the verifier   *)
(* whose hash the app sent, whatever has become of the app's registration   *)
(* since: the code in the redirect and the authorize URL are not enough.    *)
ProvenExchange ==
    \A t \in issued : t.exposed => "verifier" \in t.proof

(* "The rest keep already-issued tokens valid" (ActiveSigningKeys): a       *)
(* replica that loads its keys trusts every token any replica has signed    *)
(* until then, the tokens of a replica that started with it included.       *)
TrustedWhenRead ==
    [][\A n \in Replicas : replica[n].ring = {} /\ replica'[n].ring # {} =>
          \A t \in issued : t.kid \in replica'[n].ring]_vars
=============================================================================
