------------------------------ MODULE Consent ------------------------------
(***************************************************************************)
(* /oauth/authorize (internal/server/oauth.go): what an app may ask for,   *)
(* the approval page and its form, the remembered approvals                *)
(* (oauth_consents) that let an app in without asking again, and           *)
(* disconnecting an app (handleRevokeApp).  Requests are served by any     *)
(* number of handlers at once; one step is one SQL statement with the      *)
(* local decisions before the next, adjacent reads taken together.         *)
(*                                                                         *)
(* A browser is the account its session cookie is of and the approval page *)
(* it has open; Sessions has how sessions come and go.  The form's token   *)
(* is a hash of the session cookie, so it is good as long as the browser   *)
(* has the session the page was rendered in: page.fresh.                   *)
(***************************************************************************)
EXTENDS Boot

CONSTANTS Users, Browsers, Procs,
          Verifiers,    \* PKCE verifiers
          Https,        \* the redirect URIs among Uris that are https
          Queries,      \* the queries apps send users to /oauth/authorize with
          Codes         \* codes that can be issued (a bound)

S256(v) == <<"S256", v>>
Challenges == Verifiers \cup {S256(v) : v \in Verifiers} \cup {None}

Query == [client : Clients, redirect : Uris \cup {None}, scopes : SUBSET Scopes,
          challenge : Challenges, method : {"", "S256", "plain"},
          prompt : {"", "none", "login", "consent"}]

ASSUME ConsentAssumption ==
    /\ Https \subseteq Uris
    /\ None \notin Users \cup Verifiers
    /\ Queries \subseteq Query

VARIABLES session,   \* session[b]: the account browser b is signed in to
          page,      \* page[b]: the approval page b has open
          call,      \* call[h]: where handler h is and what it read
          consent,   \* consent[u][c]: the scopes in the row of oauth_consents
          codes,     \* the rows of oauth_codes
          approved,  \* history: the scopes u ever approved for c on a page shown to u
          stands,    \* history: those recorded since u last disconnected c
          racing     \* history: an approval overlapped another or a disconnection

consentVars == <<session, page, call, consent, codes, approved, stands, racing>>

(* A parsed request.  public is history: what the app was at that moment.  *)
Request == [client : Clients, redirect : Uris \cup {None}, scopes : SUBSET Scopes,
            challenge : Challenges, method : {"", "S256", "plain"}, public : BOOLEAN]
Page == [request : Request, shown : Users, fresh : BOOLEAN]
Call == [pc : {"merge", "issue"}, user : Users, request : Request, granted : SUBSET Scopes]
Code == [state : {"live", "dead"}, user : Users, request : Request]

Free(h) == call[h] = None
Merging(h, u, c) == ~Free(h) /\ call[h].pc = "merge" /\ call[h].user = u /\ call[h].request.client = c

ConsentInit ==
    /\ session = [b \in Browsers |-> None]
    /\ page = [b \in Browsers |-> None]
    /\ call = [h \in Procs |-> None]
    /\ consent = [u \in Users |-> [c \in Clients |-> {}]]
    /\ codes = [k \in Codes |-> None]
    /\ approved = [u \in Users |-> [c \in Clients |-> {}]]
    /\ stands = [u \in Users |-> [c \in Clients |-> {}]]
    /\ racing = [u \in Users |-> [c \in Clients |-> FALSE]]

-----------------------------------------------------------------------------
(* parseAuthRequest: what the request asks for, with what it leaves out    *)
(* filled in from the app's row, and whether the app may.                  *)

ParsedAsAsked(q) ==
    [client |-> q.client, redirect |-> q.redirect, scopes |-> q.scopes, challenge |-> q.challenge,
     method |-> q.method, public |-> ~registry[q.client].confidential]

Parsed(q) ==
    LET app == registry[q.client] IN
    [client |-> q.client,
     redirect |-> IF q.redirect = None /\ Cardinality(app.redirects) = 1
                  THEN CHOOSE u \in app.redirects : TRUE ELSE q.redirect,
     scopes |-> IF q.scopes = {} THEN app.scopes ELSE q.scopes,
     challenge |-> q.challenge,
     method |-> IF q.method = "" /\ q.challenge # None THEN "S256" ELSE q.method,
     public |-> ~app.confidential]

RedirectIsInterceptable(uri) == uri \notin Https

(* PKCE: a public app, and any app whose redirect another program on the   *)
(* device can claim, sends a hashed challenge.                             *)
BoundIfPublic(r) ==
    ~registry[r.client].confidential => r.challenge # None /\ r.method = "S256"

BoundToVerifier(r) ==
    ~registry[r.client].confidential \/ RedirectIsInterceptable(r.redirect) =>
        r.challenge # None /\ r.method = "S256"

(* catalogue: the scopes the replica that answers knows.                   *)
MayAsk(r, catalogue) ==
    /\ r.redirect \in registry[r.client].redirects
    /\ r.scopes \subseteq catalogue \cap registry[r.client].scopes
    /\ BoundToVerifier(r)

-----------------------------------------------------------------------------
(* A session begins or ends in browser b: what page it has open is stale.  *)
Stale(b) == page' = [page EXCEPT ![b] = IF @ = None THEN None ELSE [@ EXCEPT !.fresh = FALSE]]

SignIn(b, u) ==
    /\ session' = [session EXCEPT ![b] = u]
    /\ Stale(b)
    /\ UNCHANGED <<work, call, consent, codes, approved, stands, racing>>

SignOut(b) ==
    /\ session[b] # None
    /\ session' = [session EXCEPT ![b] = None]
    /\ Stale(b)
    /\ UNCHANGED <<work, call, consent, codes, approved, stands, racing>>

(* prompt=login ends the session and asks for another.                     *)
AskLogin(b, q, catalogue) ==
    /\ MayAsk(Parsed(q), catalogue)
    /\ q.prompt = "login"
    /\ SignOut(b)

(* HasConsent: every scope asked for is in the row.                        *)
HasConsent(u, c, S) == S \subseteq consent[u][c]

(* Approved before: on to issueCode without a word.                        *)
LetIn(h, b, q, catalogue) ==
    LET r == Parsed(q) IN
    /\ Free(h) /\ Count
    /\ MayAsk(r, catalogue)
    /\ session[b] # None /\ q.prompt \in {"", "none"}
    /\ HasConsent(session[b], q.client, r.scopes)
    /\ call' = [call EXCEPT ![h] = [pc |-> "issue", user |-> session[b], request |-> r, granted |-> {}]]
    /\ UNCHANGED <<session, page, consent, codes, approved, stands, racing>>

(* The approval page, for an account that has not or that is to be asked   *)
(* again.  What it posts back is the request as parsed.                    *)
AskApproval(b, q, catalogue) ==
    LET r == Parsed(q) IN
    /\ Count
    /\ MayAsk(r, catalogue)
    /\ session[b] # None /\ q.prompt \in {"", "consent"}
    /\ q.prompt = "consent" \/ ~HasConsent(session[b], q.client, r.scopes)
    /\ page' = [page EXCEPT ![b] = [request |-> r, shown |-> session[b], fresh |-> TRUE]]
    /\ UNCHANGED <<session, call, consent, codes, approved, stands, racing>>

(* handleAuthorizeDecision, approved, up to SaveConsent's read: whoever is *)
(* signed in now, if the form's token is of this session, for what the     *)
(* posted fields ask under the app's row of now.  The page may be posted   *)
(* again.                                                                  *)
Approves(h, b, r, granted) ==
    LET u == session[b] c == r.client IN
    /\ call' = [call EXCEPT ![h] = [pc |-> "merge", user |-> u, request |-> r, granted |-> granted]]
    /\ approved' = [approved EXCEPT ![page[b].shown][c] = @ \cup r.scopes]
    /\ racing' = [racing EXCEPT ![u][c] = @ \/ \E i \in Procs : Merging(i, u, c)]
    /\ UNCHANGED <<session, page, consent, codes, stands>>

Posted(b) == Parsed([client |-> page[b].request.client, redirect |-> page[b].request.redirect,
                     scopes |-> page[b].request.scopes, challenge |-> page[b].request.challenge,
                     method |-> page[b].request.method])

DecideUnchecked(h, b, catalogue) ==
    /\ Free(h) /\ Count
    /\ page[b] # None /\ session[b] # None
    /\ MayAsk(Posted(b), catalogue)
    /\ Approves(h, b, Posted(b), consent[session[b]][page[b].request.client])

Decide(h, b, catalogue) ==
    /\ Free(h) /\ Count
    /\ page[b] # None /\ session[b] # None
    /\ page[b].fresh
    /\ MayAsk(Posted(b), catalogue)
    /\ Approves(h, b, Posted(b), consent[session[b]][page[b].request.client])

(* SaveConsent's write: the scopes read before and the new ones.           *)
MergedNewOnly(h) == call[h].request.scopes
Merged(h) == call[h].granted \cup call[h].request.scopes

SaveConsent(h) ==
    /\ ~Free(h) /\ call[h].pc = "merge"
    /\ LET u == call[h].user c == call[h].request.client IN
       /\ consent' = [consent EXCEPT ![u][c] = Merged(h)]
       /\ stands' = [stands EXCEPT ![u][c] = @ \cup call[h].request.scopes]
    /\ call' = [call EXCEPT ![h].pc = "issue"]
    /\ UNCHANGED <<work, session, page, codes, approved, racing>>

(* issueCode: SaveCode.                                                    *)
IssueCode(h) ==
    /\ ~Free(h) /\ call[h].pc = "issue"
    /\ \E k \in Codes :
          /\ codes[k] = None
          /\ codes' = [codes EXCEPT ![k] =
                [state |-> "live", user |-> call[h].user, request |-> call[h].request]]
    /\ call' = [call EXCEPT ![h] = None]
    /\ UNCHANGED <<work, session, page, consent, approved, stands, racing>>

(* A statement fails, or the browser hangs up: what was written stays.     *)
Die(h) ==
    /\ ~Free(h)
    /\ call' = [call EXCEPT ![h] = None]
    /\ UNCHANGED <<work, session, page, consent, codes, approved, stands, racing>>

(* handleRevokeApp: RevokeConsent, one transaction; TokenGrants has the    *)
(* refresh tokens it revokes.                                              *)
RevokeConsent(b, c) ==
    LET u == session[b] IN
    /\ Count
    /\ u # None
    /\ consent' = [consent EXCEPT ![u][c] = {}]
    /\ stands' = [stands EXCEPT ![u][c] = {}]
    /\ racing' = [racing EXCEPT ![u][c] = \E h \in Procs : Merging(h, u, c)]
    /\ UNCHANGED <<session, page, call, codes, approved>>

-----------------------------------------------------------------------------
ConsentTypeOK ==
    /\ session \in [Browsers -> Users \cup {None}]
    /\ page \in [Browsers -> Page \cup {None}]
    /\ call \in [Procs -> Call \cup {None}]
    /\ consent \in [Users -> [Clients -> SUBSET Scopes]]
    /\ codes \in [Codes -> Code \cup {None}]
    /\ \A k \in Codes : codes[k] # None => codes[k].request.scopes # {} /\ codes[k].request.redirect # None

(* Outside a race the row is exactly what the user approved and has not    *)
(* disconnected since: SaveConsent, which reads, merges and writes back in  *)
(* two statements, loses an approval or brings a disconnected app's scopes  *)
(* back only if two approvals of the pair overlapped, or the disconnection  *)
(* came between the read and the write.                                     *)
ConsentStands ==
    \A u \in Users, c \in Clients : ~racing[u][c] => consent[u][c] = stands[u][c]
=============================================================================
