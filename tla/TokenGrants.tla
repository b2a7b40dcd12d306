---------------------------- MODULE TokenGrants ----------------------------
(***************************************************************************)
(* Authorization codes and refresh tokens: /oauth/token and /oauth/revoke  *)
(* (internal/server/oauth.go), what signs an account or an app out         *)
(* (password change, admin disable, the reset command, forgetting an app)  *)
(* and the rows they share (internal/store/store.go).  How a code comes to *)
(* be issued (the consent) is not part of it: any code may be.             *)
(*                                                                         *)
(* A handler is a sequence of SQL statements that are NOT one transaction; *)
(* one step is one statement together with the local decisions before the  *)
(* next.  Handlers of one replica or of several are the same thing here:   *)
(* everything they share is in the database.  A request is answered for    *)
(* the client it authenticates as; what the redirect_uri check and PKCE    *)
(* compare is abstracted to whether they match.                            *)
(*                                                                         *)
(* A row that can no longer be used is "dead" (revoked or expired): no     *)
(* statement tells the two apart.  "gone" is a dead row that Cleanup has   *)
(* deleted.  A login is one authorization code (or one token older than    *)
(* family_id) and everything rotated out of it.  The code does not store   *)
(* it: grant.login and the history cut are what the properties speak of.   *)
(***************************************************************************)
EXTENDS Naturals

CONSTANTS Users, Clients, Scopes,
          Codes,    \* codes that can be issued (a bound)
          Tokens,   \* refresh tokens that can be issued (a bound)
          Legacy,   \* the tokens among them that were issued without family_id
          Procs,    \* request handlers
          Watched,  \* which events the history cut records
          None

ASSUME GrantsAssumption ==
    /\ Legacy \subseteq Tokens
    /\ Codes \cap Tokens = {}
    /\ None \notin Codes \cup Tokens \cup Users \cup Clients

Logins == Codes \cup Legacy

VARIABLES active,    \* active[u]: users.is_active
          codes,     \* rows of oauth_codes
          tokens,    \* rows of oauth_refresh_tokens
          call,      \* call[h]: where handler h is and what it read
          cut        \* history: what has revoked the tokens of each login

vars == <<active, codes, tokens, call, cut>>

Grant == [user : Users \cup {None}, client : Clients \cup {None}, scopes : SUBSET Scopes,
          login : Logins \cup {None}]
NoGrant == [user |-> None, client |-> None, scopes |-> {}, login |-> None]

Row == [state : {"unused", "live", "dead", "gone"}, grant : Grant,
        family : Tokens \cup {None}]

PC == {"idle", "taken", "save", "replay", "disabling"}
Call == [pc : PC, grant : Grant, family : Tokens \cup {None}]
Idle == [pc |-> "idle", grant |-> NoGrant, family |-> None]

Unused == [state |-> "unused", grant |-> NoGrant, family |-> None]

Free(h) == call[h].pc = "idle"
Done(h) == call' = [call EXCEPT ![h] = Idle]
Goto(h, pc) == call' = [call EXCEPT ![h].pc = pc]

Live(t) == tokens[t].state = "live"

(* A handler that consumed a code or a token and has yet to save its       *)
(* successor: the login is in its hands alone.                             *)
Holds(h, l) == call[h].pc \in {"taken", "save"} /\ call[h].grant.login = l

(* The rows a revoking UPDATE matches, and the history it leaves: which    *)
(* logins it covered, and whether one of them was between a consume and    *)
(* its save (then the successor is yet to come) or quiet.                  *)
Kill(S) == tokens' = [t \in Tokens |->
              IF t \in S /\ Live(t) THEN [tokens[t] EXCEPT !.state = "dead"] ELSE tokens[t]]

Cut(S, why) ==
    LET covered == {tokens[t].grant.login : t \in S} IN
    cut' = [l \in Logins |->
              IF l \notin covered THEN cut[l]
              ELSE cut[l] \cup ({why} \cap Watched)
                     \cup (IF \E h \in Procs : Holds(h, l) THEN {} ELSE {"quiet"} \cap Watched)]

Issued == {t \in Tokens : tokens[t].state \in {"live", "dead"}}
OfUser(u) == {t \in Issued : tokens[t].grant.user = u}
OfApp(u, c) == {t \in OfUser(u) : tokens[t].grant.client = c}
OfFamily(f) == {t \in Issued : tokens[t].family = f}

-----------------------------------------------------------------------------
Init ==
    /\ active = [u \in Users |-> TRUE]
    /\ codes = [k \in Codes |-> Unused]
    /\ \E u \in Users, c \in Clients :
        tokens = [t \in Tokens |->
              IF t \in Legacy
              THEN [state |-> "live", family |-> None,
                    grant |-> [user |-> u, client |-> c, scopes |-> Scopes, login |-> t]]
              ELSE Unused]
    /\ call = [h \in Procs |-> Idle]
    /\ cut = [l \in Logins |-> {}]

(* SaveCode at the end of /oauth/authorize.  The account was active when   *)
(* that request began and need not be any more.                            *)
SaveCode(k, u, c, S) ==
    /\ S # {}
    /\ codes[k].state = "unused"
    /\ codes' = [codes EXCEPT ![k] =
          [state |-> "live", family |-> None,
           grant |-> [user |-> u, client |-> c, scopes |-> S, login |-> k]]]
    /\ UNCHANGED <<active, tokens, call, cut>>

-----------------------------------------------------------------------------
(* /oauth/token                                                            *)

(* The handler goes on for the client that called, with the user, scopes   *)
(* and family that ConsumeCode or ConsumeRefreshToken returned.            *)
Take(h, c, grant, family) ==
    call' = [call EXCEPT ![h] = [pc |-> "taken", grant |-> [grant EXCEPT !.client = c],
                                 family |-> family]]

(* ConsumeCode is one UPDATE: of two redemptions one finds the row.  A     *)
(* wrong client, redirect_uri or verifier is found out after it.           *)
ExchangeUnconsumed(h, c, k, matches) ==
    /\ Free(h)
    /\ codes[k].state = "live"
    /\ c = codes[k].grant.client /\ matches
    /\ Take(h, c, codes[k].grant, None)
    /\ UNCHANGED <<active, codes, tokens, cut>>

Exchange(h, c, k, matches) ==
    /\ Free(h)
    /\ codes[k].state = "live"
    /\ codes' = [codes EXCEPT ![k].state = "dead"]
    /\ IF c = codes[k].grant.client /\ matches
       THEN Take(h, c, codes[k].grant, None)
       ELSE UNCHANGED call
    /\ UNCHANGED <<active, tokens, cut>>

(* ConsumeRefreshToken, the row found: revoked by the same UPDATE.  A      *)
(* wrong client or a wider scope is refused after it.                      *)
Narrowed(t, want) ==
    [tokens[t].grant EXCEPT !.scopes = IF want = {} THEN @ ELSE want]

RefreshRootless(h, c, t, want) ==
    /\ Free(h)
    /\ Live(t)
    /\ tokens' = [tokens EXCEPT ![t].state = "dead"]
    /\ IF c = tokens[t].grant.client /\ want \subseteq tokens[t].grant.scopes
       THEN Take(h, c, Narrowed(t, want), None)
       ELSE UNCHANGED call
    /\ UNCHANGED <<active, codes, cut>>

RefreshWidening(h, c, t, want) ==
    /\ Free(h)
    /\ Live(t)
    /\ tokens' = [tokens EXCEPT ![t].state = "dead"]
    /\ IF c = tokens[t].grant.client
       THEN Take(h, c, Narrowed(t, want), tokens[t].family)
       ELSE UNCHANGED call
    /\ UNCHANGED <<active, codes, cut>>

Refresh(h, c, t, want) ==
    /\ Free(h)
    /\ Live(t)
    /\ tokens' = [tokens EXCEPT ![t].state = "dead"]
    /\ IF c = tokens[t].grant.client /\ want \subseteq tokens[t].grant.scopes
       THEN Take(h, c, Narrowed(t, want), tokens[t].family)
       ELSE UNCHANGED call
    /\ UNCHANGED <<active, codes, cut>>

(* ConsumeRefreshToken, no usable row: revokeFamilyOfReplayedToken looks   *)
(* the hash up.  A hash without a row is a guess and changes nothing.      *)
Replay(h, t) ==
    /\ Free(h)
    /\ tokens[t].state = "dead"
    /\ call' = [call EXCEPT ![h] = [pc |-> "replay", grant |-> [tokens[t].grant EXCEPT !.scopes = {}],
                                    family |-> tokens[t].family]]
    /\ UNCHANGED <<active, codes, tokens, cut>>

(* Its second statement: the family, or for a token without one every      *)
(* token of that user at that client.                                      *)
Suspect(h) ==
    LET g == call[h].grant IN
    IF call[h].family = None THEN OfApp(g.user, g.client) ELSE OfFamily(call[h].family)

RevokeNoSuccessor(h) ==
    /\ call[h].pc = "replay"
    /\ UNCHANGED tokens
    /\ Cut(Suspect(h), "replay")
    /\ Done(h)
    /\ UNCHANGED <<active, codes>>

RevokeFamily(h) ==
    /\ call[h].pc = "replay"
    /\ Kill(Suspect(h))
    /\ Cut(Suspect(h), "replay")
    /\ Done(h)
    /\ UNCHANGED <<active, codes>>

(* UserByID: the account must still be active.                             *)
CheckUser(h) ==
    /\ call[h].pc = "taken"
    /\ IF active[call[h].grant.user] THEN Goto(h, "save") ELSE Done(h)
    /\ UNCHANGED <<active, codes, tokens, cut>>

(* writeTokenResponse: SaveRefreshToken, a new family if none was passed.  *)
SaveRootless(h) ==
    /\ call[h].pc = "save"
    /\ \E t \in Tokens :
          /\ tokens[t].state = "unused"
          /\ tokens' = [tokens EXCEPT ![t] =
                [state |-> "live", grant |-> call[h].grant, family |-> call[h].family]]
    /\ Done(h)
    /\ UNCHANGED <<active, codes, cut>>

Save(h) ==
    /\ call[h].pc = "save"
    /\ \E t \in Tokens :
          /\ tokens[t].state = "unused"
          /\ tokens' = [tokens EXCEPT ![t] =
                [state |-> "live", grant |-> call[h].grant,
                 family |-> IF call[h].family = None THEN t ELSE call[h].family]]
    /\ Done(h)
    /\ UNCHANGED <<active, codes, cut>>

-----------------------------------------------------------------------------
(* Taking access away                                                      *)

(* /oauth/revoke (RFC 7009): any authenticated client may name the token.  *)
Revoke(t) ==
    /\ Live(t)
    /\ Kill({t})
    /\ UNCHANGED <<active, codes, call, cut>>

(* RevokeConsent: the app's tokens.  The consent row goes in the same      *)
(* transaction; codes already issued stay.                                 *)
RevokeConsent(u, c) ==
    /\ Kill(OfApp(u, c))
    /\ Cut(OfApp(u, c), "app")
    /\ UNCHANGED <<active, codes, call>>

(* RevokeUserTokens, alone (nabuauth reset-password) or inside the         *)
(* transaction of ChangePassword.                                          *)
RevokeUserTokens(u) ==
    /\ Kill(OfUser(u))
    /\ Cut(OfUser(u), "account")
    /\ UNCHANGED <<active, codes, call>>

(* handleAdminToggleUser: SetActive, whose failure is only logged, and for  *)
(* a disabled account RevokeUserTokens in a later statement.               *)
Disable(h, u) ==
    /\ Free(h)
    /\ active' = [active EXCEPT ![u] = FALSE] \/ UNCHANGED active
    /\ call' = [call EXCEPT ![h] = [Idle EXCEPT !.pc = "disabling", !.grant.user = u]]
    /\ UNCHANGED <<codes, tokens, cut>>

DisableRevokes(h) ==
    LET u == call[h].grant.user IN
    /\ call[h].pc = "disabling"
    /\ Kill(OfUser(u))
    /\ Cut(OfUser(u), "account")
    /\ Done(h)
    /\ UNCHANGED <<active, codes>>

Enable(u) ==
    /\ active' = [active EXCEPT ![u] = TRUE]
    /\ UNCHANGED <<codes, tokens, call, cut>>

-----------------------------------------------------------------------------
(* A code or a token expires; Cleanup deletes a token's row long after.    *)
ExpireCode(k) ==
    /\ codes[k].state = "live"
    /\ codes' = [codes EXCEPT ![k].state = "dead"]
    /\ UNCHANGED <<active, tokens, call, cut>>

ExpireToken(t) ==
    /\ Live(t)
    /\ tokens' = [tokens EXCEPT ![t].state = "dead"]
    /\ UNCHANGED <<active, codes, call, cut>>

Cleanup(t) ==
    /\ tokens[t].state = "dead"
    /\ tokens' = [tokens EXCEPT ![t].state = "gone"]
    /\ UNCHANGED <<active, codes, call, cut>>

(* The handler dies between two statements: a crash, a statement that      *)
(* fails, a caller that hangs up.  What it has written stays.              *)
Die(h) ==
    /\ ~Free(h)
    /\ Done(h)
    /\ UNCHANGED <<active, codes, tokens, cut>>

Next ==
    \/ \E k \in Codes, u \in Users, c \in Clients, S \in SUBSET Scopes : SaveCode(k, u, c, S)
    \/ \E h \in Procs, c \in Clients, k \in Codes, matches \in BOOLEAN : Exchange(h, c, k, matches)
    \/ \E h \in Procs, c \in Clients, t \in Tokens, want \in SUBSET Scopes : Refresh(h, c, t, want)
    \/ \E h \in Procs, t \in Tokens : Replay(h, t)
    \/ \E h \in Procs : RevokeFamily(h) \/ CheckUser(h) \/ Save(h) \/ Die(h)
    \/ \E t \in Tokens : Revoke(t) \/ ExpireToken(t) \/ Cleanup(t)
    \/ \E k \in Codes : ExpireCode(k)
    \/ \E u \in Users, c \in Clients : RevokeConsent(u, c)
    \/ \E u \in Users : RevokeUserTokens(u) \/ Enable(u)
    \/ \E h \in Procs, u \in Users : Disable(h, u)
    \/ \E h \in Procs : DisableRevokes(h)

Spec == Init /\ [][Next]_vars

-----------------------------------------------------------------------------
(* Rows and handlers are well formed; only a token from before the column   *)
(* family_id is without one (SaveRefreshToken roots the others).            *)
TypeOK ==
    /\ active \in [Users -> BOOLEAN]
    /\ codes \in [Codes -> Row]
    /\ tokens \in [Tokens -> Row]
    /\ call \in [Procs -> Call]
    /\ cut \in [Logins -> SUBSET Watched]
    /\ \A t \in Tokens \ Legacy : tokens[t].state # "unused" => tokens[t].family # None

(* t is a usable token of login l.                                         *)
LiveOf(t, l) == Live(t) /\ tokens[t].grant.login = l

(* One holder per login: of its code, its live token and the handlers       *)
(* between a consume and a save there is never more than one, so a code is  *)
(* redeemed once and a refresh token has one successor, whoever presents    *)
(* them at the same time (ConsumeCode, ConsumeRefreshToken).                *)
OneHolder ==
    \A l \in Logins :
        /\ \A t, s \in Tokens : LiveOf(t, l) /\ LiveOf(s, l) => t = s
        /\ \A h, i \in Procs : Holds(h, l) /\ Holds(i, l) => h = i
        /\ \A t \in Tokens, h \in Procs : ~(LiveOf(t, l) /\ Holds(h, l))
        /\ l \in Codes /\ codes[l].state = "live" =>
              /\ \A t \in Tokens : tokens[t].grant.login # l
              /\ \A h \in Procs : ~Holds(h, l)

(* family_id "ties every token rotated out of one login together": two      *)
(* tokens are of one family exactly when they are of one login, the root of *)
(* a login older than the column excepted.  What a replay revokes is        *)
(* neither too little nor somebody else's.                                  *)
FamilyIsLogin ==
    \A t, s \in Tokens :
        tokens[t].state # "unused" /\ tokens[s].state # "unused" /\ t \notin Legacy /\ s \notin Legacy =>
            (tokens[t].family = tokens[s].family <=> tokens[t].grant.login = tokens[s].grant.login)

(* Through any chain of exchanges, refreshes and requests that do not match *)
(* a token stays what its login was granted: for that user, for the client  *)
(* the code was issued to, and for no scope more.                           *)
Within(g) ==
    g.login \in Codes =>
        /\ g.user = codes[g.login].grant.user
        /\ g.client = codes[g.login].grant.client
        /\ g.scopes \subseteq codes[g.login].grant.scopes

GrantNeverGrows ==
    /\ \A t \in Tokens : tokens[t].state # "unused" => Within(tokens[t].grant)
    /\ \A h \in Procs : call[h].pc \in {"taken", "save"} => Within(call[h].grant)

(* A login whose tokens were revoked, by a replay, with its app or with     *)
(* every token of its account, while no handler held it is over: no token   *)
(* of it is live again and no handler is about to save one.                 *)
CutLoginStaysDead ==
    \A l \in Logins : "quiet" \in cut[l] =>
        /\ \A t \in Tokens : tokens[t].grant.login = l => ~Live(t)
        /\ \A h \in Procs : ~Holds(h, l)

(* "It revokes the whole family and makes both re-authenticate"             *)
(* (ConsumeRefreshToken): after a replay no token of the login is live.     *)
ReplayEndsLogin ==
    \A t \in Tokens : Live(t) => "replay" \notin cut[tokens[t].grant.login]
=============================================================================
