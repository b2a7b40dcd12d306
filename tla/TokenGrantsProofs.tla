------------------------- MODULE TokenGrantsProofs -------------------------
(***************************************************************************)
(* Proofs about TokenGrants for any accounts, clients, scopes, codes,      *)
(* tokens and handlers: that everything stays well formed, that a login    *)
(* has one holder and that a grant never grows, from one inductive         *)
(* invariant.                                                              *)
(***************************************************************************)
EXTENDS TokenGrants, TLAPS

(* A code that is in use stands for the login named after it.              *)
CodeIsItsLogin == \A k \in Codes : codes[k].state # "unused" => codes[k].grant.login = k

(* A code nobody has redeemed has left no trace: no token of its login,    *)
(* whatever has become of it, and no handler that holds it.                *)
Unredeemed ==
    \A k \in Codes : codes[k].state \in {"unused", "live"} =>
        /\ \A t \in Tokens : tokens[t].grant.login # k
        /\ \A h \in Procs : ~Holds(h, k)

(* The part of OneHolder that speaks of tokens and handlers.               *)
Alone ==
    \A l \in Logins :
        /\ \A t, s \in Tokens : LiveOf(t, l) /\ LiveOf(s, l) => t = s
        /\ \A h, i \in Procs : Holds(h, l) /\ Holds(i, l) => h = i
        /\ \A t \in Tokens, h \in Procs : ~(LiveOf(t, l) /\ Holds(h, l))

IInv == TypeOK /\ CodeIsItsLogin /\ Unredeemed /\ Alone /\ GrantNeverGrows

-----------------------------------------------------------------------------
(* What a revoking UPDATE leaves of the rows: their state at most, and a    *)
(* live row was live before.                                               *)
LEMMA KillShape ==
    ASSUME TypeOK, NEW S, Kill(S)
    PROVE  /\ tokens' \in [Tokens -> Row]
           /\ \A t \in Tokens : /\ tokens'[t].grant = tokens[t].grant
                                /\ tokens'[t].family = tokens[t].family
                                /\ tokens'[t].state = "unused" <=> tokens[t].state = "unused"
                                /\ Live(t)' => Live(t) /\ t \notin S
<1>1. tokens \in [Tokens -> Row]
  BY DEF TypeOK
<1>2. ASSUME NEW t \in Tokens
      PROVE  /\ tokens'[t] \in Row
             /\ tokens'[t].grant = tokens[t].grant
             /\ tokens'[t].family = tokens[t].family
             /\ tokens'[t].state = "unused" <=> tokens[t].state = "unused"
             /\ Live(t)' => Live(t) /\ t \notin S
  <2>1. tokens'[t] = IF t \in S /\ Live(t) THEN [tokens[t] EXCEPT !.state = "dead"] ELSE tokens[t]
    BY DEF Kill
  <2>2. QED
    BY <1>1, <2>1 DEF Row, Live
<1>3. QED
  BY <1>2 DEF Kill

(* The history stays a history.                                            *)
LEMMA CutType ==
    ASSUME TypeOK, NEW S, NEW why, Cut(S, why)
    PROVE  cut' \in [Logins -> SUBSET Watched]
BY DEF TypeOK, Cut

(* A grant stays a grant when a request narrows it and speaks for itself.  *)
LEMMA GrantType ==
    ASSUME NEW g \in Grant, NEW c \in Clients, NEW S \in SUBSET Scopes
    PROVE  /\ [g EXCEPT !.client = c] \in Grant
           /\ [g EXCEPT !.scopes = S] \in Grant
           /\ [[g EXCEPT !.scopes = S] EXCEPT !.client = c] \in Grant
BY DEF Grant

(* Every step keeps rows, handlers and history well formed.                *)
LEMMA TypeStep == TypeOK /\ [Next]_vars => TypeOK'
<1> SUFFICES ASSUME TypeOK, [Next]_vars PROVE TypeOK'
  OBVIOUS
<1>t. /\ active \in [Users -> BOOLEAN]
      /\ codes \in [Codes -> Row]
      /\ tokens \in [Tokens -> Row]
      /\ call \in [Procs -> Call]
      /\ cut \in [Logins -> SUBSET Watched]
      /\ \A t \in Tokens \ Legacy : tokens[t].state # "unused" => tokens[t].family # None
  BY DEF TypeOK
<1>i. Idle \in Call /\ NoGrant \in Grant
  BY DEF Idle, Call, PC, NoGrant, Grant
<1>1. ASSUME NEW k \in Codes, NEW u \in Users, NEW c \in Clients, NEW S \in SUBSET Scopes,
             SaveCode(k, u, c, S)
      PROVE TypeOK'
  <2>1. [state |-> "live", family |-> None,
         grant |-> [user |-> u, client |-> c, scopes |-> S, login |-> k]] \in Row
    BY DEF Row, Grant, Logins
  <2>2. QED
    BY <1>1, <1>t, <2>1 DEF SaveCode, TypeOK
<1>2. ASSUME NEW h \in Procs, NEW c \in Clients, NEW k \in Codes, NEW matches \in BOOLEAN,
             Exchange(h, c, k, matches)
      PROVE TypeOK'
  <2>1. codes' \in [Codes -> Row]
    BY <1>2, <1>t DEF Exchange, Row
  <2>2. [pc |-> "taken", grant |-> [codes[k].grant EXCEPT !.client = c], family |-> None] \in Call
    <3>1. codes[k].grant \in Grant
      BY <1>t DEF Row
    <3>2. QED
      BY <3>1, GrantType DEF Call, PC
  <2>3. call' \in [Procs -> Call]
    BY <1>2, <1>t, <2>2 DEF Exchange, Take
  <2>4. QED
    BY <1>2, <1>t, <2>1, <2>3 DEF Exchange, TypeOK
<1>3. ASSUME NEW h \in Procs, NEW c \in Clients, NEW t \in Tokens, NEW want \in SUBSET Scopes,
             Refresh(h, c, t, want)
      PROVE TypeOK'
  <2>1. /\ tokens' \in [Tokens -> Row]
        /\ \A s \in Tokens : /\ tokens'[s].family = tokens[s].family
                             /\ tokens'[s].state = "unused" => tokens[s].state = "unused"
                             /\ tokens[s].state = "unused" => tokens'[s].state = "unused"
    BY <1>3, <1>t DEF Refresh, Row, Live
  <2>2. [pc |-> "taken", grant |-> [Narrowed(t, want) EXCEPT !.client = c],
         family |-> tokens[t].family] \in Call
    <3>1. /\ tokens[t].grant \in Grant /\ tokens[t].family \in Tokens \cup {None}
          /\ tokens[t].grant.scopes \in SUBSET Scopes
      BY <1>t DEF Row, Grant
    <3>2. Narrowed(t, want) = [tokens[t].grant EXCEPT !.scopes =
                                 IF want = {} THEN tokens[t].grant.scopes ELSE want]
      BY <3>1 DEF Narrowed, Grant
    <3>3. [Narrowed(t, want) EXCEPT !.client = c] \in Grant
      BY <3>1, <3>2, GrantType
    <3>4. QED
      BY <3>1, <3>3 DEF Call, PC
  <2>3. call' \in [Procs -> Call]
    BY <1>3, <1>t, <2>2 DEF Refresh, Take
  <2>4. QED
    BY <1>3, <1>t, <2>1, <2>3 DEF Refresh, TypeOK
<1>4. ASSUME NEW h \in Procs, NEW t \in Tokens, Replay(h, t) PROVE TypeOK'
  <2>1. [pc |-> "replay", grant |-> [tokens[t].grant EXCEPT !.scopes = {}],
         family |-> tokens[t].family] \in Call
    <3>1. /\ [tokens[t].grant EXCEPT !.scopes = {}] \in Grant
          /\ tokens[t].family \in Tokens \cup {None}
      BY <1>t DEF Row, Grant
    <3>2. QED
      BY <3>1 DEF Call, PC
  <2>2. QED
    BY <1>4, <1>t, <2>1 DEF Replay, TypeOK
<1>5. ASSUME NEW h \in Procs, RevokeFamily(h) PROVE TypeOK'
  BY <1>5, <1>t, <1>i, KillShape, CutType DEF RevokeFamily, Done, TypeOK
<1>6. ASSUME NEW h \in Procs, CheckUser(h) PROVE TypeOK'
  <2>1. call' \in [Procs -> Call]
    BY <1>6, <1>t, <1>i DEF CheckUser, Goto, Done, Call, PC
  <2>2. QED
    BY <1>6, <1>t, <2>1 DEF CheckUser, TypeOK
<1>7. ASSUME NEW h \in Procs, Save(h) PROVE TypeOK'
  <2>1. PICK t \in Tokens :
          tokens' = [tokens EXCEPT ![t] =
             [state |-> "live", grant |-> call[h].grant,
              family |-> IF call[h].family = None THEN t ELSE call[h].family]]
    BY <1>7 DEF Save
  <2>2. t # None
    BY GrantsAssumption
  <2>3. [state |-> "live", grant |-> call[h].grant,
         family |-> IF call[h].family = None THEN t ELSE call[h].family] \in Row
    BY <1>t DEF Row, Call
  <2>4. QED
    BY <1>7, <1>t, <1>i, <2>1, <2>2, <2>3 DEF Save, Done, TypeOK
<1>8. ASSUME NEW h \in Procs, Die(h) PROVE TypeOK'
  BY <1>8, <1>t, <1>i DEF Die, Done, TypeOK
<1>9. ASSUME NEW t \in Tokens, Revoke(t) PROVE TypeOK'
  BY <1>9, <1>t, KillShape DEF Revoke, TypeOK
<1>10. ASSUME NEW t \in Tokens, ExpireToken(t) \/ Cleanup(t) PROVE TypeOK'
  BY <1>10, <1>t DEF ExpireToken, Cleanup, Live, Row, TypeOK
<1>11. ASSUME NEW k \in Codes, ExpireCode(k) PROVE TypeOK'
  BY <1>11, <1>t DEF ExpireCode, Row, TypeOK
<1>12. ASSUME NEW u \in Users, NEW c \in Clients, RevokeConsent(u, c) PROVE TypeOK'
  BY <1>12, <1>t, KillShape, CutType DEF RevokeConsent, TypeOK
<1>13. ASSUME NEW u \in Users, RevokeUserTokens(u) PROVE TypeOK'
  BY <1>13, <1>t, KillShape, CutType DEF RevokeUserTokens, TypeOK
<1>14. ASSUME NEW u \in Users, Enable(u) PROVE TypeOK'
  BY <1>14, <1>t DEF Enable, TypeOK
<1>15. ASSUME NEW h \in Procs, NEW u \in Users, Disable(h, u) PROVE TypeOK'
  <2>1. [Idle EXCEPT !.pc = "disabling", !.grant.user = u] \in Call
    BY <1>i DEF Idle, NoGrant, Call, PC, Grant
  <2>2. QED
    BY <1>15, <1>t, <2>1 DEF Disable, TypeOK
<1>16. ASSUME NEW h \in Procs, DisableRevokes(h) PROVE TypeOK'
  BY <1>16, <1>t, <1>i, KillShape, CutType DEF DisableRevokes, Done, TypeOK
<1>17. CASE UNCHANGED vars
  BY <1>17, <1>t DEF vars, TypeOK
<1>18. QED
  BY <1>1, <1>2, <1>3, <1>4, <1>5, <1>6, <1>7, <1>8, <1>9, <1>10, <1>11, <1>12, <1>13, <1>14,
     <1>15, <1>16, <1>17 DEF Next
-----------------------------------------------------------------------------
Busy(h) == call[h].pc \in {"taken", "save"}

(* A step that gives nobody anything: no row becomes usable, no handler     *)
(* comes to hold a login, and what rows and handlers were granted stays.    *)
CalmCodes ==
    \A k \in Codes : /\ codes'[k].grant = codes[k].grant
                     /\ codes'[k].state = "unused" <=> codes[k].state = "unused"
                     /\ codes'[k].state = "live" => codes[k].state = "live"

CalmTokens ==
    \A t \in Tokens : /\ tokens'[t].grant = tokens[t].grant
                      /\ tokens'[t].family = tokens[t].family
                      /\ tokens'[t].state = "unused" <=> tokens[t].state = "unused"
                      /\ Live(t)' => Live(t)

CalmCall ==
    \A h \in Procs : Busy(h)' => /\ Busy(h)
                                /\ call'[h].grant = call[h].grant
                                /\ call'[h].family = call[h].family

Calm == CalmCodes /\ CalmTokens /\ CalmCall

(* Such a step keeps the invariant.                                        *)
LEMMA CalmKeeps ==
    ASSUME IInv, Calm
    PROVE  CodeIsItsLogin' /\ Unredeemed' /\ Alone' /\ GrantNeverGrows'
<1>1. \A l : \A h \in Procs : Holds(h, l)' => Holds(h, l)
  BY DEF Calm, CalmCall, Busy, Holds
<1>2. \A l : \A t \in Tokens : LiveOf(t, l)' => LiveOf(t, l)
  BY DEF Calm, CalmTokens, LiveOf
<1>3. CodeIsItsLogin'
  BY DEF IInv, CodeIsItsLogin, Calm, CalmCodes
<1>4. Unredeemed'
  BY <1>1 DEF IInv, Unredeemed, Calm, CalmCodes, CalmTokens
<1>5. Alone'
  <2>1. SUFFICES ASSUME NEW l \in Logins
                 PROVE  /\ \A t, s \in Tokens : LiveOf(t, l)' /\ LiveOf(s, l)' => t = s
                        /\ \A h, i \in Procs : Holds(h, l)' /\ Holds(i, l)' => h = i
                        /\ \A t \in Tokens, h \in Procs : ~(LiveOf(t, l)' /\ Holds(h, l)')
    BY DEF Alone
  <2>2. QED
    BY <1>1, <1>2 DEF IInv, Alone
<1>6. GrantNeverGrows'
  <2>1. \A g : Within(g) => Within(g)'
    BY DEF Calm, CalmCodes, Within
  <2>2. \A t \in Tokens : tokens'[t].state # "unused" => Within(tokens[t].grant)'
    BY <2>1 DEF IInv, GrantNeverGrows, Calm, CalmTokens
  <2>3. \A h \in Procs : Busy(h)' => Within(call[h].grant)'
    BY <2>1 DEF IInv, GrantNeverGrows, Calm, CalmCall, Busy
  <2>4. QED
    BY <2>2, <2>3 DEF GrantNeverGrows, Busy
<1>7. QED
  BY <1>3, <1>4, <1>5, <1>6
(* A handler that ends, or goes on to a statement that issues nothing,      *)
(* holds nothing more.                                                     *)
LEMMA QuietCall ==
    ASSUME TypeOK, NEW h \in Procs, NEW c, c.pc \notin {"taken", "save"},
           call' = [call EXCEPT ![h] = c]
    PROVE  CalmCall
BY DEF TypeOK, CalmCall, Busy

(* Every step but the issue of a code, an exchange that goes on and the    *)
(* saving of a token is calm.                                              *)
LEMMA CalmSteps ==
    ASSUME TypeOK, [Next]_vars,
           \A k \in Codes, u \in Users, c \in Clients, S \in SUBSET Scopes : ~SaveCode(k, u, c, S),
           \A h \in Procs, c \in Clients, k \in Codes, matches \in BOOLEAN :
               Exchange(h, c, k, matches) => UNCHANGED call,
           \A h \in Procs, c \in Clients, t \in Tokens, want \in SUBSET Scopes :
               Refresh(h, c, t, want) => UNCHANGED call,
           \A h \in Procs : ~Save(h)
    PROVE  Calm
<1>t. codes \in [Codes -> Row] /\ tokens \in [Tokens -> Row] /\ call \in [Procs -> Call]
  BY DEF TypeOK
<1>i. Idle.pc \notin {"taken", "save"}
  BY DEF Idle
<1>k. \A S : Kill(S) => CalmTokens
  BY KillShape DEF CalmTokens
<1>c. UNCHANGED call => CalmCall
  BY DEF CalmCall, Busy
<1>d. UNCHANGED codes => CalmCodes
  BY DEF CalmCodes
<1>o. UNCHANGED tokens => CalmTokens
  BY DEF CalmTokens, Live
<1>1. ASSUME NEW h \in Procs, NEW c \in Clients, NEW k \in Codes, NEW matches \in BOOLEAN,
             Exchange(h, c, k, matches)
      PROVE Calm
  <2>1. CalmCodes
    BY <1>1, <1>t DEF Exchange, CalmCodes, Row
  <2>2. QED
    BY <1>1, <1>c, <1>o, <2>1 DEF Exchange, Calm
<1>2. ASSUME NEW h \in Procs, NEW c \in Clients, NEW t \in Tokens, NEW want \in SUBSET Scopes,
             Refresh(h, c, t, want)
      PROVE Calm
  <2>1. CalmTokens
    BY <1>2, <1>t DEF Refresh, CalmTokens, Row, Live
  <2>2. QED
    BY <1>2, <1>c, <1>d, <2>1 DEF Refresh, Calm
<1>3. ASSUME NEW h \in Procs, NEW t \in Tokens, Replay(h, t) PROVE Calm
  BY <1>3, <1>d, <1>o, QuietCall DEF Replay, Calm
<1>4. ASSUME NEW h \in Procs, RevokeFamily(h) PROVE Calm
  BY <1>4, <1>d, <1>k, <1>i, QuietCall DEF RevokeFamily, Done, Calm
<1>5. ASSUME NEW h \in Procs, CheckUser(h) PROVE Calm
  <2>1. CalmCall
    BY <1>5, <1>t DEF CheckUser, Goto, Done, CalmCall, Busy, Call, Idle
  <2>2. QED
    BY <1>5, <1>d, <1>o, <2>1 DEF CheckUser, Calm
<1>6. ASSUME NEW h \in Procs, Die(h) PROVE Calm
  BY <1>6, <1>d, <1>o, <1>i, QuietCall DEF Die, Done, Calm
<1>7. ASSUME NEW t \in Tokens, Revoke(t) PROVE Calm
  BY <1>7, <1>c, <1>d, <1>k DEF Revoke, Calm
<1>8. ASSUME NEW t \in Tokens, ExpireToken(t) \/ Cleanup(t) PROVE Calm
  <2>1. CalmTokens
    BY <1>8, <1>t DEF ExpireToken, Cleanup, CalmTokens, Live, Row
  <2>2. QED
    BY <1>8, <1>c, <1>d, <2>1 DEF ExpireToken, Cleanup, Calm
<1>9. ASSUME NEW k \in Codes, ExpireCode(k) PROVE Calm
  <2>1. CalmCodes
    BY <1>9, <1>t DEF ExpireCode, CalmCodes, Row
  <2>2. QED
    BY <1>9, <1>c, <1>o, <2>1 DEF ExpireCode, Calm
<1>10. ASSUME NEW u \in Users, NEW c \in Clients, RevokeConsent(u, c) PROVE Calm
  BY <1>10, <1>c, <1>d, <1>k DEF RevokeConsent, Calm
<1>11. ASSUME NEW u \in Users, RevokeUserTokens(u) \/ Enable(u) PROVE Calm
  BY <1>11, <1>c, <1>d, <1>k, <1>o DEF RevokeUserTokens, Enable, Calm
<1>12. ASSUME NEW h \in Procs, NEW u \in Users, Disable(h, u) PROVE Calm
  <2>1. [Idle EXCEPT !.pc = "disabling", !.grant.user = u].pc = "disabling"
    BY DEF Idle
  <2>2. QED
    BY <1>12, <1>d, <1>o, <2>1, QuietCall DEF Disable, Calm
<1>13. ASSUME NEW h \in Procs, DisableRevokes(h) PROVE Calm
  BY <1>13, <1>d, <1>k, <1>i, QuietCall DEF DisableRevokes, Done, Calm
<1>14. CASE UNCHANGED vars
  BY <1>14, <1>c, <1>d, <1>o DEF vars, Calm
<1>15. QED
  BY <1>1, <1>2, <1>3, <1>4, <1>5, <1>6, <1>7, <1>8, <1>9, <1>10, <1>11, <1>12, <1>13, <1>14
     DEF Next
-----------------------------------------------------------------------------
(* Within, with the rows of oauth_codes as a parameter: what has to hold of *)
(* the next state's grants, without priming a grant twice.                 *)
In(rows, g) ==
    g.login \in Codes =>
        /\ g.user = rows[g.login].grant.user
        /\ g.client = rows[g.login].grant.client
        /\ g.scopes \subseteq rows[g.login].grant.scopes

(* GrantNeverGrows, before and after a step, in these words.               *)
LEMMA GrantsIn ==
    /\ GrantNeverGrows =>
          /\ \A t \in Tokens : tokens[t].state # "unused" => In(codes, tokens[t].grant)
          /\ \A h \in Procs : call[h].pc \in {"taken", "save"} => In(codes, call[h].grant)
    /\ (/\ \A t \in Tokens : tokens'[t].state # "unused" => In(codes', tokens'[t].grant)
        /\ \A h \in Procs : call'[h].pc \in {"taken", "save"} => In(codes', call'[h].grant))
          => GrantNeverGrows'
BY DEF GrantNeverGrows, Within, In

(* Issuing a code: nothing of its login exists yet.                        *)
LEMMA SaveCodeKeeps ==
    ASSUME IInv, NEW k \in Codes, NEW u \in Users, NEW c \in Clients, NEW S \in SUBSET Scopes,
           SaveCode(k, u, c, S)
    PROVE  CodeIsItsLogin' /\ Unredeemed' /\ Alone' /\ GrantNeverGrows'
<1>1. /\ codes[k].state = "unused" /\ UNCHANGED <<tokens, call>>
      /\ codes'[k].state = "live" /\ codes'[k].grant.login = k
      /\ \A j \in Codes : j # k => codes'[j] = codes[j]
  BY DEF SaveCode, IInv, TypeOK
<1>2. /\ \A t \in Tokens : tokens[t].grant.login # k
      /\ \A h \in Procs : ~Holds(h, k)
  BY <1>1 DEF IInv, Unredeemed
<1>3. \A l : \A h \in Procs : Holds(h, l)' <=> Holds(h, l)
  BY <1>1 DEF Holds
<1>4. CodeIsItsLogin'
  BY <1>1 DEF IInv, CodeIsItsLogin
<1>5. Unredeemed'
  BY <1>1, <1>2, <1>3 DEF IInv, Unredeemed
<1>6. Alone'
  BY <1>1 DEF IInv, Alone, LiveOf, Live, Holds
<1>7. GrantNeverGrows'
  <2>1. \A g : g.login # k /\ In(codes, g) => In(codes', g)
    BY <1>1 DEF In
  <2>2. \A t \in Tokens : tokens'[t].state # "unused" => In(codes', tokens'[t].grant)
    BY <1>1, <1>2, <2>1, GrantsIn DEF IInv
  <2>3. \A h \in Procs : call'[h].pc \in {"taken", "save"} => In(codes', call'[h].grant)
    BY <1>1, <1>2, <2>1, GrantsIn DEF IInv, Holds
  <2>4. QED
    BY <2>2, <2>3, GrantsIn
<1>8. QED
  BY <1>4, <1>5, <1>6, <1>7

(* What Take leaves: h holds the login of the grant, the others what they   *)
(* held.                                                                   *)
LEMMA TakeHolds ==
    ASSUME TypeOK, NEW h \in Procs, NEW c \in Clients, NEW g \in Grant, NEW f, Take(h, c, g, f)
    PROVE  /\ call'[h].pc = "taken" /\ call'[h].family = f
           /\ call'[h].grant.login = g.login /\ call'[h].grant.user = g.user
           /\ call'[h].grant.scopes = g.scopes /\ call'[h].grant.client = c
           /\ \A i \in Procs : i # h => call'[i] = call[i]
<1>1. PICK n : /\ n = [g EXCEPT !.client = c]
               /\ n.login = g.login /\ n.user = g.user
               /\ n.scopes = g.scopes /\ n.client = c
  <2>1. PICK n : n = [g EXCEPT !.client = c]
    OBVIOUS
  <2>2. n.login = g.login /\ n.user = g.user /\ n.scopes = g.scopes /\ n.client = c
    BY <2>1 DEF Grant
  <2>3. QED
    BY <2>1, <2>2
<1>2. call' = [call EXCEPT ![h] = [pc |-> "taken", grant |-> n, family |-> f]]
  BY <1>1 DEF Take
<1>3. QED
  BY <1>1, <1>2 DEF TypeOK

(* An exchange that goes on: the code dies and the handler is the holder.  *)
LEMMA ExchangeKeeps ==
    ASSUME IInv, NEW h \in Procs, NEW c \in Clients, NEW k \in Codes, NEW matches \in BOOLEAN,
           Exchange(h, c, k, matches), c = codes[k].grant.client /\ matches
    PROVE  CodeIsItsLogin' /\ Unredeemed' /\ Alone' /\ GrantNeverGrows'
<1>1. /\ codes[k].state = "live" /\ UNCHANGED tokens /\ c = codes[k].grant.client
      /\ codes'[k].state = "dead" /\ codes'[k].grant = codes[k].grant
      /\ \A j \in Codes : j # k => codes'[j] = codes[j]
  BY DEF Exchange, IInv, TypeOK, Row
<1>2. codes[k].grant \in Grant /\ codes[k].grant.login = k
  BY <1>1 DEF IInv, TypeOK, Row, CodeIsItsLogin
<1>3. /\ call'[h].pc = "taken"
      /\ call'[h].grant.login = k /\ call'[h].grant.user = codes[k].grant.user
      /\ call'[h].grant.scopes = codes[k].grant.scopes /\ call'[h].grant.client = c
      /\ \A i \in Procs : i # h => call'[i] = call[i]
  <2>1. Take(h, c, codes[k].grant, None)
    BY DEF Exchange
  <2>2. TypeOK
    BY DEF IInv
  <2>3. QED
    BY <1>2, <2>1, <2>2, TakeHolds
<1>4. /\ \A t \in Tokens : tokens[t].grant.login # k
      /\ \A i \in Procs : ~Holds(i, k)
  BY <1>1 DEF IInv, Unredeemed
<1>5. \A l : \A i \in Procs : Holds(i, l)' <=> IF i = h THEN l = k ELSE Holds(i, l)
  BY <1>3 DEF Holds
<1>6. CodeIsItsLogin'
  BY <1>1, <1>2 DEF IInv, CodeIsItsLogin
<1>7. Unredeemed'
  BY <1>1, <1>5 DEF IInv, Unredeemed
<1>8. Alone'
  <2>1. \A l : \A t \in Tokens : LiveOf(t, l)' <=> LiveOf(t, l)
    BY <1>1 DEF LiveOf, Live
  <2>2. \A t \in Tokens : ~LiveOf(t, k)
    BY <1>4 DEF LiveOf
  <2>3. SUFFICES ASSUME NEW l \in Logins
                 PROVE  /\ \A t, s \in Tokens : LiveOf(t, l)' /\ LiveOf(s, l)' => t = s
                        /\ \A g, i \in Procs : Holds(g, l)' /\ Holds(i, l)' => g = i
                        /\ \A t \in Tokens, i \in Procs : ~(LiveOf(t, l)' /\ Holds(i, l)')
    BY DEF Alone
  <2>4. QED
    BY <1>4, <1>5, <2>1, <2>2 DEF IInv, Alone
<1>9. GrantNeverGrows'
  <2>1. \A g : In(codes, g) => In(codes', g)
    BY <1>1 DEF In
  <2>2. In(codes', call'[h].grant)
    BY <1>1, <1>3 DEF In
  <2>3. \A t \in Tokens : tokens'[t].state # "unused" => In(codes', tokens'[t].grant)
    BY <1>1, <2>1, GrantsIn DEF IInv
  <2>4. \A i \in Procs : call'[i].pc \in {"taken", "save"} => In(codes', call'[i].grant)
    BY <1>3, <2>1, <2>2, GrantsIn DEF IInv
  <2>5. QED
    BY <2>3, <2>4, GrantsIn
<1>10. QED
  BY <1>6, <1>7, <1>8, <1>9

(* A refresh that goes on: the token dies and the handler is the holder.   *)
LEMMA RefreshKeeps ==
    ASSUME IInv, NEW h \in Procs, NEW c \in Clients, NEW t \in Tokens, NEW want \in SUBSET Scopes,
           Refresh(h, c, t, want), c = tokens[t].grant.client, want \subseteq tokens[t].grant.scopes
    PROVE  CodeIsItsLogin' /\ Unredeemed' /\ Alone' /\ GrantNeverGrows'
<1>1. /\ Live(t) /\ UNCHANGED codes
      /\ \A s \in Tokens : /\ tokens'[s].grant = tokens[s].grant
                           /\ tokens'[s].state = "unused" <=> tokens[s].state = "unused"
                           /\ Live(s)' => Live(s) /\ s # t
  BY DEF Refresh, IInv, TypeOK, Row, Live
<1>2. PICK l \in Logins \cup {None} : l = tokens[t].grant.login
  BY DEF IInv, TypeOK, Row, Grant
<1>3. /\ call'[h].pc = "taken"
      /\ call'[h].grant.login = l /\ call'[h].grant.user = tokens[t].grant.user
      /\ call'[h].grant.scopes \subseteq tokens[t].grant.scopes
      /\ call'[h].grant.client = tokens[t].grant.client
      /\ \A i \in Procs : i # h => call'[i] = call[i]
  <2>1. tokens[t].grant \in Grant /\ tokens[t].grant.scopes \in SUBSET Scopes
    BY DEF IInv, TypeOK, Row, Grant
  <2>2. PICK n : n = [tokens[t].grant EXCEPT !.scopes =
                        IF want = {} THEN tokens[t].grant.scopes ELSE want]
    OBVIOUS
  <2>3. n = Narrowed(t, want) /\ n \in Grant
    BY <2>1, <2>2, GrantType DEF Narrowed, Grant
  <2>4. /\ n.login = l /\ n.user = tokens[t].grant.user
        /\ n.scopes \subseteq tokens[t].grant.scopes
    BY <1>2, <2>1, <2>2 DEF Grant
  <2>5. Take(h, c, n, tokens[t].family) /\ TypeOK
    BY <2>3 DEF Refresh, IInv
  <2>6. QED
    BY <2>3, <2>4, <2>5, TakeHolds
<1>4. LiveOf(t, l)
  BY <1>1, <1>2 DEF LiveOf
<1>5. \A m : \A i \in Procs : Holds(i, m)' <=> IF i = h THEN m = l ELSE Holds(i, m)
  BY <1>3 DEF Holds
<1>6. \A m : \A s \in Tokens : LiveOf(s, m)' => LiveOf(s, m) /\ s # t
  BY <1>1 DEF LiveOf
<1>7. CodeIsItsLogin'
  BY <1>1 DEF IInv, CodeIsItsLogin
<1>8. Unredeemed'
  BY <1>1, <1>2, <1>5 DEF IInv, Unredeemed
<1>9. Alone'
  <2>1. SUFFICES ASSUME NEW m \in Logins
                 PROVE  /\ \A r, s \in Tokens : LiveOf(r, m)' /\ LiveOf(s, m)' => r = s
                        /\ \A g, i \in Procs : Holds(g, m)' /\ Holds(i, m)' => g = i
                        /\ \A s \in Tokens, i \in Procs : ~(LiveOf(s, m)' /\ Holds(i, m)')
    BY DEF Alone
  <2>2. QED
    BY <1>4, <1>5, <1>6 DEF IInv, Alone
<1>10. GrantNeverGrows'
  <2>1. \A s \in Tokens : tokens'[s].state # "unused" => In(codes', tokens'[s].grant)
    BY <1>1, GrantsIn DEF IInv
  <2>2. In(codes, tokens[t].grant)
    BY <1>1, GrantsIn DEF IInv, Live
  <2>3. In(codes', call'[h].grant)
    BY <1>1, <1>2, <1>3, <2>2 DEF In
  <2>4. \A i \in Procs : call'[i].pc \in {"taken", "save"} => In(codes', call'[i].grant)
    BY <1>1, <1>3, <2>3, GrantsIn DEF IInv
  <2>5. QED
    BY <2>1, <2>4, GrantsIn
<1>11. QED
  BY <1>7, <1>8, <1>9, <1>10

(* Saving the token: it takes over the login its handler held.             *)
LEMMA SaveKeeps ==
    ASSUME IInv, NEW h \in Procs, Save(h)
    PROVE  CodeIsItsLogin' /\ Unredeemed' /\ Alone' /\ GrantNeverGrows'
<1>1. PICK t \in Tokens : /\ tokens[t].state = "unused"
                          /\ tokens' = [tokens EXCEPT ![t] =
                                [state |-> "live", grant |-> call[h].grant,
                                 family |-> IF call[h].family = None THEN t ELSE call[h].family]]
  BY DEF Save
<1>2. /\ UNCHANGED codes /\ call[h].pc = "save" /\ call'[h].pc = "idle"
      /\ \A i \in Procs : i # h => call'[i] = call[i]
      /\ tokens'[t].grant = call[h].grant
      /\ \A s \in Tokens : s # t => tokens'[s] = tokens[s]
  BY <1>1 DEF Save, Done, Idle, IInv, TypeOK
<1>3. PICK l : l = call[h].grant.login
  OBVIOUS
<1>4. Holds(h, l)
  BY <1>2, <1>3 DEF Holds
<1>5. \A m : \A i \in Procs : Holds(i, m)' => Holds(i, m) /\ i # h
  BY <1>2 DEF Holds
<1>6. \A m : \A s \in Tokens : LiveOf(s, m)' => IF s = t THEN m = l ELSE LiveOf(s, m)
  BY <1>2, <1>3 DEF LiveOf, Live
<1>7. CodeIsItsLogin'
  BY <1>2 DEF IInv, CodeIsItsLogin
<1>8. Unredeemed'
  <2>1. SUFFICES ASSUME NEW k \in Codes, codes[k].state \in {"unused", "live"}
                 PROVE  /\ \A s \in Tokens : tokens'[s].grant.login # k
                        /\ \A i \in Procs : ~Holds(i, k)'
    BY <1>2 DEF Unredeemed
  <2>2. /\ \A s \in Tokens : tokens[s].grant.login # k
        /\ \A i \in Procs : ~Holds(i, k)
    BY <2>1 DEF IInv, Unredeemed
  <2>3. l # k
    BY <1>4, <2>2
  <2>4. QED
    BY <1>2, <1>3, <1>5, <2>2, <2>3
<1>9. Alone'
  <2>1. SUFFICES ASSUME NEW m \in Logins
                 PROVE  /\ \A r, s \in Tokens : LiveOf(r, m)' /\ LiveOf(s, m)' => r = s
                        /\ \A g, i \in Procs : Holds(g, m)' /\ Holds(i, m)' => g = i
                        /\ \A s \in Tokens, i \in Procs : ~(LiveOf(s, m)' /\ Holds(i, m)')
    BY DEF Alone
  <2>2. QED
    BY <1>4, <1>5, <1>6 DEF IInv, Alone
<1>10. GrantNeverGrows'
  <2>1. In(codes, call[h].grant)
    BY <1>2, GrantsIn DEF IInv
  <2>2. \A s \in Tokens : tokens'[s].state # "unused" => In(codes', tokens'[s].grant)
    BY <1>2, <2>1, GrantsIn DEF IInv
  <2>3. \A i \in Procs : call'[i].pc \in {"taken", "save"} => In(codes', call'[i].grant)
    BY <1>2, GrantsIn DEF IInv
  <2>4. QED
    BY <2>2, <2>3, GrantsIn
<1>11. QED
  BY <1>7, <1>8, <1>9, <1>10

-----------------------------------------------------------------------------
LEMMA InitEstablishes == Init => IInv
<1> SUFFICES ASSUME Init PROVE IInv
  OBVIOUS
<1>1. PICK u \in Users, c \in Clients :
        tokens = [t \in Tokens |->
              IF t \in Legacy
              THEN [state |-> "live", family |-> None,
                    grant |-> [user |-> u, client |-> c, scopes |-> Scopes, login |-> t]]
              ELSE Unused]
  BY DEF Init
<1>2. NoGrant \in Grant /\ Unused \in Row /\ Idle \in Call /\ Idle.pc = "idle"
  BY DEF NoGrant, Grant, Unused, Row, Idle, Call, PC
<1>3. TypeOK
  <2>1. \A t \in Legacy : [state |-> "live", family |-> None,
                   grant |-> [user |-> u, client |-> c, scopes |-> Scopes, login |-> t]] \in Row
    BY DEF Row, Grant, Logins
  <2>2. tokens \in [Tokens -> Row]
    BY <1>1, <1>2, <2>1
  <2>3. \A t \in Tokens \ Legacy : tokens[t].state = "unused"
    BY <1>1 DEF Unused
  <2>4. QED
    BY <1>2, <2>2, <2>3 DEF Init, TypeOK
<1>4. \A t \in Tokens : IF t \in Legacy THEN tokens[t].grant.login = t
                        ELSE tokens[t].state = "unused" /\ tokens[t].grant.login = None
  BY <1>1 DEF Unused, NoGrant
<1>5. \A k \in Codes : codes[k].state = "unused"
  BY DEF Init, Unused
<1>6. \A h \in Procs : call[h].pc = "idle"
  BY <1>2 DEF Init
<1>7. CodeIsItsLogin
  BY <1>5 DEF CodeIsItsLogin
<1>8. Unredeemed
  BY <1>4, <1>6, GrantsAssumption DEF Unredeemed, Holds
<1>9. Alone
  BY <1>4, <1>6 DEF Alone, LiveOf, Live, Holds
<1>10. GrantNeverGrows
  <2>1. \A t \in Tokens : tokens[t].state # "unused" => Within(tokens[t].grant)
    BY <1>4, GrantsAssumption DEF Within
  <2>2. QED
    BY <1>6, <2>1 DEF GrantNeverGrows
<1>11. QED
  BY <1>3, <1>7, <1>8, <1>9, <1>10 DEF IInv

LEMMA StepKeeps == IInv /\ [Next]_vars => IInv'
<1> SUFFICES ASSUME IInv, [Next]_vars PROVE IInv'
  OBVIOUS
<1>1. TypeOK'
  BY TypeStep DEF IInv
<1>2. CodeIsItsLogin' /\ Unredeemed' /\ Alone' /\ GrantNeverGrows'
  <2>1. ASSUME NEW k \in Codes, NEW u \in Users, NEW c \in Clients, NEW S \in SUBSET Scopes,
               SaveCode(k, u, c, S)
        PROVE  CodeIsItsLogin' /\ Unredeemed' /\ Alone' /\ GrantNeverGrows'
    BY <2>1, SaveCodeKeeps
  <2>2. ASSUME NEW h \in Procs, NEW c \in Clients, NEW k \in Codes, NEW matches \in BOOLEAN,
               Exchange(h, c, k, matches), call' # call
        PROVE  CodeIsItsLogin' /\ Unredeemed' /\ Alone' /\ GrantNeverGrows'
    <3>1. c = codes[k].grant.client /\ matches
      BY <2>2 DEF Exchange
    <3>2. QED
      BY <2>2, <3>1, ExchangeKeeps
  <2>3. ASSUME NEW h \in Procs, NEW c \in Clients, NEW t \in Tokens, NEW want \in SUBSET Scopes,
               Refresh(h, c, t, want), call' # call
        PROVE  CodeIsItsLogin' /\ Unredeemed' /\ Alone' /\ GrantNeverGrows'
    <3>1. c = tokens[t].grant.client /\ want \subseteq tokens[t].grant.scopes
      BY <2>3 DEF Refresh
    <3>2. QED
      BY <2>3, <3>1, RefreshKeeps
  <2>4. ASSUME NEW h \in Procs, Save(h)
        PROVE  CodeIsItsLogin' /\ Unredeemed' /\ Alone' /\ GrantNeverGrows'
    BY <2>4, SaveKeeps
  <2>5. CASE Calm
    BY <2>5, CalmKeeps
  <2>6. QED
    <3>1. TypeOK
      BY DEF IInv
    <3>2. QED
      BY <2>1, <2>2, <2>3, <2>4, <2>5, <3>1, CalmSteps
<1>3. QED
  BY <1>1, <1>2 DEF IInv

THEOREM Inductive == Spec => []IInv
BY InitEstablishes, StepKeeps, PTL DEF Spec

(* Rows, handlers and history stay well formed, and a token saved by this   *)
(* code always has a family.                                               *)
THEOREM TypeCorrect == Spec => []TypeOK
<1>1. IInv => TypeOK
  BY DEF IInv
<1>2. QED
  BY <1>1, Inductive, PTL

(* A login has one holder at a time: its code, one live token, or one       *)
(* handler between its consume and its save.                               *)
THEOREM OneHolderAlways == Spec => []OneHolder
<1>1. IInv => OneHolder
  <2> SUFFICES ASSUME IInv, NEW l \in Logins
               PROVE  /\ \A t, s \in Tokens : LiveOf(t, l) /\ LiveOf(s, l) => t = s
                      /\ \A h, i \in Procs : Holds(h, l) /\ Holds(i, l) => h = i
                      /\ \A t \in Tokens, h \in Procs : ~(LiveOf(t, l) /\ Holds(h, l))
                      /\ l \in Codes /\ codes[l].state = "live" =>
                            /\ \A t \in Tokens : tokens[t].grant.login # l
                            /\ \A h \in Procs : ~Holds(h, l)
    BY DEF OneHolder
  <2>1. QED
    BY DEF IInv, Alone, Unredeemed
<1>2. QED
  BY <1>1, Inductive, PTL

(* A token and a handler about to save one stay within what the code of     *)
(* their login was issued for: its user, its client, its scopes.           *)
THEOREM GrantsNeverGrow == Spec => []GrantNeverGrows
<1>1. IInv => GrantNeverGrows
  BY DEF IInv
<1>2. QED
  BY <1>1, Inductive, PTL
=============================================================================
