------------------------- MODULE TokenFamilyProofs -------------------------
(***************************************************************************)
(* Proofs about the families of TokenGrants, for any constants: a family   *)
(* is a login, and a login cut while nobody held it stays dead.  They rest *)
(* on the invariant of TokenGrantsProofs.                                  *)
(***************************************************************************)
EXTENDS TokenGrantsProofs

Used(t) == tokens[t].state # "unused"

(* A token from before family_id keeps the login named after it.           *)
LegacyAsIssued ==
    \A t \in Legacy : Used(t) /\ tokens[t].family = None /\ tokens[t].grant.login = t

(* While it is live nothing has been rotated out of it.                    *)
LegacyUnrotated ==
    \A l \in Legacy : Live(l) => \A t \in Tokens : Used(t) /\ tokens[t].grant.login = l => t = l

(* What is rotated out of it stays with its account and its client.        *)
Kept(rows, g) ==
    /\ g.login \in Logins
    /\ g.login \in Legacy => /\ g.user = rows[g.login].grant.user
                             /\ g.client = rows[g.login].grant.client

LegacyKept ==
    /\ \A t \in Tokens : Used(t) => Kept(tokens, tokens[t].grant)
    /\ \A h \in Procs : Busy(h) => Kept(tokens, call[h].grant)

(* A family is named after a token of it.                                  *)
Rooted(f) == f # None => f \in Tokens \ Legacy /\ Used(f) /\ tokens[f].family = f

FamiliesRooted ==
    /\ \A t \in Tokens : Used(t) => Rooted(tokens[t].family)
    /\ \A h \in Procs : Busy(h) => Rooted(call[h].family)

(* A handler that holds a login holds its family.                          *)
HolderFamily ==
    \A h \in Procs, t \in Tokens \ Legacy : Busy(h) /\ Used(t) =>
        (tokens[t].family = call[h].family <=> tokens[t].grant.login = call[h].grant.login)

Families ==
    /\ LegacyAsIssued /\ LegacyUnrotated /\ LegacyKept
    /\ FamiliesRooted /\ HolderFamily /\ FamilyIsLogin

(* A login that was cut had a token.                                       *)
CutHadToken ==
    \A l \in Logins : cut[l] # {} => \E t \in Tokens : Used(t) /\ tokens[t].grant.login = l

FInv == IInv /\ Families /\ CutHadToken /\ CutLoginStaysDead

-----------------------------------------------------------------------------
(* A step that gives nobody anything leaves the families as they are.      *)
LEMMA CalmFamilies ==
    ASSUME Families, CalmTokens, CalmCall
    PROVE  Families'
<1>1. \A t \in Tokens : Used(t)' <=> Used(t)
  BY DEF CalmTokens, Used
<1>2. LegacyAsIssued' /\ LegacyUnrotated'
  BY <1>1, GrantsAssumption DEF Families, LegacyAsIssued, LegacyUnrotated, CalmTokens
<1>3. LegacyKept'
  <2>1. \A g : Kept(tokens, g) => Kept(tokens', g)
    BY GrantsAssumption DEF Kept, CalmTokens
  <2>2. \A t \in Tokens : Used(t)' => Kept(tokens', tokens'[t].grant)
    BY <1>1, <2>1 DEF Families, LegacyKept, CalmTokens
  <2>3. \A h \in Procs : Busy(h)' => Kept(tokens', call'[h].grant)
    BY <2>1 DEF Families, LegacyKept, CalmCall
  <2>4. QED
    BY <2>2, <2>3 DEF LegacyKept
<1>4. FamiliesRooted'
  BY <1>1 DEF Families, FamiliesRooted, Rooted, CalmTokens, CalmCall
<1>5. HolderFamily'
  BY <1>1 DEF Families, HolderFamily, CalmTokens, CalmCall
<1>6. FamilyIsLogin'
  BY <1>1 DEF Families, FamilyIsLogin, CalmTokens, Used
<1>7. QED
  BY <1>2, <1>3, <1>4, <1>5, <1>6 DEF Families

(* A new holder takes over the login and the family.                       *)
LEMMA HolderFamilies ==
    ASSUME Families, CalmTokens, NEW h \in Procs, Busy(h)',
           Kept(tokens, call'[h].grant),
           Rooted(call'[h].family),
           \A t \in Tokens \ Legacy : Used(t) =>
               (tokens[t].family = call'[h].family <=> tokens[t].grant.login = call'[h].grant.login),
           \A i \in Procs : i # h => call'[i] = call[i]
    PROVE  Families'
<1>1. \A t \in Tokens : Used(t)' <=> Used(t)
  BY DEF CalmTokens, Used
<1>2. LegacyAsIssued' /\ LegacyUnrotated'
  BY <1>1, GrantsAssumption DEF Families, LegacyAsIssued, LegacyUnrotated, CalmTokens
<1>3. LegacyKept'
  <2>1. \A g : Kept(tokens, g) => Kept(tokens', g)
    BY GrantsAssumption DEF Kept, CalmTokens
  <2>2. \A t \in Tokens : Used(t)' => Kept(tokens', tokens'[t].grant)
    BY <1>1, <2>1 DEF Families, LegacyKept, CalmTokens
  <2>3. \A i \in Procs : Busy(i)' => Kept(tokens', call'[i].grant)
    BY <2>1 DEF Families, LegacyKept, Busy
  <2>4. QED
    BY <2>2, <2>3 DEF LegacyKept
<1>4. FamiliesRooted'
  BY <1>1 DEF Families, FamiliesRooted, Rooted, CalmTokens, Busy
<1>5. HolderFamily'
  BY <1>1 DEF Families, HolderFamily, CalmTokens, Busy
<1>6. FamilyIsLogin'
  BY <1>1 DEF Families, FamilyIsLogin, CalmTokens, Used
<1>7. QED
  BY <1>2, <1>3, <1>4, <1>5, <1>6 DEF Families

(* An exchange that goes on: its login has no token yet and no family.     *)
LEMMA ExchangeFamilies ==
    ASSUME IInv, Families, NEW h \in Procs, NEW c \in Clients, NEW k \in Codes,
           NEW matches \in BOOLEAN,
           Exchange(h, c, k, matches), c = codes[k].grant.client /\ matches
    PROVE  Families'
<1>1. codes[k].state = "live" /\ UNCHANGED tokens
  BY DEF Exchange
<1>2. codes[k].grant \in Grant /\ codes[k].grant.login = k
  BY <1>1 DEF IInv, TypeOK, Row, CodeIsItsLogin
<1>3. /\ call'[h].pc = "taken" /\ call'[h].family = None
      /\ call'[h].grant.login = k
      /\ \A i \in Procs : i # h => call'[i] = call[i]
  <2>1. Take(h, c, codes[k].grant, None)
    BY DEF Exchange
  <2>2. TypeOK
    BY DEF IInv
  <2>3. QED
    BY <1>2, <2>1, <2>2, TakeHolds
<1>4. CalmTokens
  BY <1>1 DEF CalmTokens, Live
<1>5. \A t \in Tokens \ Legacy : Used(t) => tokens[t].family # None /\ tokens[t].grant.login # k
  BY <1>1 DEF IInv, TypeOK, Unredeemed, Used
<1>6. Kept(tokens, call'[h].grant)
  BY <1>3, GrantsAssumption DEF Kept, Logins
<1>7. Rooted(call'[h].family)
  BY <1>3 DEF Rooted
<1>8. Busy(h)'
  BY <1>3 DEF Busy
<1>9. QED
  BY <1>3, <1>4, <1>5, <1>6, <1>7, <1>8, HolderFamilies

(* A refresh that goes on: the handler takes over login and family.        *)
LEMMA RefreshFamilies ==
    ASSUME IInv, Families, NEW h \in Procs, NEW c \in Clients, NEW t \in Tokens,
           NEW want \in SUBSET Scopes,
           Refresh(h, c, t, want), c = tokens[t].grant.client, want \subseteq tokens[t].grant.scopes
    PROVE  Families'
<1>1. Live(t) /\ Used(t)
  BY DEF Refresh, Live, Used
<1>2. CalmTokens
  BY DEF Refresh, IInv, TypeOK, Row, Live, CalmTokens
<1>3. /\ call'[h].pc = "taken" /\ call'[h].family = tokens[t].family
      /\ call'[h].grant.login = tokens[t].grant.login
      /\ call'[h].grant.user = tokens[t].grant.user
      /\ call'[h].grant.client = tokens[t].grant.client
      /\ \A i \in Procs : i # h => call'[i] = call[i]
  <2>1. tokens[t].grant \in Grant /\ tokens[t].grant.scopes \in SUBSET Scopes
    BY DEF IInv, TypeOK, Row, Grant
  <2>2. PICK n : n = [tokens[t].grant EXCEPT !.scopes =
                        IF want = {} THEN tokens[t].grant.scopes ELSE want]
    OBVIOUS
  <2>3. n = Narrowed(t, want) /\ n \in Grant
    BY <2>1, <2>2, GrantType DEF Narrowed, Grant
  <2>4. n.login = tokens[t].grant.login /\ n.user = tokens[t].grant.user
    BY <2>1, <2>2 DEF Grant
  <2>5. Take(h, c, n, tokens[t].family) /\ TypeOK
    BY <2>3 DEF Refresh, IInv
  <2>6. QED
    BY <2>3, <2>4, <2>5, TakeHolds
<1>4. \A s \in Tokens \ Legacy : Used(s) =>
         (tokens[s].family = tokens[t].family <=> tokens[s].grant.login = tokens[t].grant.login)
  <2>1. CASE t \in Legacy
    BY <1>1, <2>1 DEF IInv, TypeOK, Families, LegacyAsIssued, LegacyUnrotated, Used
  <2>2. CASE t \notin Legacy
    BY <1>1, <2>2 DEF Families, FamilyIsLogin, Used
  <2>3. QED
    BY <2>1, <2>2
<1>5. Kept(tokens, call'[h].grant)
  BY <1>1, <1>3 DEF Families, LegacyKept, Kept
<1>6. Rooted(call'[h].family)
  BY <1>1, <1>3 DEF Families, FamiliesRooted
<1>7. Busy(h)'
  BY <1>3 DEF Busy
<1>8. QED
  BY <1>2, <1>3, <1>4, <1>5, <1>6, <1>7, HolderFamilies

(* Saving the token: it carries on the family, or roots the family of a    *)
(* login that had none.                                                    *)
LEMMA SaveFamilies ==
    ASSUME IInv, Families, NEW h \in Procs, Save(h)
    PROVE  Families'
<1>1. PICK t \in Tokens : /\ tokens[t].state = "unused"
                          /\ tokens' = [tokens EXCEPT ![t] =
                                [state |-> "live", grant |-> call[h].grant,
                                 family |-> IF call[h].family = None THEN t ELSE call[h].family]]
  BY DEF Save
<1>2. PICK f : f = IF call[h].family = None THEN t ELSE call[h].family
  OBVIOUS
<1>3. PICK l : l = call[h].grant.login
  OBVIOUS
<1>4. /\ call[h].pc = "save" /\ call'[h].pc = "idle"
      /\ \A i \in Procs : i # h => call'[i] = call[i]
      /\ tokens'[t].grant = call[h].grant /\ tokens'[t].family = f /\ tokens'[t].state = "live"
      /\ \A s \in Tokens : s # t => tokens'[s] = tokens[s]
  BY <1>1, <1>2 DEF Save, Done, Idle, IInv, TypeOK
<1>5. /\ Busy(h) /\ ~Used(t) /\ Used(t)'
      /\ \A s \in Tokens : s # t => (Used(s)' <=> Used(s))
      /\ \A i \in Procs : Busy(i)' => Busy(i) /\ i # h
  BY <1>1, <1>4 DEF Busy, Used
<1>6. t \notin Legacy /\ t # None
  BY <1>5, GrantsAssumption DEF Families, LegacyAsIssued
<1>7. /\ l \in Logins /\ Rooted(call[h].family)
      /\ \A s \in Tokens : Used(s) => tokens[s].grant.login \in Logins /\ Rooted(tokens[s].family)
      /\ \A i \in Procs : Busy(i) => call[i].grant.login \in Logins /\ Rooted(call[i].family)
  BY <1>3, <1>5 DEF Families, LegacyKept, Kept, FamiliesRooted
<1>8. \A s \in Tokens \ Legacy : Used(s) =>
         /\ tokens[s].family # None
         /\ tokens[s].family = f <=> tokens[s].grant.login = l
  <2>1. \A s \in Tokens \ Legacy : Used(s) => tokens[s].family # None
    BY DEF IInv, TypeOK, Used
  <2>2. \A s \in Tokens \ Legacy : Used(s) => tokens[s].family # t
    BY <1>5, <1>6, <1>7 DEF Rooted
  <2>3. QED
    BY <1>2, <1>3, <1>5, <2>1, <2>2 DEF Families, HolderFamily
<1>9. \A i \in Procs : Busy(i) /\ i # h => call[i].grant.login # l /\ call[i].family # f
  <2>1. ASSUME NEW i \in Procs, Busy(i), i # h
        PROVE  call[i].grant.login # l /\ call[i].family # f
    <3>1. call[i].grant.login # l
      BY <1>3, <1>5, <1>7, <2>1 DEF IInv, Alone, Holds, Busy
    <3>2. CASE call[h].family = None
      BY <1>2, <1>5, <1>6, <1>7, <2>1, <3>1, <3>2 DEF Rooted
    <3>3. CASE call[h].family # None
      <4>1. f \in Tokens \ Legacy /\ Used(f) /\ tokens[f].family = f
        BY <1>2, <1>7, <3>3 DEF Rooted
      <4>2. tokens[f].grant.login = l
        BY <1>8, <4>1
      <4>3. QED
        BY <2>1, <3>1, <4>1, <4>2 DEF Families, HolderFamily
    <3>4. QED
      BY <3>1, <3>2, <3>3
  <2>2. QED
    BY <2>1
<1>10. LegacyAsIssued'
  BY <1>4, <1>5, <1>6, GrantsAssumption DEF Families, LegacyAsIssued
<1>11. LegacyUnrotated'
  <2>1. \A m \in Legacy : Live(m) => l # m
    <3>1. \A m \in Legacy : Live(m) => LiveOf(m, m)
      BY DEF Families, LegacyAsIssued, LiveOf
    <3>2. Holds(h, l)
      BY <1>3, <1>5 DEF Holds, Busy
    <3>3. QED
      BY <1>7, <3>1, <3>2, GrantsAssumption DEF IInv, Alone
  <2>2. \A m \in Legacy : Live(m)' => Live(m)
    BY <1>4, <1>6, GrantsAssumption DEF Live
  <2>3. QED
    BY <1>3, <1>4, <1>5, <2>1, <2>2 DEF Families, LegacyUnrotated
<1>12. LegacyKept'
  <2>1. \A g : Kept(tokens, g) => Kept(tokens', g)
    BY <1>4, <1>6, GrantsAssumption DEF Kept
  <2>2. \A s \in Tokens : Used(s)' => Kept(tokens', tokens'[s].grant)
    BY <1>4, <1>5, <2>1 DEF Families, LegacyKept
  <2>3. \A i \in Procs : Busy(i)' => Kept(tokens', call'[i].grant)
    BY <1>4, <1>5, <2>1 DEF Families, LegacyKept
  <2>4. QED
    BY <2>2, <2>3 DEF LegacyKept
<1>13. FamiliesRooted'
  <2>1. \A g : Rooted(g) => Rooted(g)'
    BY <1>4, <1>5 DEF Rooted
  <2>2. f # None => f \in Tokens \ Legacy /\ Used(f)' /\ tokens'[f].family = f
    BY <1>2, <1>4, <1>5, <1>6, <1>7 DEF Rooted
  <2>3. QED
    BY <1>4, <1>5, <1>7, <2>1, <2>2 DEF FamiliesRooted, Rooted
<1>14. HolderFamily'
  BY <1>3, <1>4, <1>5, <1>9 DEF Families, HolderFamily
<1>15. FamilyIsLogin'
  BY <1>3, <1>4, <1>5, <1>8 DEF Families, FamilyIsLogin, Used
<1>16. QED
  BY <1>10, <1>11, <1>12, <1>13, <1>14, <1>15 DEF Families

-----------------------------------------------------------------------------
(* Tokens of one login are of one account and one client.                  *)
LEMMA SameLogin ==
    ASSUME IInv, Families, NEW t \in Tokens, NEW s \in Tokens, Used(t), Used(s),
           tokens[s].grant.login = tokens[t].grant.login
    PROVE  /\ tokens[s].grant.user = tokens[t].grant.user
           /\ tokens[s].grant.client = tokens[t].grant.client
<1>1. /\ Kept(tokens, tokens[t].grant) /\ Kept(tokens, tokens[s].grant)
      /\ In(codes, tokens[t].grant) /\ In(codes, tokens[s].grant)
  BY GrantsIn DEF Families, LegacyKept, IInv, Used
<1>2. QED
  BY <1>1 DEF Kept, In, Logins

(* A set of rows that has, with a row, whatever is live of its login.      *)
Closed(S) ==
    /\ S \subseteq Issued
    /\ \A t \in S, s \in Tokens : Live(s) /\ tokens[s].grant.login = tokens[t].grant.login => s \in S

(* So are the rows each revoking UPDATE matches.                           *)
LEMMA RevocationsClosed ==
    ASSUME IInv, Families
    PROVE  /\ \A u : Closed(OfUser(u))
           /\ \A u, c : Closed(OfApp(u, c))
           /\ \A h \in Procs : Closed(Suspect(h))
<1>1. \A t \in Tokens : (t \in Issued => Used(t)) /\ (Live(t) => t \in Issued)
  BY DEF Issued, Used, Live
<1>2. \A u : Closed(OfUser(u))
  BY <1>1, SameLogin DEF Closed, OfUser, Issued
<1>3. \A u, c : Closed(OfApp(u, c))
  BY <1>1, SameLogin DEF Closed, OfApp, OfUser, Issued
<1>4. \A f : f # None => Closed(OfFamily(f))
  <2>1. SUFFICES ASSUME NEW f, f # None, NEW t \in OfFamily(f), NEW s \in Tokens, Live(s),
                        tokens[s].grant.login = tokens[t].grant.login
                 PROVE  s \in OfFamily(f)
    BY DEF Closed, OfFamily
  <2>2. t \in Tokens /\ Used(t) /\ Used(s) /\ s \in Issued /\ tokens[t].family = f
    BY <1>1, <2>1 DEF OfFamily, Issued
  <2>3. t \notin Legacy
    BY <2>1, <2>2 DEF Families, LegacyAsIssued
  <2>4. s \notin Legacy
    BY <2>1, <2>2, <2>3 DEF Families, LegacyAsIssued, LegacyUnrotated
  <2>5. QED
    BY <2>1, <2>2, <2>3, <2>4 DEF Families, FamilyIsLogin, Used, OfFamily
<1>5. \A h \in Procs : Closed(Suspect(h))
  BY <1>3, <1>4 DEF Suspect
<1>6. QED
  BY <1>2, <1>3, <1>5

(* Such an UPDATE ends every login it covers that nobody holds.            *)
LEMMA CutEnds ==
    ASSUME FInv, NEW S, Closed(S), NEW why, why # "quiet", Kill(S), Cut(S, why), CalmCall
    PROVE  CutHadToken' /\ CutLoginStaysDead'
<1>1. /\ \A t \in Tokens : /\ tokens'[t].grant = tokens[t].grant
                           /\ Used(t)' <=> Used(t)
                           /\ Live(t)' => Live(t) /\ t \notin S
      /\ \A t \in S : t \in Tokens /\ Used(t)
  BY KillShape DEF FInv, IInv, Closed, Issued, Used
<1>2. \A l : \A h \in Procs : Holds(h, l)' => Holds(h, l)
  BY DEF CalmCall, Busy, Holds
<1>3. \A l \in Logins :
         /\ cut'[l] # {} => cut[l] # {} \/ \E t \in S : tokens[t].grant.login = l
         /\ "quiet" \in cut'[l] => \/ "quiet" \in cut[l]
                                   \/ /\ \E t \in S : tokens[t].grant.login = l
                                      /\ \A h \in Procs : ~Holds(h, l)
  BY DEF Cut
<1>4. CutHadToken'
  BY <1>1, <1>3 DEF FInv, CutHadToken
<1>5. CutLoginStaysDead'
  <2>1. SUFFICES ASSUME NEW l \in Logins, "quiet" \in cut'[l]
                 PROVE  /\ \A t \in Tokens : tokens'[t].grant.login = l => ~Live(t)'
                        /\ \A h \in Procs : ~Holds(h, l)'
    BY DEF CutLoginStaysDead
  <2>2. CASE "quiet" \in cut[l]
    BY <1>1, <1>2, <2>2 DEF FInv, CutLoginStaysDead
  <2>3. CASE /\ \E t \in S : tokens[t].grant.login = l
             /\ \A h \in Procs : ~Holds(h, l)
    BY <1>1, <1>2, <2>3 DEF Closed
  <2>4. QED
    BY <1>3, <2>1, <2>2, <2>3
<1>6. QED
  BY <1>4, <1>5

(* A step that cuts nothing and lets nobody new hold a login but one that   *)
(* lives keeps what was cut dead.                                          *)
LEMMA UncutKeeps ==
    ASSUME CutHadToken, CutLoginStaysDead, UNCHANGED cut,
           \A t \in Tokens : Used(t) => Used(t)' /\ tokens'[t].grant = tokens[t].grant,
           \A l \in Logins : "quiet" \in cut[l] =>
               /\ \A t \in Tokens : LiveOf(t, l)' => LiveOf(t, l)
               /\ \A h \in Procs : Holds(h, l)' => Holds(h, l)
    PROVE  CutHadToken' /\ CutLoginStaysDead'
<1>1. CutHadToken'
  BY DEF CutHadToken
<1>2. CutLoginStaysDead'
  BY DEF CutLoginStaysDead, LiveOf
<1>3. QED
  BY <1>1, <1>2

(* The steps of Next, told apart by what they do to families and holders.  *)
LEMMA FamilyStep ==
    ASSUME FInv, [Next]_vars
    PROVE  Families'
<1>1. IInv /\ Families /\ TypeOK
  BY DEF FInv, IInv
<1>2. ASSUME NEW k \in Codes, NEW u \in Users, NEW c \in Clients, NEW S \in SUBSET Scopes,
             SaveCode(k, u, c, S)
      PROVE  Families'
  <2>1. CalmTokens /\ CalmCall
    BY <1>2 DEF SaveCode, CalmTokens, CalmCall, Live, Busy
  <2>2. QED
    BY <1>1, <2>1, CalmFamilies
<1>3. ASSUME NEW h \in Procs, NEW c \in Clients, NEW k \in Codes, NEW matches \in BOOLEAN,
             Exchange(h, c, k, matches), call' # call
      PROVE  Families'
  <2>1. c = codes[k].grant.client /\ matches
    BY <1>3 DEF Exchange
  <2>2. QED
    BY <1>1, <1>3, <2>1, ExchangeFamilies
<1>4. ASSUME NEW h \in Procs, NEW c \in Clients, NEW t \in Tokens, NEW want \in SUBSET Scopes,
             Refresh(h, c, t, want), call' # call
      PROVE  Families'
  <2>1. c = tokens[t].grant.client /\ want \subseteq tokens[t].grant.scopes
    BY <1>4 DEF Refresh
  <2>2. QED
    BY <1>1, <1>4, <2>1, RefreshFamilies
<1>5. ASSUME NEW h \in Procs, Save(h) PROVE Families'
  BY <1>1, <1>5, SaveFamilies
<1>6. CASE Calm
  BY <1>1, <1>6, CalmFamilies DEF Calm
<1>7. QED
  BY <1>1, <1>2, <1>3, <1>4, <1>5, <1>6, CalmSteps

(* History changes by a revoking UPDATE and by nothing else.               *)
LEMMA CutBy ==
    ASSUME FInv, [Next]_vars, cut' # cut
    PROVE  \E S, why : Closed(S) /\ why # "quiet" /\ Kill(S) /\ Cut(S, why) /\ CalmCall
<1>1. IInv /\ Families /\ TypeOK
  BY DEF FInv, IInv
<1>2. Idle.pc \notin {"taken", "save"} /\ (UNCHANGED call => CalmCall)
  BY DEF Idle, CalmCall, Busy
<1>3. ASSUME NEW h \in Procs, RevokeFamily(h)
      PROVE  Closed(Suspect(h)) /\ Kill(Suspect(h)) /\ Cut(Suspect(h), "replay") /\ CalmCall
  BY <1>1, <1>2, <1>3, RevocationsClosed, QuietCall DEF RevokeFamily, Done
<1>4. ASSUME NEW u \in Users, NEW c \in Clients, RevokeConsent(u, c)
      PROVE  Closed(OfApp(u, c)) /\ Kill(OfApp(u, c)) /\ Cut(OfApp(u, c), "app") /\ CalmCall
  BY <1>1, <1>2, <1>4, RevocationsClosed DEF RevokeConsent
<1>5. ASSUME NEW u \in Users, RevokeUserTokens(u)
      PROVE  Closed(OfUser(u)) /\ Kill(OfUser(u)) /\ Cut(OfUser(u), "account") /\ CalmCall
  BY <1>1, <1>2, <1>5, RevocationsClosed DEF RevokeUserTokens
<1>6. ASSUME NEW h \in Procs, DisableRevokes(h)
      PROVE  \E S : Closed(S) /\ Kill(S) /\ Cut(S, "account") /\ CalmCall
  <2>1. PICK u : u = call[h].grant.user
    OBVIOUS
  <2>2. Closed(OfUser(u)) /\ Kill(OfUser(u)) /\ Cut(OfUser(u), "account") /\ CalmCall
    BY <1>1, <1>2, <1>6, <2>1, RevocationsClosed, QuietCall DEF DisableRevokes, Done
  <2>3. QED
    BY <2>2
<1>7. CASE UNCHANGED vars
  BY <1>7 DEF vars
<1>8. QED
  BY <1>3, <1>4, <1>5, <1>6, <1>7
     DEF Next, SaveCode, Exchange, Refresh, Replay, CheckUser, Save, Die, Revoke, ExpireToken,
         Cleanup, ExpireCode, Enable, Disable

(* The holders of a step that cuts nothing are no holders of a login that   *)
(* was cut.                                                                *)
LEMMA CutStep ==
    ASSUME FInv, [Next]_vars
    PROVE  CutHadToken' /\ CutLoginStaysDead'
<1>1. /\ IInv /\ TypeOK /\ CutHadToken /\ CutLoginStaysDead
      /\ codes \in [Codes -> Row] /\ tokens \in [Tokens -> Row] /\ call \in [Procs -> Call]
  BY DEF FInv, IInv, TypeOK
<1>2. CASE cut' # cut
  BY <1>2, CutBy, CutEnds
<1>3. CASE UNCHANGED cut
  <2>1. ASSUME NEW k \in Codes, NEW u \in Users, NEW c \in Clients, NEW S \in SUBSET Scopes,
               SaveCode(k, u, c, S)
        PROVE  CutHadToken' /\ CutLoginStaysDead'
    BY <1>1, <2>1, UncutKeeps DEF SaveCode, LiveOf, Live, Holds, Used
  <2>2. ASSUME NEW h \in Procs, NEW c \in Clients, NEW k \in Codes, NEW matches \in BOOLEAN,
               Exchange(h, c, k, matches), call' # call
        PROVE  CutHadToken' /\ CutLoginStaysDead'
    <3>1. codes[k].state = "live" /\ UNCHANGED tokens
      BY <2>2 DEF Exchange
    <3>2. codes[k].grant \in Grant /\ codes[k].grant.login = k
      BY <1>1, <3>1 DEF IInv, Row, CodeIsItsLogin
    <3>3. Take(h, c, codes[k].grant, None)
      BY <2>2 DEF Exchange
    <3>4. \A l : \A i \in Procs : Holds(i, l)' => Holds(i, l) \/ l = k
      BY <1>1, <3>2, <3>3, TakeHolds DEF Holds
    <3>5. "quiet" \notin cut[k]
      BY <1>1, <3>1 DEF IInv, Unredeemed, CutHadToken, Logins
    <3>6. QED
      BY <1>1, <1>3, <3>1, <3>4, <3>5, UncutKeeps DEF LiveOf, Live, Used
  <2>3. ASSUME NEW h \in Procs, NEW c \in Clients, NEW t \in Tokens, NEW want \in SUBSET Scopes,
               Refresh(h, c, t, want), call' # call
        PROVE  CutHadToken' /\ CutLoginStaysDead'
    <3>1. /\ Live(t)
          /\ \A s \in Tokens : /\ tokens'[s].grant = tokens[s].grant
                               /\ Used(s) => Used(s)'
                               /\ Live(s)' => Live(s)
      BY <1>1, <2>3 DEF Refresh, Row, Live, Used
    <3>2. PICK l : l = tokens[t].grant.login
      OBVIOUS
    <3>3. /\ call'[h].grant.login = l
          /\ \A i \in Procs : i # h => call'[i] = call[i]
      <4>1. tokens[t].grant \in Grant /\ tokens[t].grant.scopes \in SUBSET Scopes
        BY <1>1 DEF Row, Grant
      <4>2. PICK n : n = [tokens[t].grant EXCEPT !.scopes =
                            IF want = {} THEN tokens[t].grant.scopes ELSE want]
        OBVIOUS
      <4>3. n = Narrowed(t, want) /\ n \in Grant
        BY <4>1, <4>2, GrantType DEF Narrowed, Grant
      <4>4. n.login = l
        BY <3>2, <4>1, <4>2 DEF Grant
      <4>5. Take(h, c, n, tokens[t].family)
        BY <2>3, <4>3 DEF Refresh
      <4>6. QED
        BY <1>1, <4>3, <4>4, <4>5, TakeHolds
    <3>4. \A m : \A i \in Procs : Holds(i, m)' => Holds(i, m) \/ m = l
      BY <3>3 DEF Holds
    <3>5. \A m \in Logins : "quiet" \in cut[m] => m # l
      BY <1>1, <3>1, <3>2 DEF CutLoginStaysDead
    <3>6. QED
      BY <1>1, <1>3, <3>1, <3>4, <3>5, UncutKeeps DEF LiveOf
  <2>4. ASSUME NEW h \in Procs, Save(h)
        PROVE  CutHadToken' /\ CutLoginStaysDead'
    <3>1. PICK t \in Tokens : /\ tokens[t].state = "unused"
                              /\ tokens' = [tokens EXCEPT ![t] =
                                    [state |-> "live", grant |-> call[h].grant,
                                     family |-> IF call[h].family = None THEN t ELSE call[h].family]]
      BY <2>4 DEF Save
    <3>2. PICK l : l = call[h].grant.login
      OBVIOUS
    <3>3. /\ Holds(h, l)
          /\ \A s \in Tokens : s # t => tokens'[s] = tokens[s]
          /\ \A s \in Tokens, m \in Logins : LiveOf(s, m)' => LiveOf(s, m) \/ m = l
      BY <1>1, <2>4, <3>1, <3>2 DEF Save, Holds, LiveOf, Live
    <3>4. \A m : \A i \in Procs : Holds(i, m)' => Holds(i, m)
      BY <1>1, <2>4 DEF Save, Done, Idle, Holds
    <3>5. \A m \in Logins : "quiet" \in cut[m] => m # l
      BY <1>1, <3>3 DEF CutLoginStaysDead
    <3>6. \A s \in Tokens : Used(s) => Used(s)' /\ tokens'[s].grant = tokens[s].grant
      BY <3>1, <3>3 DEF Used
    <3>7. QED
      BY <1>1, <1>3, <3>3, <3>4, <3>5, <3>6, UncutKeeps
  <2>5. CASE Calm
    <3>1. /\ \A t \in Tokens : (Used(t)' <=> Used(t)) /\ tokens'[t].grant = tokens[t].grant
          /\ \A l : \A t \in Tokens : LiveOf(t, l)' => LiveOf(t, l)
          /\ \A l : \A h \in Procs : Holds(h, l)' => Holds(h, l)
      BY <2>5 DEF Calm, CalmTokens, CalmCall, LiveOf, Holds, Busy, Used
    <3>2. QED
      BY <1>1, <1>3, <3>1, UncutKeeps
  <2>6. QED
    BY <1>1, <2>1, <2>2, <2>3, <2>4, <2>5, CalmSteps
<1>4. QED
  BY <1>2, <1>3

-----------------------------------------------------------------------------
LEMMA InitFamilies == Init => Families /\ CutHadToken /\ CutLoginStaysDead
<1> SUFFICES ASSUME Init PROVE Families /\ CutHadToken /\ CutLoginStaysDead
  OBVIOUS
<1>1. PICK u \in Users, c \in Clients :
        tokens = [t \in Tokens |->
              IF t \in Legacy
              THEN [state |-> "live", family |-> None,
                    grant |-> [user |-> u, client |-> c, scopes |-> Scopes, login |-> t]]
              ELSE Unused]
  BY DEF Init
<1>2. \A t \in Tokens :
         IF t \in Legacy
         THEN /\ Used(t) /\ tokens[t].family = None /\ tokens[t].grant.login = t
              /\ tokens[t].grant.user = u /\ tokens[t].grant.client = c
         ELSE ~Used(t)
  BY <1>1 DEF Used, Unused
<1>3. \A h \in Procs : ~Busy(h)
  BY DEF Init, Idle, Busy
<1>4. LegacyAsIssued /\ LegacyUnrotated
  BY <1>2, GrantsAssumption DEF LegacyAsIssued, LegacyUnrotated
<1>5. LegacyKept
  BY <1>2, <1>3 DEF LegacyKept, Kept, Logins
<1>6. FamiliesRooted /\ HolderFamily
  BY <1>2, <1>3 DEF FamiliesRooted, Rooted, HolderFamily
<1>7. FamilyIsLogin
  BY <1>2 DEF FamilyIsLogin, Used
<1>8. CutHadToken /\ CutLoginStaysDead
  BY DEF Init, CutHadToken, CutLoginStaysDead
<1>9. QED
  BY <1>4, <1>5, <1>6, <1>7, <1>8 DEF Families

THEOREM FamiliesInductive == Spec => []FInv
<1>1. Init => FInv
  BY InitEstablishes, InitFamilies DEF FInv
<1>2. FInv /\ [Next]_vars => FInv'
  <2>1. ASSUME FInv, [Next]_vars PROVE IInv' /\ Families' /\ CutHadToken' /\ CutLoginStaysDead'
    BY <2>1, StepKeeps, FamilyStep, CutStep DEF FInv
  <2>2. QED
    BY <2>1 DEF FInv
<1>3. QED
  BY <1>1, <1>2, PTL DEF Spec

(* family_id "ties every token rotated out of one login together", and      *)
(* nobody else's to it, in every reachable state.                          *)
THEOREM FamiliesAreLogins == Spec => []FamilyIsLogin
<1>1. FInv => FamilyIsLogin
  BY DEF FInv, Families
<1>2. QED
  BY <1>1, FamiliesInductive, PTL

(* A login revoked while no handler was between a consume and its save has  *)
(* no live token again, by whatever chain of requests.                     *)
THEOREM CutLoginsStayDead == Spec => []CutLoginStaysDead
<1>1. FInv => CutLoginStaysDead
  BY DEF FInv
<1>2. QED
  BY <1>1, FamiliesInductive, PTL
=============================================================================
