------------------------ MODULE AuthorizationProofs ------------------------
(***************************************************************************)
(* What Authorization promises, for any number of replicas, apps, users,   *)
(* browsers and handlers: its types, which keys are trusted, and that apps *)
(* learn only what was approved.  Steps of a boot leave Consent's state    *)
(* alone and requests leave the boot's, so the invariant is in two parts:  *)
(* BootInv, which only BootNext disturbs, and ServeInv.  Last, that Load   *)
(* hands on what Boot assumes of Configs, whatever is in the file.         *)
(***************************************************************************)
EXTENDS Authorization, Configuration, FiniteSetTheorems, TLAPS

(* The replicas that found the table empty and are yet to insert a key.    *)
Making == {n \in Replicas : replica[n].pc = "make"}

(* One replica's progress, K being the keys of the table.                  *)
RowOK(row, K) ==
    /\ row \in Replica
    /\ row.ring \subseteq K
    /\ row.signs = IF row.ring = {} THEN None ELSE Newest(row.ring)
    /\ row.pc = "reread" => K # {}
    /\ row.pc \in {"sync", "up"} <=> row.ring # {}
    /\ row.pc # "down" => row.config \in Configs
    /\ row.pc = "sync" => row.todo # {} /\ row.todo \subseteq DOMAIN row.config.apps

(* Once there is a key, there are no more keys than replicas even if every *)
(* replica that found none inserts its own.                                *)
BootInv ==
    /\ keys \in SUBSET Kids /\ IsFiniteSet(keys)
    /\ keys # {} => Cardinality(keys) + Cardinality(Making) <= Cardinality(Replicas)
    /\ replica \in [Replicas -> Replica]
    /\ \A n \in Replicas : RowOK(replica[n], keys)
    /\ registry \in [Clients -> Registration]
    /\ \A c \in Clients : registry[c].redirects # {} => registry[c].scopes # {}
    /\ work \in 0 .. MaxWork

(* A table that is not empty has a newest row.                             *)
LEMMA NewestIsOne ==
    ASSUME NEW S \in SUBSET Kids, S # {}
    PROVE  Newest(S) \in S
  BY KidsAssumption DEF Newest

LEMMA DownIsOK == ASSUME NEW K PROVE RowOK(Down, K)
  BY BootAssumption DEF RowOK, Down, Replica, PC

LEMMA MakingFinite ==
    /\ IsFiniteSet(Making) /\ Cardinality(Making) \in Nat
    /\ Cardinality(Replicas) \in Nat /\ Cardinality(Making) <= Cardinality(Replicas)
  <1>1. Making \in SUBSET Replicas  BY DEF Making
  <1> QED  BY <1>1, BootAssumption, FS_Subset, FS_CardinalityType

(* One replica takes a step, and no key is lost.                           *)
LEMMA RowChanges ==
    ASSUME BootInv, NEW n \in Replicas, NEW row,
           replica' = [replica EXCEPT ![n] = row], keys \subseteq keys', RowOK(row, keys')
    PROVE  /\ replica' \in [Replicas -> Replica]
           /\ \A m \in Replicas : RowOK(replica'[m], keys')
           /\ replica'[n] = row /\ \A m \in Replicas \ {n} : replica'[m] = replica[m]
  <1>1. replica'[n] = row /\ \A m \in Replicas \ {n} : replica'[m] = replica[m]  BY DEF BootInv
  <1>2. replica' \in [Replicas -> Replica]  BY DEF BootInv, RowOK
  <1>3. ASSUME NEW m \in Replicas PROVE RowOK(replica'[m], keys')
    <2>1. CASE m = n  BY <2>1, <1>1
    <2>2. CASE m # n
      <3>1. replica'[m] = replica[m] /\ RowOK(replica[m], keys)  BY <2>2, <1>1 DEF BootInv
      <3> QED  BY <3>1 DEF RowOK
    <2> QED  BY <2>1, <2>2
  <1> QED  BY <1>1, <1>2, <1>3

(* It starts no key of its own and the tables of keys and apps stay.       *)
LEMMA QuietRow ==
    ASSUME BootInv, NEW n \in Replicas, NEW row, UNCHANGED <<keys, registry>>, work' \in 0 .. MaxWork,
           replica' = [replica EXCEPT ![n] = row], RowOK(row, keys),
           keys = {} \/ row.pc # "make"
    PROVE  BootInv'
  <1>1. /\ replica' \in [Replicas -> Replica]
        /\ \A m \in Replicas : RowOK(replica'[m], keys')
        /\ replica'[n] = row /\ \A m \in Replicas \ {n} : replica'[m] = replica[m]
        BY RowChanges
  <1>2. ASSUME keys # {} PROVE Cardinality(Making') <= Cardinality(Making) /\ Cardinality(Making') \in Nat
    <2>1. Making' \in SUBSET Making  BY <1>1, <1>2 DEF Making
    <2> QED  BY <2>1, MakingFinite, FS_Subset, FS_CardinalityType
  <1>3. Cardinality(keys) \in Nat  BY FS_CardinalityType DEF BootInv
  <1>4. keys' # {} => Cardinality(keys') + Cardinality(Making') <= Cardinality(Replicas)
        BY <1>2, <1>3, MakingFinite DEF BootInv
  <1> QED  BY <1>1, <1>4 DEF BootInv

(* A replica that loads the keys.                                          *)
LEMMA LoadKeeps ==
    ASSUME BootInv, NEW n \in Replicas, NEW cfg \in Configs, keys # {},
           Load(n, cfg), UNCHANGED <<keys, registry>>, work' \in 0 .. MaxWork
    PROVE  BootInv'
  <1> DEFINE row == [pc |-> Listening(DOMAIN cfg.apps), ring |-> keys, signs |-> Newest(keys),
                     config |-> cfg, todo |-> DOMAIN cfg.apps]
  <1>1. replica' = [replica EXCEPT ![n] = row]  BY DEF Load
  <1>2. Newest(keys) \in keys  BY NewestIsOne DEF BootInv
  <1>3. DOMAIN cfg.apps \subseteq Clients  BY ConfigAssumption DEF WellFormed
  <1>4. RowOK(row, keys)  BY <1>2, <1>3 DEF BootInv, RowOK, Replica, PC, Listening
  <1>5. row.pc # "make"  BY DEF Listening
  <1> HIDE DEF row
  <1> QED  BY <1>1, <1>4, <1>5, QuietRow

LEMMA StartKeeps ==
    ASSUME BootInv, NEW n \in Replicas, NEW cfg \in Configs, Start(n, cfg)
    PROVE  BootInv'
  <1>1. work' \in 0 .. MaxWork  BY BootAssumption DEF Start, Count, BootInv
  <1>2. CASE keys = {}
    <2> DEFINE row == [Down EXCEPT !.pc = "make", !.config = cfg]
    <2>1. replica' = [replica EXCEPT ![n] = row]  BY <1>2 DEF Start
    <2>2. RowOK(row, keys)  BY BootAssumption DEF RowOK, Down, Replica, PC
    <2> HIDE DEF row
    <2> QED  BY <1>1, <1>2, <2>1, <2>2, QuietRow DEF Start
  <1>3. CASE keys # {}
    <2>1. Load(n, cfg)  BY <1>3 DEF Start
    <2> QED  BY <1>1, <1>3, <2>1, LoadKeeps DEF Start
  <1> QED  BY <1>2, <1>3

(* One key more in the table, one replica fewer about to make one.         *)
LEMMA MakeKeeps ==
    ASSUME BootInv, NEW n \in Replicas, Make(n)
    PROVE  BootInv'
  <1> DEFINE row == [replica[n] EXCEPT !.pc = "reread"]
  <1>1. PICK kid \in Kids \ keys : keys' = keys \cup {kid}  BY DEF Make
  <1>2. replica' = [replica EXCEPT ![n] = row]  BY DEF Make
  <1>3. RowOK(row, keys')
    <2>1. RowOK(replica[n], keys) /\ replica[n].pc = "make"  BY DEF BootInv, Make
    <2>2. replica[n].ring = {} /\ replica[n] \in Replica  BY <2>1 DEF RowOK
    <2>3. row \in Replica /\ row.pc = "reread" /\ row.ring = {} /\ row.signs = replica[n].signs
            /\ row.config = replica[n].config
          BY <2>2 DEF Replica, PC
    <2> HIDE DEF row
    <2> QED  BY <1>1, <2>1, <2>2, <2>3 DEF RowOK
  <1>4. row.pc = "reread"  BY DEF BootInv, Replica
  <1> HIDE DEF row
  <1>5. /\ replica' \in [Replicas -> Replica]
        /\ \A m \in Replicas : RowOK(replica'[m], keys')
        /\ replica'[n] = row /\ \A m \in Replicas \ {n} : replica'[m] = replica[m]
        BY <1>1, <1>2, <1>3, RowChanges
  <1>6. Making' = Making \ {n} /\ n \in Making  BY <1>4, <1>5 DEF Making, Make
  <1>7. Cardinality(Making') = Cardinality(Making) - 1
        BY <1>6, MakingFinite, FS_RemoveElement
  <1>8. /\ IsFiniteSet(keys') /\ Cardinality(keys') = Cardinality(keys) + 1
        /\ Cardinality(keys) \in Nat
        BY <1>1, FS_AddElement, FS_CardinalityType DEF BootInv
  <1>9. Cardinality(keys') + Cardinality(Making') <= Cardinality(Replicas)
    <2>1. CASE keys = {}
      <3>1. Cardinality(keys) = 0  BY <2>1, FS_EmptySet
      <3> QED  BY <3>1, <1>7, <1>8, MakingFinite
    <2>2. CASE keys # {}
      <3>1. Cardinality(keys) + Cardinality(Making) <= Cardinality(Replicas)  BY <2>2 DEF BootInv
      <3> QED  BY <3>1, <1>7, <1>8, MakingFinite
    <2> QED  BY <2>1, <2>2
  <1> QED  BY <1>1, <1>5, <1>8, <1>9 DEF Make, BootInv

LEMMA SyncAppKeeps ==
    ASSUME BootInv, NEW n \in Replicas, NEW c \in Clients, SyncApp(n, c)
    PROVE  BootInv'
  <1> DEFINE todo == replica[n].todo \ {c}
             row == [replica[n] EXCEPT !.todo = todo, !.pc = Listening(todo)]
             app == replica[n].config.apps[c]
             client == [app EXCEPT !.secret = IF app.secret = None THEN registry[c].secret ELSE app.secret]
  <1>1. /\ RowOK(replica[n], keys) /\ replica[n] \in Replica /\ replica[n].pc = "sync"
        /\ replica[n].ring # {} /\ replica[n].config \in Configs
        BY DEF SyncApp, BootInv, RowOK
  <1>2. replica' = [replica EXCEPT ![n] = row] /\ registry' = [registry EXCEPT ![c] = client]
        /\ UNCHANGED <<keys, work>>
        BY DEF SyncApp, Upsert, BootInv
  <1>3. c \in DOMAIN replica[n].config.apps  BY <1>1 DEF SyncApp, RowOK
  <1>4. app \in Registration /\ app.scopes # {}  BY <1>1, <1>3, ConfigAssumption DEF WellFormed
  <1>5. client \in Registration /\ client.scopes = app.scopes
    <2>1. registry[c].secret \in Secrets \cup {None}  BY DEF BootInv, Registration
    <2> QED  BY <1>4, <2>1 DEF Registration
  <1>6. /\ row \in Replica /\ row.pc = Listening(todo) /\ row.ring = replica[n].ring
        /\ row.signs = replica[n].signs /\ row.config = replica[n].config /\ row.todo = todo
        BY <1>1 DEF Replica, PC, Listening
  <1> HIDE DEF row, client
  <1>7. todo \subseteq DOMAIN replica[n].config.apps  BY <1>1 DEF RowOK
  <1>8. RowOK(row, keys)  BY <1>1, <1>6, <1>7 DEF RowOK, Listening
  <1>9. row.pc # "make"  BY <1>6 DEF Listening
  <1>10. /\ registry' \in [Clients -> Registration]
         /\ \A d \in Clients : registry'[d].redirects # {} => registry'[d].scopes # {}
         BY <1>2, <1>4, <1>5 DEF BootInv
  <1>11. /\ replica' \in [Replicas -> Replica]
         /\ \A m \in Replicas : RowOK(replica'[m], keys')
         /\ replica'[n] = row /\ \A m \in Replicas \ {n} : replica'[m] = replica[m]
         BY <1>2, <1>8, RowChanges
  <1>12. Making' = Making  BY <1>1, <1>9, <1>11 DEF Making
  <1> QED  BY <1>2, <1>10, <1>11, <1>12 DEF BootInv

LEMMA BootNextKeeps == BootInv /\ BootNext => BootInv'
  <1> SUFFICES ASSUME BootInv, BootNext PROVE BootInv'
      OBVIOUS
  <1>1. ASSUME NEW n \in Replicas, NEW cfg \in Configs, Start(n, cfg) PROVE BootInv'
        BY <1>1, StartKeeps
  <1>2. ASSUME NEW n \in Replicas, Make(n) PROVE BootInv'
        BY <1>2, MakeKeeps
  <1>3. ASSUME NEW n \in Replicas, Reread(n) PROVE BootInv'
    <2>1. replica[n].config \in Configs /\ keys # {}  BY <1>3 DEF Reread, BootInv, RowOK
    <2> QED  BY <1>3, <2>1, LoadKeeps DEF Reread, BootInv
  <1>4. ASSUME NEW n \in Replicas, NEW c \in Clients, SyncApp(n, c) PROVE BootInv'
        BY <1>4, SyncAppKeeps
  <1>5. ASSUME NEW n \in Replicas, Stop(n) PROVE BootInv'
    <2>1. RowOK(Down, keys) /\ Down.pc # "make"  BY DownIsOK DEF Down
    <2> QED  BY <1>5, <2>1, QuietRow DEF Stop, BootInv
  <1> QED  BY <1>1, <1>2, <1>3, <1>4, <1>5 DEF BootNext

LEMMA BootInitGood == BootInit => BootInv
  <1> SUFFICES ASSUME BootInit PROVE BootInv
      OBVIOUS
  <1>1. work \in 0 .. MaxWork  BY BootAssumption DEF BootInit
  <1>2. Unregistered \in Registration /\ Unregistered.redirects = {}  BY DEF Unregistered, Registration
  <1>3. CASE Fresh
    <2>1. IsFiniteSet(keys) /\ keys \in SUBSET Kids  BY <1>3, FS_EmptySet DEF Fresh
    <2>2. replica \in [Replicas -> Replica] /\ \A n \in Replicas : RowOK(replica[n], keys)
          BY <1>3, DownIsOK DEF Fresh, RowOK
    <2> QED  BY <1>1, <1>2, <1>3, <2>1, <2>2 DEF Fresh, BootInv
  <1>4. ASSUME NEW n \in Replicas, NEW kid \in Kids, NEW cfg \in Configs, Running(n, kid, cfg) PROVE BootInv
    <2> DEFINE row == [pc |-> "up", ring |-> keys, signs |-> kid, config |-> cfg, todo |-> {}]
    <2>1. IsFiniteSet(keys) /\ Cardinality(keys) = 1 /\ keys = {kid}  BY <1>4, FS_Singleton DEF Running
    <2>2. Newest(keys) = kid  BY <2>1, NewestIsOne
    <2>3. RowOK(row, keys)  BY <2>1, <2>2 DEF RowOK, Replica, PC
    <2>4. row.pc = "up" /\ Down.pc = "down"  BY DEF Down
    <2>5. replica = [m \in Replicas |-> IF m = n THEN row ELSE Down]  BY <1>4 DEF Running
    <2> HIDE DEF row
    <2>6. \A m \in Replicas : RowOK(replica[m], keys)  BY <2>3, <2>5, DownIsOK
    <2>7. replica \in [Replicas -> Replica]  BY <2>3, <2>5, DownIsOK DEF RowOK
    <2>8. Making = {}  BY <2>4, <2>5 DEF Making
    <2>9. Cardinality(Making) = 0 /\ Cardinality(Replicas) \in Nat /\ Cardinality(Replicas) # 0
          BY <2>8, FS_EmptySet, FS_CardinalityType, BootAssumption
    <2>10. /\ registry \in [Clients -> Registration]
           /\ \A c \in Clients : registry[c].redirects # {} => registry[c].scopes # {}
           BY <1>2, <1>4, ConfigAssumption DEF Running, WellFormed
    <2> QED  BY <1>1, <2>1, <2>6, <2>7, <2>9, <2>10 DEF BootInv
  <1> QED  BY <1>3, <1>4 DEF BootInit

-----------------------------------------------------------------------------
(* A request that was parsed, and may be asked.                            *)
RequestOK(r) ==
    /\ r \in Request /\ r.scopes # {} /\ r.redirect # None
    /\ Exposed(r) => r.challenge # None /\ r.method = "S256"

(* What a page, a handler, a code and a token hold, a being approved.      *)
PageOK(x, signedIn) == x # None => x \in Page /\ (x.fresh => x.shown = signedIn)

CallOK(x, a) ==
    x # None => /\ x \in Call /\ RequestOK(x.request)
                /\ x.request.scopes \subseteq a[x.user][x.request.client]
                /\ x.granted \subseteq a[x.user][x.request.client]

CodeOK(x, a) ==
    x # None => /\ x \in Code /\ RequestOK(x.request)
                /\ x.request.scopes \subseteq a[x.user][x.request.client]

TokenOK(t, K, a) ==
    /\ t \in Token /\ t.kid \in K
    /\ t.user # None => /\ a[t.user][t.client] # {}
                        /\ t.scopes \subseteq a[t.user][t.client]
                        /\ t.tells # {} => "openid" \in a[t.user][t.client]
    /\ t.exposed => "verifier" \in t.proof

Granted == [Users -> [Clients -> SUBSET Scopes]]

(* Outside a race, one approval at most is being merged, into what the row *)
(* still says.                                                             *)
Clean(u, c) ==
    /\ consent[u][c] = stands[u][c]
    /\ \A h \in Procs : Merging(h, u, c) =>
          /\ call[h].granted = consent[u][c]
          /\ \A i \in Procs : Merging(i, u, c) => i = h

ServeInv ==
    /\ session \in [Browsers -> Users \cup {None}]
    /\ page \in [Browsers -> Page \cup {None}]
    /\ call \in [Procs -> Call \cup {None}]
    /\ codes \in [Codes -> Code \cup {None}]
    /\ consent \in Granted /\ approved \in Granted /\ stands \in Granted
    /\ racing \in [Users -> [Clients -> BOOLEAN]]
    /\ \A b \in Browsers : PageOK(page[b], session[b])
    /\ \A h \in Procs : CallOK(call[h], approved)
    /\ \A k \in Codes : CodeOK(codes[k], approved)
    /\ \A t \in issued : TokenOK(t, keys, approved)
    /\ \A u \in Users, c \in Clients : consent[u][c] \subseteq approved[u][c]
    /\ \A u \in Users, c \in Clients : ~racing[u][c] => Clean(u, c)

(* What parseAuthRequest lets through.                                     *)
LEMMA ParsedIsOK ==
    ASSUME BootInv, NEW catalogue, NEW q, q.client \in Clients, q.redirect \in Uris \cup {None},
           q.scopes \in SUBSET Scopes, q.challenge \in Challenges, q.method \in {"", "S256", "plain"},
           MayAsk(Parsed(q), catalogue)
    PROVE  RequestOK(Parsed(q)) /\ Parsed(q).client = q.client
  <1> DEFINE r == Parsed(q)
             app == registry[q.client]
  <1>1. /\ app.redirects \in SUBSET Uris /\ app.scopes \in SUBSET Scopes
        /\ app.confidential \in BOOLEAN
        /\ app.redirects # {} => app.scopes # {}
        BY DEF BootInv, Registration
  <1>2. /\ r.client = q.client
        /\ r.scopes = IF q.scopes = {} THEN app.scopes ELSE q.scopes
        /\ r.challenge = q.challenge
        /\ r.method = IF q.method = "" /\ q.challenge # None THEN "S256" ELSE q.method
        BY DEF Parsed
  <1>3. r.redirect \in registry[r.client].redirects /\ BoundToVerifier(r)  BY DEF MayAsk
  <1>4. r.redirect \in Uris /\ r.redirect # None /\ app.scopes # {}
    <2> HIDE DEF r
    <2> QED  BY <1>1, <1>2, <1>3, BootAssumption
  <1>5. r.scopes \in SUBSET Scopes /\ r.scopes # {}
    <2> HIDE DEF r, app
    <2> QED  BY <1>1, <1>2, <1>4
  <1>6. r.method \in {"", "S256", "plain"}
    <2> HIDE DEF r
    <2> QED  BY <1>2
  <1>7. r \in Request
    <2>1. ASSUME NEW redirect \in Uris, NEW scopes \in SUBSET Scopes, NEW method \in {"", "S256", "plain"}
          PROVE  [client |-> q.client, redirect |-> redirect, scopes |-> scopes, challenge |-> q.challenge,
                  method |-> method, public |-> ~app.confidential] \in Request
          BY <2>1 DEF Request
    <2> DEFINE uri == IF q.redirect = None /\ Cardinality(app.redirects) = 1
                      THEN CHOOSE u \in app.redirects : TRUE ELSE q.redirect
               asked == IF q.scopes = {} THEN app.scopes ELSE q.scopes
               how == IF q.method = "" /\ q.challenge # None THEN "S256" ELSE q.method
    <2>2. r = [client |-> q.client, redirect |-> uri, scopes |-> asked, challenge |-> q.challenge,
               method |-> how, public |-> ~app.confidential]
          BY DEF Parsed
    <2> HIDE DEF uri, asked, how, app
    <2>3. r.redirect = uri /\ r.scopes = asked /\ r.method = how
      <3> HIDE DEF r
      <3> QED  BY <2>2
    <2> HIDE DEF r
    <2> QED  BY <2>1, <2>2, <2>3, <1>4, <1>5, <1>6
  <1>8. r.public <=> ~app.confidential  BY DEF Parsed
  <1> HIDE DEF r
  <1>9. Exposed(r) => r.challenge # None /\ r.method = "S256"
        BY <1>2, <1>3, <1>8 DEF Exposed, BoundToVerifier
  <1> QED  BY <1>2, <1>4, <1>5, <1>7, <1>9 DEF RequestOK, r

(* Approvals only grow.                                                    *)
LEMMA ApprovedGrows ==
    ASSUME NEW a, NEW b, \A u \in Users, c \in Clients : a[u][c] \subseteq b[u][c]
    PROVE  /\ \A x : CallOK(x, a) => CallOK(x, b)
           /\ \A x : CodeOK(x, a) => CodeOK(x, b)
           /\ \A t, K : TokenOK(t, K, a) => TokenOK(t, K, b)
  <1>1. ASSUME NEW x, CallOK(x, a) PROVE CallOK(x, b)
    <2>1. CASE x = None  BY <2>1 DEF CallOK
    <2>2. CASE x # None
      <3>1. x.user \in Users /\ x.request.client \in Clients  BY <1>1, <2>2 DEF CallOK, Call, Request
      <3> QED  BY <1>1, <3>1 DEF CallOK
    <2> QED  BY <2>1, <2>2
  <1>2. ASSUME NEW x, CodeOK(x, a) PROVE CodeOK(x, b)
    <2>1. CASE x = None  BY <2>1 DEF CodeOK
    <2>2. CASE x # None
      <3>1. x.user \in Users /\ x.request.client \in Clients  BY <1>2, <2>2 DEF CodeOK, Code, Request
      <3> QED  BY <1>2, <3>1 DEF CodeOK
    <2> QED  BY <2>1, <2>2
  <1>3. ASSUME NEW t, NEW K, TokenOK(t, K, a) PROVE TokenOK(t, K, b)
    <2>1. t.client \in Clients /\ (t.user # None => t.user \in Users)  BY <1>3 DEF TokenOK, Token
    <2> QED  BY <1>3, <2>1 DEF TokenOK
  <1> QED  BY <1>1, <1>2, <1>3

LEMMA CleanStays ==
    ASSUME ServeInv, UNCHANGED <<call, consent, stands, racing>>
    PROVE  \A u \in Users, c \in Clients : ~racing'[u][c] => Clean(u, c)'
  BY DEF ServeInv, Clean, Merging, Free

(* A step of a boot: what is trusted grows, and nothing else is touched.   *)
LEMMA BootLeavesServing ==
    ASSUME ServeInv, keys \subseteq keys', UNCHANGED <<consentVars, issued>>
    PROVE  ServeInv'
  <1> USE DEF consentVars
  <1>1. \A t \in issued' : TokenOK(t, keys', approved')  BY DEF ServeInv, TokenOK
  <1>2. \A u \in Users, c \in Clients : ~racing'[u][c] => Clean(u, c)'  BY CleanStays
  <1> QED  BY <1>1, <1>2 DEF ServeInv

(* A browser changes hands: every page it has open is stale.               *)
LEMMA BrowserKeeps ==
    ASSUME ServeInv, NEW b \in Browsers, NEW who \in Users \cup {None},
           session' = [session EXCEPT ![b] = who], Stale(b),
           UNCHANGED <<keys, call, consent, codes, approved, stands, racing, issued>>
    PROVE  ServeInv'
  <1> DEFINE old == page[b]
             new == IF old = None THEN None ELSE [old EXCEPT !.fresh = FALSE]
  <1>1. page' = [page EXCEPT ![b] = new]  BY DEF Stale, ServeInv
  <1>2. new \in Page \cup {None} /\ PageOK(new, who)
    <2>1. old \in Page \cup {None}  BY DEF ServeInv
    <2> HIDE DEF old
    <2> QED  BY <2>1 DEF Page, PageOK
  <1> HIDE DEF new
  <1>3. page' \in [Browsers -> Page \cup {None}] /\ session' \in [Browsers -> Users \cup {None}]
        BY <1>1, <1>2 DEF ServeInv
  <1>4. ASSUME NEW d \in Browsers PROVE PageOK(page'[d], session'[d])
    <2>1. CASE d = b
      <3>1. page'[d] = new /\ session'[d] = who  BY <2>1, <1>1 DEF ServeInv
      <3> QED  BY <3>1, <1>2
    <2>2. CASE d # b
      <3>1. page'[d] = page[d] /\ session'[d] = session[d]  BY <2>2, <1>1 DEF ServeInv
      <3> QED  BY <3>1 DEF ServeInv
    <2> QED  BY <2>1, <2>2
  <1>5. \A u \in Users, c \in Clients : ~racing'[u][c] => Clean(u, c)'  BY CleanStays
  <1> QED  BY <1>3, <1>4, <1>5 DEF ServeInv

(* A handler goes on with a request, or lets go: no approval is merged.    *)
LEMMA HandlerKeeps ==
    ASSUME ServeInv, NEW h \in Procs, NEW row \in Call \cup {None}, CallOK(row, approved),
           row = None \/ row.pc # "merge", call' = [call EXCEPT ![h] = row],
           UNCHANGED <<keys, session, page, consent, approved, stands, racing, issued>>,
           codes' \in [Codes -> Code \cup {None}], \A k \in Codes : CodeOK(codes'[k], approved)
    PROVE  ServeInv'
  <1>1. /\ call' \in [Procs -> Call \cup {None}] /\ call'[h] = row
        /\ \A i \in Procs \ {h} : call'[i] = call[i]
        BY DEF ServeInv
  <1>2. \A i \in Procs : CallOK(call'[i], approved')  BY <1>1 DEF ServeInv
  <1>3. ASSUME NEW u \in Users, NEW c \in Clients, ~racing'[u][c] PROVE Clean(u, c)'
    <2>1. Clean(u, c)  BY <1>3 DEF ServeInv
    <2>2. ~Merging(h, u, c)'  BY <1>1 DEF Merging, Free
    <2>3. \A i \in Procs \ {h} : Merging(i, u, c)' <=> Merging(i, u, c)  BY <1>1 DEF Merging, Free
    <2> QED  BY <1>1, <2>1, <2>2, <2>3 DEF Clean
  <1> QED  BY <1>1, <1>2, <1>3 DEF ServeInv

LEMMA LetInKeeps ==
    ASSUME BootInv, ServeInv, NEW h \in Procs, NEW b \in Browsers, NEW q \in Queries, NEW catalogue,
           LetIn(h, b, q, catalogue), UNCHANGED <<keys, issued>>
    PROVE  ServeInv'
  <1> DEFINE r == Parsed(q)
             row == [pc |-> "issue", user |-> session[b], request |-> r, granted |-> {}]
  <1>1. q \in Query  BY ConsentAssumption
  <1>2. RequestOK(r) /\ r.client = q.client
    <2>1. /\ q.client \in Clients /\ q.redirect \in Uris \cup {None} /\ q.scopes \in SUBSET Scopes
          /\ q.challenge \in Challenges /\ q.method \in {"", "S256", "plain"}
          BY <1>1 DEF Query
    <2> QED  BY <2>1, ParsedIsOK DEF LetIn
  <1>3. session[b] \in Users /\ q.client \in Clients  BY <1>1 DEF LetIn, ServeInv, Query
  <1>4. r.scopes \subseteq approved[session[b]][r.client]
        BY <1>2, <1>3 DEF LetIn, HasConsent, ServeInv
  <1>5. call' = [call EXCEPT ![h] = row]  BY DEF LetIn
  <1> HIDE DEF r
  <1>6. row \in Call /\ CallOK(row, approved)
    <2>1. r \in Request  BY <1>2 DEF RequestOK
    <2>2. row \in Call  BY <1>3, <2>1 DEF Call
    <2> QED  BY <1>2, <1>4, <2>2 DEF CallOK
  <1> QED  BY <1>5, <1>6, HandlerKeeps DEF LetIn, ServeInv

LEMMA IssueCodeKeeps ==
    ASSUME ServeInv, NEW h \in Procs, IssueCode(h), UNCHANGED <<keys, issued>>
    PROVE  ServeInv'
  <1> DEFINE code == [state |-> "live", user |-> call[h].user, request |-> call[h].request]
  <1>1. PICK k \in Codes : codes' = [codes EXCEPT ![k] = code]  BY DEF IssueCode
  <1>2. CallOK(call[h], approved) /\ call[h] # None  BY DEF IssueCode, Free, ServeInv
  <1>3. code \in Code /\ CodeOK(code, approved)
        BY <1>2 DEF CallOK, CodeOK, Call, Code
  <1> HIDE DEF code
  <1>4. codes' \in [Codes -> Code \cup {None}] /\ \A j \in Codes : CodeOK(codes'[j], approved)
        BY <1>1, <1>3 DEF ServeInv
  <1>5. CallOK(None, approved) /\ None \in Call \cup {None}  BY DEF CallOK
  <1> QED  BY <1>4, <1>5, HandlerKeeps DEF IssueCode

LEMMA DieKeeps ==
    ASSUME ServeInv, NEW h \in Procs, Die(h), UNCHANGED <<keys, issued>>
    PROVE  ServeInv'
  <1>1. CallOK(None, approved) /\ None \in Call \cup {None}  BY DEF CallOK
  <1> QED  BY <1>1, HandlerKeeps DEF Die, ServeInv

LEMMA AskApprovalKeeps ==
    ASSUME BootInv, ServeInv, NEW b \in Browsers, NEW q \in Queries, NEW catalogue,
           AskApproval(b, q, catalogue), UNCHANGED <<keys, issued>>
    PROVE  ServeInv'
  <1> DEFINE r == Parsed(q)
             new == [request |-> r, shown |-> session[b], fresh |-> TRUE]
  <1>1. q \in Query  BY ConsentAssumption
  <1>2. r \in Request
    <2>1. /\ q.client \in Clients /\ q.redirect \in Uris \cup {None} /\ q.scopes \in SUBSET Scopes
          /\ q.challenge \in Challenges /\ q.method \in {"", "S256", "plain"}
          BY <1>1 DEF Query
    <2> QED  BY <2>1, ParsedIsOK DEF AskApproval, RequestOK
  <1>3. session[b] \in Users  BY DEF AskApproval, ServeInv
  <1>4. page' = [page EXCEPT ![b] = new]  BY DEF AskApproval
  <1> HIDE DEF r
  <1>5. new \in Page /\ PageOK(new, session[b])  BY <1>2, <1>3 DEF Page, PageOK
  <1> HIDE DEF new
  <1>6. page' \in [Browsers -> Page \cup {None}] /\ \A d \in Browsers : PageOK(page'[d], session'[d])
        BY <1>4, <1>5 DEF ServeInv, AskApproval
  <1>7. \A u \in Users, c \in Clients : ~racing'[u][c] => Clean(u, c)'  BY CleanStays DEF AskApproval
  <1> QED  BY <1>6, <1>7 DEF ServeInv, AskApproval

(* The one step that adds to what is approved.  What it approves, it       *)
(* approves for the user the page was shown to, who is the one signed in.  *)
LEMMA DecideKeeps ==
    ASSUME BootInv, ServeInv, NEW h \in Procs, NEW b \in Browsers, NEW catalogue,
           Decide(h, b, catalogue), UNCHANGED <<keys, issued>>
    PROVE  ServeInv'
  <1> DEFINE asked == [client |-> page[b].request.client, redirect |-> page[b].request.redirect,
                       scopes |-> page[b].request.scopes, challenge |-> page[b].request.challenge,
                       method |-> page[b].request.method]
             r == Posted(b)
             u == session[b]
             c == r.client
             row == [pc |-> "merge", user |-> u, request |-> r, granted |-> consent[u][c]]
  <1>1. page[b] # None /\ page[b] \in Page /\ page[b].shown = u /\ u \in Users
        BY DEF Decide, ServeInv, PageOK
  <1>2. page[b].request \in Request  BY <1>1 DEF Page
  <1>3. r = Parsed(asked)  BY DEF Posted
  <1>4. RequestOK(r) /\ c = page[b].request.client /\ c \in Clients
    <2>1. /\ asked.client \in Clients /\ asked.redirect \in Uris \cup {None} /\ asked.scopes \in SUBSET Scopes
          /\ asked.challenge \in Challenges /\ asked.method \in {"", "S256", "plain"}
          /\ asked.client = page[b].request.client
          BY <1>2 DEF Request
    <2>2. MayAsk(Parsed(asked), catalogue)  BY <1>3 DEF Decide
    <2> HIDE DEF asked
    <2> QED  BY <1>3, <2>1, <2>2, ParsedIsOK
  <1>5. /\ call' = [call EXCEPT ![h] = row]
        /\ approved' = [approved EXCEPT ![u][c] = @ \cup r.scopes]
        /\ racing' = [racing EXCEPT ![u][c] = @ \/ \E i \in Procs : Merging(i, u, c)]
        /\ UNCHANGED <<session, page, consent, codes, stands>>
    <2>1. Approves(h, b, r, consent[u][page[b].request.client])  BY DEF Decide
    <2> HIDE DEF r
    <2> QED  BY <1>1, <1>4, <2>1 DEF Approves
  <1>6. r \in Request /\ r.scopes \in SUBSET Scopes  BY <1>4 DEF RequestOK, Request
  <1> HIDE DEF r, u
  <1>7. approved' \in Granted /\ approved'[u][c] = approved[u][c] \cup r.scopes
        BY <1>1, <1>4, <1>5, <1>6 DEF ServeInv, Granted
  <1>8. \A v \in Users, d \in Clients : approved[v][d] \subseteq approved'[v][d]
        BY <1>1, <1>4, <1>5, <1>6 DEF ServeInv, Granted
  <1>9. row \in Call /\ CallOK(row, approved')
    <2>1. consent[u][c] \in SUBSET Scopes /\ consent[u][c] \subseteq approved[u][c]
          BY <1>1, <1>4 DEF ServeInv, Granted
    <2>2. row \in Call  BY <1>1, <1>6, <2>1 DEF Call
    <2> QED  BY <1>4, <1>7, <2>1, <2>2 DEF CallOK
  <1>10. row.pc = "merge" /\ row.user = u /\ row.request.client = c /\ row.granted = consent[u][c]
         OBVIOUS
  <1> HIDE DEF row, c
  <1>11. /\ call' \in [Procs -> Call \cup {None}] /\ call'[h] = row
         /\ \A i \in Procs \ {h} : call'[i] = call[i]
         BY <1>5, <1>9 DEF ServeInv
  <1>12. \A i \in Procs : CallOK(call'[i], approved')
    <2> TAKE i \in Procs
    <2>1. CASE i = h  BY <2>1, <1>9, <1>11
    <2>2. CASE i # h
      <3>1. CallOK(call[i], approved)  BY DEF ServeInv
      <3>2. CallOK(call[i], approved')  BY <3>1, <1>8, ApprovedGrows
      <3> QED  BY <2>2, <3>2, <1>11
    <2> QED  BY <2>1, <2>2
  <1>13. \A k \in Codes : CodeOK(codes'[k], approved')
    <2> TAKE k \in Codes
    <2>1. CodeOK(codes[k], approved)  BY DEF ServeInv
    <2>2. CodeOK(codes[k], approved')  BY <2>1, <1>8, ApprovedGrows
    <2> QED  BY <2>2, <1>5
  <1>14. \A t \in issued' : TokenOK(t, keys', approved')
    <2>1. ASSUME NEW t \in issued PROVE TokenOK(t, keys, approved')
      <3>1. TokenOK(t, keys, approved)  BY DEF ServeInv
      <3> QED  BY <3>1, <1>8, ApprovedGrows
    <2> QED  BY <2>1
  <1>15. \A v \in Users, d \in Clients : consent'[v][d] \subseteq approved'[v][d]
         BY <1>5, <1>8 DEF ServeInv
  <1>16. /\ racing' \in [Users -> [Clients -> BOOLEAN]]
         /\ \A v \in Users, d \in Clients : ~racing'[v][d] => ~racing[v][d]
         /\ ~racing'[u][c] => ~\E i \in Procs : Merging(i, u, c)
    <2> DEFINE now == racing[u][c] \/ \E i \in Procs : Merging(i, u, c)
    <2>1. racing' = [racing EXCEPT ![u][c] = now] /\ now \in BOOLEAN  BY <1>5
    <2>2. racing[u][c] => now  OBVIOUS
    <2>3. ~now => ~\E i \in Procs : Merging(i, u, c)  OBVIOUS
    <2> HIDE DEF now
    <2>4. racing'[u][c] = now  BY <1>1, <1>4, <2>1 DEF ServeInv
    <2>5. racing' \in [Users -> [Clients -> BOOLEAN]]  BY <1>1, <1>4, <2>1 DEF ServeInv
    <2>6. ASSUME NEW v \in Users, NEW d \in Clients, ~racing'[v][d] PROVE ~racing[v][d]
      <3>1. CASE v = u /\ d = c  BY <3>1, <2>2, <2>4, <2>6
      <3>2. CASE ~(v = u /\ d = c)
        <4>1. racing'[v][d] = racing[v][d]  BY <3>2, <1>1, <1>4, <2>1 DEF ServeInv
        <4> QED  BY <4>1, <2>6
      <3> QED  BY <3>1, <3>2
    <2> QED  BY <2>3, <2>4, <2>5, <2>6
  <1>17. ASSUME NEW v \in Users, NEW d \in Clients, ~racing'[v][d] PROVE Clean(v, d)'
    <2>1. Clean(v, d)  BY <1>16, <1>17 DEF ServeInv
    <2>2. \A i \in Procs \ {h} : Merging(i, v, d)' <=> Merging(i, v, d)  BY <1>11 DEF Merging, Free
    <2>3. CASE v = u /\ d = c
      <3>1. \A i \in Procs \ {h} : ~Merging(i, v, d)'  BY <2>2, <2>3, <1>16, <1>17
      <3> QED  BY <3>1, <2>1, <2>3, <1>5, <1>10, <1>11 DEF Clean
    <2>4. CASE ~(v = u /\ d = c)
      <3>1. ~Merging(h, v, d)'  BY <2>4, <1>10, <1>11 DEF Merging, Free
      <3> QED  BY <3>1, <2>1, <2>2, <1>5, <1>11 DEF Clean
    <2> QED  BY <2>3, <2>4
  <1> QED  BY <1>5, <1>7, <1>11, <1>12, <1>13, <1>14, <1>15, <1>16, <1>17 DEF ServeInv

(* What is written was approved, and outside a race is what stands.        *)
LEMMA SaveConsentKeeps ==
    ASSUME ServeInv, NEW h \in Procs, SaveConsent(h), UNCHANGED <<keys, issued>>
    PROVE  ServeInv'
  <1> DEFINE u == call[h].user
             c == call[h].request.client
             asked == call[h].request.scopes
             row == [call[h] EXCEPT !.pc = "issue"]
  <1>1. call[h] # None /\ call[h] \in Call /\ CallOK(call[h], approved) /\ call[h].pc = "merge"
        BY DEF SaveConsent, Free, ServeInv
  <1>2. /\ u \in Users /\ c \in Clients /\ asked \in SUBSET Scopes
        /\ call[h].granted \in SUBSET Scopes
        BY <1>1 DEF Call, Request
  <1>3. /\ consent' = [consent EXCEPT ![u][c] = call[h].granted \cup asked]
        /\ stands' = [stands EXCEPT ![u][c] = @ \cup asked]
        /\ call' = [call EXCEPT ![h] = row]
        /\ UNCHANGED <<session, page, codes, approved, racing>>
        BY DEF SaveConsent, Merged, ServeInv
  <1>4. /\ row \in Call /\ row.pc = "issue" /\ CallOK(row, approved)
    <2>1. /\ row \in Call /\ row.pc = "issue" /\ row.user = u /\ row.request = call[h].request
          /\ row.granted = call[h].granted
          BY <1>1 DEF Call
    <2> HIDE DEF row
    <2> QED  BY <1>1, <2>1 DEF CallOK
  <1>5. call[h].granted \cup asked \subseteq approved[u][c]  BY <1>1 DEF CallOK
  <1>6. Merging(h, u, c)  BY <1>1 DEF Merging, Free
  <1>7. ~racing[u][c] => consent[u][c] = stands[u][c] /\ call[h].granted = consent[u][c]
                           /\ \A i \in Procs : Merging(i, u, c) => i = h
        BY <1>2, <1>6 DEF ServeInv, Clean
  <1> HIDE DEF row, u, c, asked
  <1>8. /\ call' \in [Procs -> Call \cup {None}] /\ call'[h] = row
        /\ \A i \in Procs \ {h} : call'[i] = call[i]
        BY <1>3, <1>4 DEF ServeInv
  <1>9. /\ consent' \in Granted /\ stands' \in Granted
        /\ consent'[u][c] = call[h].granted \cup asked /\ stands'[u][c] = stands[u][c] \cup asked
        BY <1>2, <1>3 DEF ServeInv, Granted
  <1>10. \A v \in Users, d \in Clients :
            ~(v = u /\ d = c) => consent'[v][d] = consent[v][d] /\ stands'[v][d] = stands[v][d]
         BY <1>2, <1>3 DEF ServeInv, Granted
  <1>11. \A v \in Users, d \in Clients : consent'[v][d] \subseteq approved'[v][d]
         BY <1>3, <1>5, <1>9, <1>10 DEF ServeInv
  <1>12. \A i \in Procs : CallOK(call'[i], approved')  BY <1>3, <1>4, <1>8 DEF ServeInv
  <1>13. ASSUME NEW v \in Users, NEW d \in Clients, ~racing'[v][d] PROVE Clean(v, d)'
    <2>1. Clean(v, d)  BY <1>3, <1>13 DEF ServeInv
    <2>2. \A i \in Procs \ {h} : Merging(i, v, d)' <=> Merging(i, v, d)  BY <1>8 DEF Merging, Free
    <2>3. ~Merging(h, v, d)'  BY <1>4, <1>8 DEF Merging, Free
    <2>4. CASE v = u /\ d = c
      <3>1. \A i \in Procs : ~Merging(i, v, d)'  BY <2>2, <2>3, <2>4, <1>3, <1>7, <1>13
      <3>2. consent'[v][d] = stands'[v][d]  BY <2>4, <1>3, <1>7, <1>9, <1>13
      <3> QED  BY <3>1, <3>2 DEF Clean
    <2>5. CASE ~(v = u /\ d = c)  BY <2>5, <2>1, <2>2, <2>3, <1>8, <1>10 DEF Clean
    <2> QED  BY <2>4, <2>5
  <1> QED  BY <1>3, <1>8, <1>9, <1>11, <1>12, <1>13 DEF ServeInv

(* A disconnection forgets what stands; an approval under way is a race.   *)
LEMMA RevokeConsentKeeps ==
    ASSUME ServeInv, NEW b \in Browsers, NEW c \in Clients, RevokeConsent(b, c), UNCHANGED <<keys, issued>>
    PROVE  ServeInv'
  <1> DEFINE u == session[b]
             now == \E h \in Procs : Merging(h, u, c)
  <1>1. u \in Users  BY DEF RevokeConsent, ServeInv
  <1>2. /\ consent' = [consent EXCEPT ![u][c] = {}] /\ stands' = [stands EXCEPT ![u][c] = {}]
        /\ racing' = [racing EXCEPT ![u][c] = now] /\ now \in BOOLEAN
        /\ UNCHANGED <<session, page, call, codes, approved>>
        BY DEF RevokeConsent
  <1>3. ~now => \A h \in Procs : ~Merging(h, u, c)  OBVIOUS
  <1> HIDE DEF now, u
  <1>4. /\ consent' \in Granted /\ stands' \in Granted
        /\ consent'[u][c] = {} /\ stands'[u][c] = {}
        BY <1>1, <1>2 DEF ServeInv, Granted
  <1>5. racing' \in [Users -> [Clients -> BOOLEAN]] /\ racing'[u][c] = now
        BY <1>1, <1>2 DEF ServeInv
  <1>6. \A v \in Users, d \in Clients :
            ~(v = u /\ d = c) => consent'[v][d] = consent[v][d] /\ stands'[v][d] = stands[v][d]
                                   /\ racing'[v][d] = racing[v][d]
        BY <1>1, <1>2 DEF ServeInv, Granted
  <1>7. \A v \in Users, d \in Clients : consent'[v][d] \subseteq approved'[v][d]
        BY <1>2, <1>4, <1>6 DEF ServeInv
  <1>8. ASSUME NEW v \in Users, NEW d \in Clients, ~racing'[v][d] PROVE Clean(v, d)'
    <2>1. \A i \in Procs : Merging(i, v, d)' <=> Merging(i, v, d)  BY <1>2 DEF Merging, Free
    <2>2. CASE v = u /\ d = c  BY <2>1, <2>2, <1>3, <1>4, <1>5, <1>8 DEF Clean
    <2>3. CASE ~(v = u /\ d = c)
      <3>1. Clean(v, d)  BY <2>3, <1>6, <1>8 DEF ServeInv
      <3> QED  BY <2>1, <2>3, <3>1, <1>2, <1>6 DEF Clean
    <2> QED  BY <2>2, <2>3
  <1> QED  BY <1>2, <1>4, <1>5, <1>7, <1>8 DEF ServeInv

(* A code is spent, tokens are signed.                                     *)
LEMMA CodesAndTokens ==
    ASSUME ServeInv, UNCHANGED <<keys, session, page, call, consent, approved, stands, racing>>,
           codes' \in [Codes -> Code \cup {None}], \A k \in Codes : CodeOK(codes'[k], approved),
           \A t \in issued' : t \in issued \/ TokenOK(t, keys, approved)
    PROVE  ServeInv'
  <1>1. \A u \in Users, c \in Clients : ~racing'[u][c] => Clean(u, c)'  BY CleanStays
  <1>2. \A t \in issued' : TokenOK(t, keys', approved')  BY DEF ServeInv
  <1> QED  BY <1>1, <1>2 DEF ServeInv

LEMMA Spent ==
    ASSUME ServeInv, NEW k \in Codes, codes[k] # None, codes' = [codes EXCEPT ![k].state = "dead"]
    PROVE  /\ codes' \in [Codes -> Code \cup {None}]
           /\ \A j \in Codes : CodeOK(codes'[j], approved)
  <1> DEFINE code == [codes[k] EXCEPT !.state = "dead"]
  <1>1. codes' = [codes EXCEPT ![k] = code]  BY DEF ServeInv
  <1>2. CodeOK(codes[k], approved) /\ codes[k] \in Code  BY DEF ServeInv
  <1>3. code \in Code /\ code.user = codes[k].user /\ code.request = codes[k].request
        BY <1>2 DEF Code
  <1> HIDE DEF code
  <1>4. CodeOK(code, approved)  BY <1>2, <1>3 DEF CodeOK
  <1> QED  BY <1>1, <1>3, <1>4 DEF ServeInv

(* A replica that listens signs with a key of the table.                   *)
LEMMA SignsStored ==
    ASSUME BootInv, NEW n \in Replicas, Up(n)
    PROVE  replica[n].signs \in keys /\ replica[n].signs \in Kids
  <1>1. RowOK(replica[n], keys) /\ replica[n].pc = "up" /\ keys \in SUBSET Kids  BY DEF BootInv, Up
  <1>2. replica[n].ring # {} /\ replica[n].ring \in SUBSET Kids /\ replica[n].ring \subseteq keys
        BY <1>1 DEF RowOK
  <1>3. replica[n].signs \in replica[n].ring  BY <1>1, <1>2, NewestIsOne DEF RowOK
  <1> QED  BY <1>2, <1>3

(* An exposed code has a hashed challenge, so what matches it is its       *)
(* verifier.                                                               *)
LEMMA ExchangeKeeps ==
    ASSUME BootInv, ServeInv, NEW n \in Replicas, Up(n), NEW k \in Codes, NEW c \in Clients,
           NEW secret \in Secrets \cup {None}, NEW redirect \in Uris \cup {None}, NEW verifier \in Challenges,
           Exchange(n, k, c, secret, redirect, verifier), UNCHANGED keys
    PROVE  ServeInv'
  <1> DEFINE proof == {p \in {"secret", "verifier"} :
                        IF p = "secret" THEN HasSecret(c, secret)
                        ELSE verifier # None /\ codes[k].request.challenge = S256(verifier)}
             code == codes[k]
             r == code.request
  <1>1. code # None /\ code \in Code /\ CodeOK(code, approved)  BY DEF Exchange, ServeInv
  <1>2. /\ r \in Request /\ RequestOK(r) /\ code.user \in Users
        /\ r.scopes \subseteq approved[code.user][r.client]
        BY <1>1 DEF CodeOK, Code
  <1>3. /\ codes' = [codes EXCEPT ![k].state = "dead"]
        /\ issued' = IF Matches(code, c, redirect, verifier) THEN issued \cup Signed(n, code, c, proof)
                     ELSE issued
        /\ UNCHANGED <<session, page, call, consent, approved, stands, racing>>
        BY DEF Exchange
  <1>4. /\ codes' \in [Codes -> Code \cup {None}]
        /\ \A j \in Codes : CodeOK(codes'[j], approved)
        BY <1>1, <1>3, Spent
  <1>5. CASE ~Matches(code, c, redirect, verifier)
    <2>1. issued' = issued  BY <1>3, <1>5
    <2> QED  BY <1>3, <1>4, <2>1, CodesAndTokens
  <1>6. CASE Matches(code, c, redirect, verifier)
    <2> DEFINE kid == replica[n].signs
               open == Exposed(r)
    <2>1. kid \in keys /\ kid \in Kids  BY SignsStored
    <2>2. r.client = c /\ r.scopes \in SUBSET Scopes  BY <1>2, <1>6 DEF Matches, Request
    <2>3. open => "verifier" \in proof
      <3>1. ASSUME open PROVE verifier # None /\ r.challenge = S256(verifier)
        <4>1. r.challenge # None /\ r.method = "S256"  BY <1>2, <3>1 DEF RequestOK
        <4>2. VerifyPKCE(r.challenge, r.method, verifier)  BY <1>6 DEF Matches
        <4> HIDE DEF r
        <4> QED  BY <4>1, <4>2 DEF VerifyPKCE
      <3> QED  BY <3>1
    <2>4. proof \in SUBSET {"secret", "verifier"} /\ open \in BOOLEAN
      <3>1. open \in BOOLEAN  BY <1>2 DEF Exposed, Request, RedirectIsInterceptable
      <3> QED  BY <3>1
    <2> DEFINE access == [kid |-> kid, typ |-> "access", user |-> code.user, client |-> c,
                          scopes |-> r.scopes, tells |-> {}, proof |-> proof, exposed |-> open]
               id == [access EXCEPT !.typ = "id", !.scopes = {}, !.tells = IdClaims]
    <2>5. /\ Signed(n, code, c, proof) \subseteq {access, id}
          /\ id \in Signed(n, code, c, proof) => id = access \/ "openid" \in r.scopes
          BY DEF Signed
    <2> HIDE DEF kid, open, proof
    <2>6. access \in Token  BY <1>2, <2>1, <2>2, <2>4 DEF Token
    <2>7. /\ access.kid = kid /\ access.user = code.user /\ access.client = c
          /\ access.scopes = r.scopes /\ access.tells = {} /\ access.proof = proof /\ access.exposed = open
          OBVIOUS
    <2>8. /\ id \in Token /\ id.kid = kid /\ id.user = code.user /\ id.client = c /\ id.scopes = {}
          /\ id.proof = proof /\ id.exposed = open /\ id # access
          BY <1>2, <2>1, <2>2, <2>4 DEF Token, IdClaims
    <2> HIDE DEF access, id
    <2>9. approved[code.user][c] # {} /\ r.scopes \subseteq approved[code.user][c]
          BY <1>2, <2>2 DEF RequestOK
    <2>10. ASSUME NEW t \in Signed(n, code, c, proof) PROVE TokenOK(t, keys, approved)
      <3>1. CASE t = access  BY <1>2, <2>1, <2>2, <2>3, <2>6, <2>7, <2>9, <3>1 DEF TokenOK
      <3>2. CASE t = id
        <4>1. "openid" \in approved[code.user][c]  BY <2>5, <2>8, <2>9, <2>10, <3>2
        <4> QED  BY <1>2, <2>1, <2>2, <2>3, <2>8, <2>9, <3>2, <4>1 DEF TokenOK
      <3> QED  BY <2>5, <2>10, <3>1, <3>2
    <2>11. \A t \in issued' : t \in issued \/ TokenOK(t, keys, approved)  BY <1>3, <1>6, <2>10
    <2> QED  BY <1>3, <1>4, <2>11, CodesAndTokens
  <1> QED  BY <1>5, <1>6

LEMMA ServiceTokenKeeps ==
    ASSUME BootInv, ServeInv, NEW n \in Replicas, Up(n), NEW c \in Clients,
           NEW secret \in Secrets \cup {None}, NEW want \in SUBSET Scopes,
           ServiceToken(n, c, secret, want), UNCHANGED keys
    PROVE  ServeInv'
  <1> DEFINE scopes == IF want = {} THEN registry[c].scopes ELSE want
             t == [kid |-> replica[n].signs, typ |-> "access", user |-> None, client |-> c,
                   scopes |-> scopes, tells |-> {}, proof |-> {"secret"}, exposed |-> FALSE]
  <1>1. scopes \in SUBSET Scopes  BY DEF BootInv, Registration
  <1>2. issued' = issued \cup {t} /\ UNCHANGED <<session, page, call, consent, codes, approved, stands, racing>>
        BY DEF ServiceToken
  <1>3. replica[n].signs \in keys /\ replica[n].signs \in Kids  BY SignsStored
  <1> HIDE DEF scopes
  <1>4. t \in Token /\ t.user = None /\ t.exposed = FALSE /\ t.kid = replica[n].signs
        BY <1>1, <1>3 DEF Token
  <1> HIDE DEF t
  <1>5. TokenOK(t, keys, approved)  BY <1>3, <1>4 DEF TokenOK
  <1> QED  BY <1>2, <1>5, CodesAndTokens DEF ServeInv

LEMMA ExpireCodeKeeps ==
    ASSUME ServeInv, NEW k \in Codes, ExpireCode(k), UNCHANGED keys
    PROVE  ServeInv'
  <1>1. /\ codes' \in [Codes -> Code \cup {None}]
        /\ \A j \in Codes : CodeOK(codes'[j], approved)
        BY Spent DEF ExpireCode
  <1> QED  BY <1>1, CodesAndTokens DEF ExpireCode

-----------------------------------------------------------------------------
Inv == BootInv /\ ServeInv

LEMMA ServeKeeps ==
    ASSUME Inv, Serve
    PROVE  Inv'
  <1> USE DEF Inv
  <1>0. UNCHANGED <<keys, registry, replica>>  BY DEF Serve
  <1> DEFINE Done == ServeInv' /\ work' \in 0 .. MaxWork
  <1>a. Count => work' \in 0 .. MaxWork  BY BootAssumption DEF Count, BootInv
  <1>b. UNCHANGED work => work' \in 0 .. MaxWork  BY DEF BootInv
  <1>1. ASSUME NEW n \in Replicas, Up(n), Authorize(n), UNCHANGED issued PROVE Done
    <2> DEFINE catalogue == replica[n].config.catalogue
    <2>1. ASSUME NEW b \in Browsers, NEW q \in Queries, AskLogin(b, q, catalogue) PROVE Done
      <3>1. SignOut(b)  BY <2>1 DEF AskLogin
      <3> QED  BY <1>0, <1>b, <1>1, <3>1, BrowserKeeps DEF SignOut
    <2>2. ASSUME NEW b \in Browsers, NEW q \in Queries, AskApproval(b, q, catalogue) PROVE Done
      <3>1. Count  BY <2>2 DEF AskApproval
      <3> QED  BY <1>0, <1>a, <1>1, <2>2, <3>1, AskApprovalKeeps
    <2>3. ASSUME NEW b \in Browsers, NEW q \in Queries, NEW h \in Procs, LetIn(h, b, q, catalogue) PROVE Done
      <3>1. Count  BY <2>3 DEF LetIn
      <3> QED  BY <1>0, <1>a, <1>1, <2>3, <3>1, LetInKeeps
    <2> QED  BY <1>1, <2>1, <2>2, <2>3 DEF Authorize
  <1>2. ASSUME NEW n \in Replicas, Up(n), Decision(n), UNCHANGED issued PROVE Done
    <2>1. PICK h \in Procs, b \in Browsers : Decide(h, b, replica[n].config.catalogue)
          BY <1>2 DEF Decision
    <2>2. Count  BY <2>1 DEF Decide
    <2> QED  BY <1>0, <1>a, <1>2, <2>1, <2>2, DecideKeeps
  <1>3. ASSUME NEW n \in Replicas, Up(n), TokenRequest(n) PROVE Done
    <2>1. ASSUME NEW c \in Clients, NEW secret \in Secrets \cup {None}, NEW k \in Codes,
                 NEW redirect \in Uris \cup {None}, NEW verifier \in Challenges,
                 Exchange(n, k, c, secret, redirect, verifier)
          PROVE  Done
      <3>1. UNCHANGED work  BY <2>1 DEF Exchange
      <3> QED  BY <1>0, <1>b, <1>3, <2>1, <3>1, ExchangeKeeps
    <2>2. ASSUME NEW c \in Clients, NEW secret \in Secrets \cup {None}, NEW want \in SUBSET Scopes,
                 ServiceToken(n, c, secret, want)
          PROVE  Done
      <3>1. Count  BY <2>2 DEF ServiceToken
      <3> QED  BY <1>0, <1>a, <1>3, <2>2, <3>1, ServiceTokenKeeps
    <2> QED  BY <1>3, <2>1, <2>2 DEF TokenRequest
  <1>4. ASSUME NEW b \in Browsers, NEW c \in Clients, RevokeConsent(b, c), UNCHANGED issued PROVE Done
    <2>1. Count  BY <1>4 DEF RevokeConsent
    <2> QED  BY <1>0, <1>a, <1>4, <2>1, RevokeConsentKeeps
  <1>5. ASSUME NEW h \in Procs, SaveConsent(h) \/ IssueCode(h) \/ Die(h), UNCHANGED issued PROVE Done
    <2>1. UNCHANGED work  BY <1>5 DEF SaveConsent, IssueCode, Die
    <2> QED  BY <1>0, <1>b, <1>5, <2>1, SaveConsentKeeps, IssueCodeKeeps, DieKeeps
  <1>6. ASSUME NEW b \in Browsers, SignOut(b) \/ \E u \in Users : SignIn(b, u), UNCHANGED issued PROVE Done
    <2>1. PICK who \in Users \cup {None} : session' = [session EXCEPT ![b] = who]
          BY <1>6 DEF SignIn, SignOut
    <2> QED  BY <1>0, <1>b, <1>6, <2>1, BrowserKeeps DEF SignIn, SignOut
  <1>7. ASSUME NEW k \in Codes, ExpireCode(k) PROVE Done
    <2>1. UNCHANGED work  BY <1>7 DEF ExpireCode
    <2> QED  BY <1>0, <1>b, <1>7, <2>1, ExpireCodeKeeps
  <1>8. Done
    <2> HIDE DEF Done
    <2> QED  BY <1>1, <1>2, <1>3, <1>4, <1>5, <1>6, <1>7 DEF Serve, Disconnect, Handling
  <1>9. Making' = Making  BY <1>0 DEF Making
  <1> QED  BY <1>0, <1>8, <1>9 DEF BootInv

LEMMA KeysStay == BootNext => keys \subseteq keys'
  BY DEF BootNext, Start, Make, Reread, Stop, SyncApp

LEMMA NextKeeps == Inv /\ [Next]_vars => Inv'
  <1> SUFFICES ASSUME Inv, [Next]_vars PROVE Inv'
      OBVIOUS
  <1>1. CASE BootNext /\ UNCHANGED <<consentVars, issued>>
        BY <1>1, BootNextKeeps, KeysStay, BootLeavesServing DEF Inv
  <1>2. CASE Serve  BY <1>2, ServeKeeps
  <1>3. CASE UNCHANGED vars
    <2>1. UNCHANGED <<keys, registry, replica, work>> /\ UNCHANGED <<consentVars, issued>>
          BY <1>3 DEF vars, bootVars
    <2>2. Making' = Making  BY <2>1 DEF Making
    <2>3. BootInv'  BY <2>1, <2>2 DEF Inv, BootInv
    <2>4. ServeInv'  BY <2>1, BootLeavesServing DEF Inv
    <2> QED  BY <2>3, <2>4 DEF Inv
  <1> QED  BY <1>1, <1>2, <1>3 DEF Next

LEMMA InitGood == Init => Inv
  <1> SUFFICES ASSUME Init PROVE Inv
      OBVIOUS
  <1>1. BootInv  BY BootInitGood DEF Init
  <1>2. /\ session \in [Browsers -> Users \cup {None}] /\ page \in [Browsers -> Page \cup {None}]
        /\ call \in [Procs -> Call \cup {None}] /\ codes \in [Codes -> Code \cup {None}]
        /\ consent \in Granted /\ approved \in Granted /\ stands \in Granted
        /\ racing \in [Users -> [Clients -> BOOLEAN]]
        BY DEF Init, ConsentInit, Granted
  <1>3. /\ \A b \in Browsers : PageOK(page[b], session[b])
        /\ \A h \in Procs : CallOK(call[h], approved)
        /\ \A k \in Codes : CodeOK(codes[k], approved)
        /\ \A t \in issued : TokenOK(t, keys, approved)
        BY DEF Init, ConsentInit, PageOK, CallOK, CodeOK
  <1>4. /\ \A u \in Users, c \in Clients : consent[u][c] \subseteq approved[u][c]
        /\ \A u \in Users, c \in Clients : Clean(u, c)
        BY DEF Init, ConsentInit, Clean, Merging, Free
  <1> QED  BY <1>1, <1>2, <1>3, <1>4 DEF Inv, ServeInv

(* The invariant everything below follows from.                            *)
THEOREM Invariant == Spec => []Inv
  <1> QED  BY InitGood, NextKeeps, PTL DEF Spec

(* Rows, pages, handlers, codes and tokens are well formed: no code is     *)
(* without a redirect and scopes, and a replica that is past loading its   *)
(* keys has one to sign with.                                              *)
THEOREM TypeCorrect == Spec => []TypeOK
  <1>1. Inv => TypeOK
    <2> SUFFICES ASSUME Inv PROVE TypeOK
        OBVIOUS
    <2>1. ASSUME NEW n \in Replicas
          PROVE  /\ replica[n].pc # "down" => replica[n].config # None
                 /\ replica[n].pc \in {"sync", "up"} => replica[n].signs # None
                 /\ replica[n].pc = "sync" =>
                       replica[n].todo # {} /\ replica[n].todo \subseteq DOMAIN replica[n].config.apps
      <3>1. RowOK(replica[n], keys) /\ keys \in SUBSET Kids  BY DEF Inv, BootInv
      <3>2. replica[n].pc \in {"sync", "up"} => replica[n].signs \in Kids
            BY <3>1, NewestIsOne DEF RowOK
      <3> QED  BY <3>1, <3>2, BootAssumption DEF RowOK
    <2>2. BootTypeOK  BY <2>1 DEF Inv, BootInv, BootTypeOK
    <2>3. ConsentTypeOK  BY DEF Inv, ServeInv, ConsentTypeOK, CodeOK, RequestOK, Granted
    <2>4. issued \in SUBSET Token  BY DEF Inv, ServeInv, TokenOK
    <2> QED  BY <2>2, <2>3, <2>4 DEF TypeOK
  <1> QED  BY <1>1, Invariant, PTL

(* No app goes beyond what the user approved for it on a page shown to     *)
(* that user: consents and what handlers carry stay within what was        *)
(* approved, and the form's token ties a page to its session.  A token is   *)
(* signed from a code alone, an id token from one with openid.             *)
THEOREM NothingUnapproved == Spec => []OnlyWhatWasApproved
  <1>1. Inv => OnlyWhatWasApproved
    <2> SUFFICES ASSUME Inv PROVE OnlyWhatWasApproved
        OBVIOUS
    <2>1. \A k \in Codes : codes[k] # None =>
              codes[k].request.scopes \subseteq approved[codes[k].user][codes[k].request.client]
          BY DEF Inv, ServeInv, CodeOK
    <2>2. ASSUME NEW t \in issued, t.user # None
          PROVE  LET S == approved[t.user][t.client] IN
                 S # {} /\ t.scopes \subseteq S /\ (t.tells # {} => "openid" \in S)
          BY <2>2 DEF Inv, ServeInv, TokenOK
    <2>3. ASSUME NEW S, NEW T, S \subseteq T PROVE Fields(S) \subseteq Fields(T)
          BY <2>3 DEF Fields
    <2>4. ASSUME NEW t \in issued, t.user # None, NEW n \in Replicas
          PROVE  UserInfo(n, t) \subseteq Fields(approved[t.user][t.client])
      <3>1. Fields(t.scopes) \subseteq Fields(approved[t.user][t.client])  BY <2>2, <2>3, <2>4
      <3> QED  BY <3>1 DEF UserInfo
    <2> QED  BY <2>1, <2>2, <2>4 DEF OnlyWhatWasApproved
  <1> QED  BY <1>1, Invariant, PTL

(* SaveConsent's read and write lose or revive scopes only in a race.      *)
THEOREM ApprovalsStand == Spec => []ConsentStands
  <1>1. Inv => ConsentStands  BY DEF Inv, ServeInv, Clean, ConsentStands
  <1> QED  BY <1>1, Invariant, PTL

(* What a bystander may see of an exchange does not buy a token.           *)
THEOREM ExchangesProven == Spec => []ProvenExchange
  <1>1. Inv => ProvenExchange  BY DEF Inv, ServeInv, TokenOK, ProvenExchange
  <1> QED  BY <1>1, Invariant, PTL

(* Replicas that loaded the same keys sign with the same one, and no more  *)
(* keys are made than there are replicas.                                  *)
THEOREM SignersAgree == Spec => []OneSigner
  <1>1. Inv => OneSigner
    <2> SUFFICES ASSUME Inv PROVE OneSigner
        OBVIOUS
    <2>1. \A n \in Replicas : RowOK(replica[n], keys)  BY DEF Inv, BootInv
    <2>2. Cardinality(keys) <= Cardinality(Replicas)
      <3>1. CASE keys = {}  BY <3>1, FS_EmptySet, MakingFinite
      <3>2. CASE keys # {}
        <4>1. Cardinality(keys) + Cardinality(Making) <= Cardinality(Replicas) /\ Cardinality(keys) \in Nat
              BY <3>2, FS_CardinalityType DEF Inv, BootInv
        <4> QED  BY <4>1, MakingFinite
      <3> QED  BY <3>1, <3>2
    <2>3. ASSUME NEW n \in Replicas
          PROVE  /\ replica[n].ring \subseteq keys
                 /\ replica[n].ring # {} => replica[n].signs \in replica[n].ring
      <3>1. keys \in SUBSET Kids  BY DEF Inv, BootInv
      <3> QED  BY <2>1, <3>1, NewestIsOne DEF RowOK
    <2>4. \A n, m \in Replicas : replica[n].ring = replica[m].ring => replica[n].signs = replica[m].signs
          BY <2>1 DEF RowOK
    <2> QED  BY <2>2, <2>3, <2>4 DEF OneSigner
  <1> QED  BY <1>1, Invariant, PTL

(* A replica that loads its keys trusts every token signed before.         *)
THEOREM LoadedTrust == Spec => TrustedWhenRead
  <1> DEFINE Trusts == \A n \in Replicas : replica[n].ring = {} /\ replica'[n].ring # {} =>
                           \A t \in issued : t.kid \in replica'[n].ring
  <1>1. Inv /\ [Next]_vars => [Trusts]_vars
    <2> SUFFICES ASSUME Inv, Next, NEW n \in Replicas, replica[n].ring = {}, replica'[n].ring # {}
                 PROVE  replica'[n].ring = keys
      <3>1. Inv => \A t \in issued : t.kid \in keys  BY DEF Inv, ServeInv, TokenOK
      <3> QED  BY <3>1
    <2>1. BootNext  BY DEF Next, Serve
    <2>2. replica \in [Replicas -> Replica]  BY DEF Inv, BootInv
    <2>3. ASSUME NEW m \in Replicas, NEW cfg \in Configs, Load(m, cfg) PROVE replica'[n].ring = keys
      <3>1. CASE m = n  BY <2>2, <2>3, <3>1 DEF Load
      <3>2. CASE m # n  BY <2>2, <2>3, <3>2 DEF Load
      <3> QED  BY <3>1, <3>2
    <2>4. ASSUME NEW m \in Replicas, NEW row, row.ring = {}, replica' = [replica EXCEPT ![m] = row]
          PROVE  FALSE
          BY <2>2, <2>4
    <2>5. ASSUME NEW m \in Replicas, NEW cfg \in Configs, Start(m, cfg) PROVE replica'[n].ring = keys
      <3> DEFINE row == [Down EXCEPT !.pc = "make", !.config = cfg]
      <3>1. row.ring = {}  BY DEF Down
      <3>2. Load(m, cfg) \/ replica' = [replica EXCEPT ![m] = row]  BY <2>5 DEF Start
      <3> HIDE DEF row
      <3> QED  BY <2>3, <2>4, <3>1, <3>2
    <2>6. ASSUME NEW m \in Replicas, Reread(m) PROVE replica'[n].ring = keys
      <3>1. replica[m].config \in Configs  BY <2>6 DEF Reread, Inv, BootInv, RowOK
      <3> QED  BY <2>3, <2>6, <3>1 DEF Reread
    <2>7. ASSUME NEW m \in Replicas, Stop(m) PROVE FALSE
      <3>1. Down.ring = {}  BY DEF Down
      <3> QED  BY <2>4, <2>7, <3>1 DEF Stop
    <2>8. ASSUME NEW m \in Replicas, Make(m) PROVE FALSE
          BY <2>2, <2>8 DEF Make, Replica
    <2>9. ASSUME NEW m \in Replicas, NEW c \in Clients, SyncApp(m, c) PROVE FALSE
          BY <2>2, <2>9 DEF SyncApp, Replica
    <2> QED  BY <2>1, <2>5, <2>6, <2>7, <2>8, <2>9 DEF BootNext
  <1> QED  BY <1>1, Invariant, PTL DEF Spec, TrustedWhenRead

-----------------------------------------------------------------------------
(* From the file to what a replica starts with.                            *)

LEMMA DefaultsApplied ==
    ASSUME NEW file \in File
    PROVE  LET full == ApplyDefaults(file) IN
           /\ full.catalogue \in SUBSET Scopes
           /\ DOMAIN full.apps = DOMAIN file.apps
           /\ \A i \in DOMAIN full.apps :
                 /\ full.apps[i].id \in Clients \cup {None}
                 /\ full.apps[i].redirects \in SUBSET (Uris \cup {None})
                 /\ full.apps[i].scopes # {}
                 /\ full.apps[i].public \in BOOLEAN
                 /\ full.apps[i].secretEnv \in Names \cup {None}
  <1> DEFINE full == ApplyDefaults(file)
  <1>1. full.catalogue \in SUBSET Scopes  BY DefaultsAssumption DEF ApplyDefaults, File
  <1>2. DOMAIN full.apps = DOMAIN file.apps  BY DEF ApplyDefaults
  <1>3. ASSUME NEW i \in DOMAIN file.apps
        PROVE  /\ full.apps[i].id \in Clients \cup {None}
               /\ full.apps[i].redirects \in SUBSET (Uris \cup {None})
               /\ full.apps[i].scopes # {}
               /\ full.apps[i].public \in BOOLEAN
               /\ full.apps[i].secretEnv \in Names \cup {None}
    <2>1. file.apps[i] \in App
      <3>1. file.apps \in Seq(App)  BY DEF File
      <3> QED  BY <3>1
    <2> DEFINE row == [file.apps[i] EXCEPT !.scopes = IF @ = {} THEN DefaultAppScopes ELSE @]
    <2>2. full.apps[i] = row  BY DEF ApplyDefaults
    <2>3. /\ row.id = file.apps[i].id /\ row.redirects = file.apps[i].redirects
          /\ row.scopes = IF file.apps[i].scopes = {} THEN DefaultAppScopes ELSE file.apps[i].scopes
          /\ row.public = file.apps[i].public /\ row.secretEnv = file.apps[i].secretEnv
          BY <2>1 DEF App
    <2> HIDE DEF row, full
    <2> QED  BY <2>1, <2>2, <2>3, DefaultsAssumption DEF App
  <1> HIDE DEF full
  <1>4. \A i \in DOMAIN full.apps :
            /\ full.apps[i].id \in Clients \cup {None}
            /\ full.apps[i].redirects \in SUBSET (Uris \cup {None})
            /\ full.apps[i].scopes # {}
            /\ full.apps[i].public \in BOOLEAN
            /\ full.apps[i].secretEnv \in Names \cup {None}
        BY <1>2, <1>3
  <1> QED  BY <1>1, <1>2, <1>4 DEF full

(* Every apps.yaml that validate lets pass, in any environment, gives a    *)
(* configuration of the kind Boot assumes: an app that lists no scopes has *)
(* the default ones, and none asks for what the catalogue does not have.   *)
THEOREM LoadedIsWellFormed ==
    ASSUME NEW file \in File, NEW env \in Environment, NEW cfg \in Loaded(file, env)
    PROVE  WellFormed(cfg)
  <1> DEFINE full == ApplyDefaults(file)
  <1>1. Validate(full) /\ cfg = InHand(full, env)  BY DEF Loaded
  <1>2. /\ full.catalogue \in SUBSET Scopes
        /\ \A i \in DOMAIN full.apps :
              /\ full.apps[i].id \in Clients \cup {None}
              /\ full.apps[i].redirects \in SUBSET (Uris \cup {None})
              /\ full.apps[i].scopes # {}
              /\ full.apps[i].public \in BOOLEAN
              /\ full.apps[i].secretEnv \in Names \cup {None}
        BY DefaultsApplied
  <1> HIDE DEF full
  <1>3. \A i \in DOMAIN full.apps : full.apps[i].id # None /\ full.apps[i].scopes \subseteq full.catalogue
        BY <1>1 DEF Validate
  <1>4. cfg.catalogue = full.catalogue  BY <1>1 DEF InHand
  <1>5. DOMAIN cfg.apps = {full.apps[i].id : i \in DOMAIN full.apps}  BY <1>1 DEF InHand
  <1>6. ASSUME NEW c \in DOMAIN cfg.apps
        PROVE  /\ c \in Clients /\ cfg.apps[c] \in Registration
               /\ cfg.apps[c].scopes # {} /\ cfg.apps[c].scopes \subseteq cfg.catalogue
    <2> DEFINE i == CHOOSE j \in DOMAIN full.apps : full.apps[j].id = c
    <2>1. i \in DOMAIN full.apps /\ full.apps[i].id = c  BY <1>5
    <2>2. cfg.apps[c] = ClientOf(full.apps[i], env)  BY <1>1, <1>5, <1>6 DEF InHand
    <2> HIDE DEF i
    <2>3. Secret(full.apps[i], env) \in Secrets \cup {None}
          BY <1>2, <2>1 DEF Secret, Environment
    <2>4. full.apps[i].redirects \ {None} \in SUBSET Uris  BY <1>2, <2>1
    <2>5. full.apps[i].scopes \in SUBSET Scopes  BY <1>2, <1>3, <2>1
    <2>6. cfg.apps[c] \in Registration
          BY <2>2, <2>3, <2>4, <2>5 DEF ClientOf, Registration
    <2>7. cfg.apps[c].scopes = full.apps[i].scopes  BY <2>2 DEF ClientOf
    <2> QED  BY <1>2, <1>3, <1>4, <2>1, <2>6, <2>7
  <1> QED  BY <1>2, <1>4, <1>6 DEF WellFormed
=============================================================================
