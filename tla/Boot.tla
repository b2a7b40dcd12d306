-------------------------------- MODULE Boot --------------------------------
(***************************************************************************)
(* How a replica comes up (cmd/nabuauth/main.go): it loads the signing     *)
(* keys, making one if the table is empty (loadKeyring), registers every   *)
(* app of its own apps.yaml (SyncApps, internal/server/oauth.go), and      *)
(* serves.  Replicas start, stop and start again, each with the apps.yaml  *)
(* and the secrets it is given, and share the tables signing_keys and      *)
(* oauth_clients.  One step is one SQL statement.                          *)
(*                                                                         *)
(* A key stands for its kid, which GenerateKey derives from it, and for    *)
(* the created_at of its row, by which the rows are ordered: a later key   *)
(* is a larger number.  Nothing in the code retires a key.  A secret and   *)
(* its hash are the same thing here.                                       *)
(***************************************************************************)
EXTENDS Naturals, FiniteSets

CONSTANTS Replicas, Clients, Scopes, Uris, Secrets,
          Kids,      \* the keys that can be generated
          Configs,   \* the configurations a replica may be started with
          MaxWork,   \* bound: starts of a replica and requests counted by Consent, together
          None

ASSUME BootAssumption ==
    /\ None \notin Uris \cup Secrets
    /\ None \notin Configs
    /\ None \notin Kids
    /\ MaxWork \in Nat
    /\ IsFiniteSet(Replicas)

(* The rows of signing_keys can be ordered by created_at.                  *)
ASSUME KidsAssumption ==
    /\ Kids \subseteq Nat
    /\ \A S \in SUBSET Kids : S # {} => \E k \in S : \A j \in S : j <= k

Registration == [redirects : SUBSET Uris, scopes : SUBSET Scopes, confidential : BOOLEAN,
                 secret : Secrets \cup {None}]

(* No row: nothing matches it, which is how the handlers treat ErrNotFound. *)
Unregistered == [redirects |-> {}, scopes |-> {}, confidential |-> TRUE, secret |-> None]

(* What Load leaves of an apps.yaml: an app asks for something, and only    *)
(* for scopes of the catalogue.  Configuration has how.                    *)
WellFormed(cfg) ==
    /\ cfg.catalogue \subseteq Scopes
    /\ DOMAIN cfg.apps \subseteq Clients
    /\ \A c \in DOMAIN cfg.apps :
          /\ cfg.apps[c] \in Registration
          /\ cfg.apps[c].scopes # {} /\ cfg.apps[c].scopes \subseteq cfg.catalogue

ASSUME ConfigAssumption == \A cfg \in Configs : WellFormed(cfg)

VARIABLES keys,      \* the rows of signing_keys
          registry,  \* the rows of oauth_clients
          replica,   \* replica[n]: how far n has come, its keyring, its apps.yaml
          work       \* how many there were, for the bound

bootVars == <<keys, registry, replica, work>>

PC == {"down", "make", "reread", "sync", "up"}
Replica == [pc : PC, ring : SUBSET Kids, signs : Kids \cup {None}, config : Configs \cup {None}, todo : SUBSET Clients]
Down == [pc |-> "down", ring |-> {}, signs |-> None, config |-> None, todo |-> {}]

Up(n) == replica[n].pc = "up"

Count == work < MaxWork /\ work' = work + 1

(* A fresh deployment, or one whose replicas have run and of which one is   *)
(* up with the configuration it was last started with.                     *)
Fresh ==
    /\ keys = {}
    /\ registry = [c \in Clients |-> Unregistered]
    /\ replica = [n \in Replicas |-> Down]

Running(n, kid, cfg) ==
    /\ keys = {kid}
    /\ registry = [c \in Clients |-> IF c \in DOMAIN cfg.apps THEN cfg.apps[c] ELSE Unregistered]
    /\ replica = [m \in Replicas |->
          IF m = n THEN [pc |-> "up", ring |-> keys, signs |-> kid, config |-> cfg, todo |-> {}]
          ELSE Down]

BootInit ==
    /\ Fresh \/ \E n \in Replicas, kid \in Kids, cfg \in Configs : Running(n, kid, cfg)
    /\ work = 0

(* ActiveSigningKeys, newest first; NewKeyring signs with the first and    *)
(* trusts them all.                                                        *)
Newest(S) == CHOOSE k \in S : \A j \in S : j <= k

Listening(todo) == IF todo = {} THEN "up" ELSE "sync"

LoadNewest(n, cfg) ==
    replica' = [replica EXCEPT ![n] =
        [pc |-> Listening(DOMAIN cfg.apps), ring |-> {Newest(keys)}, signs |-> Newest(keys), config |-> cfg,
         todo |-> DOMAIN cfg.apps]]

LoadAnySigner(n, cfg) ==
    \E kid \in keys : replica' = [replica EXCEPT ![n] =
        [pc |-> Listening(DOMAIN cfg.apps), ring |-> keys, signs |-> kid, config |-> cfg, todo |-> DOMAIN cfg.apps]]

Load(n, cfg) ==
    replica' = [replica EXCEPT ![n] =
        [pc |-> Listening(DOMAIN cfg.apps), ring |-> keys, signs |-> Newest(keys), config |-> cfg,
         todo |-> DOMAIN cfg.apps]]

(* loadKeyring's first read.                                               *)
Start(n, cfg) ==
    /\ replica[n].pc = "down"
    /\ Count
    /\ IF keys = {}
       THEN replica' = [replica EXCEPT ![n] = [Down EXCEPT !.pc = "make", !.config = cfg]]
       ELSE Load(n, cfg)
    /\ UNCHANGED <<keys, registry>>

(* GenerateKey and InsertSigningKey.  A row takes its created_at when its   *)
(* statement begins: of two inserts under way at once the one that commits *)
(* last need not be the newer row.                                         *)
Make(n) ==
    /\ replica[n].pc = "make"
    /\ \E kid \in Kids \ keys : keys' = keys \cup {kid}
    /\ replica' = [replica EXCEPT ![n].pc = "reread"]
    /\ UNCHANGED <<registry, work>>

(* "Re-read rather than trusting the local copy."                          *)
Reread(n) ==
    /\ replica[n].pc = "reread"
    /\ Load(n, replica[n].config)
    /\ UNCHANGED <<keys, registry, work>>

(* UpsertClient: everything as configured, except that a secret missing    *)
(* from the environment leaves the stored one.                             *)
Upsert(c, app) ==
    registry' = [registry EXCEPT ![c] =
        [app EXCEPT !.secret = IF app.secret = None THEN registry[c].secret ELSE app.secret]]

(* SyncApps, one app; after the last the server listens.  An app that is   *)
(* no longer in apps.yaml keeps its row.  The apps are independent of one  *)
(* another: they are taken in any order.                                   *)
SyncApp(n, c) ==
    LET todo == replica[n].todo \ {c} IN
    /\ replica[n].pc = "sync"
    /\ c \in replica[n].todo
    /\ Upsert(c, replica[n].config.apps[c])
    /\ replica' = [replica EXCEPT ![n].todo = todo, ![n].pc = Listening(todo)]
    /\ UNCHANGED <<keys, work>>

(* It is stopped, it crashes, or a statement above fails (os.Exit).        *)
Stop(n) ==
    /\ replica[n].pc # "down"
    /\ replica' = [replica EXCEPT ![n] = Down]
    /\ UNCHANGED <<keys, registry, work>>

BootNext ==
    \E n \in Replicas :
        \/ \E cfg \in Configs : Start(n, cfg)
        \/ Make(n) \/ Reread(n) \/ Stop(n)
        \/ \E c \in Clients : SyncApp(n, c)

BootTypeOK ==
    /\ keys \in SUBSET Kids
    /\ registry \in [Clients -> Registration]
    /\ replica \in [Replicas -> Replica]
    /\ work \in 0 .. MaxWork
    /\ \A n \in Replicas :
          /\ replica[n].pc # "down" => replica[n].config # None
          /\ replica[n].pc \in {"sync", "up"} => replica[n].signs # None
          /\ replica[n].pc = "sync" => replica[n].todo # {} /\ replica[n].todo \subseteq DOMAIN replica[n].config.apps

(* "Every replica signs with the same key" (README), as far as it is so:   *)
(* a replica signs with a stored key; two that loaded the same keys sign    *)
(* with the same one, so that replicas started on an empty table at the     *)
(* same time differ at most until each has been started again; and no more  *)
(* keys are ever made than there are replicas to start on an empty table.   *)
OneSigner ==
    /\ Cardinality(keys) <= Cardinality(Replicas)
    /\ \A n \in Replicas :
          /\ replica[n].ring \subseteq keys
          /\ replica[n].ring # {} => replica[n].signs \in replica[n].ring
    /\ \A n, m \in Replicas :
          replica[n].ring = replica[m].ring => replica[n].signs = replica[m].signs
=============================================================================
