---------------------------- MODULE Configuration ----------------------------
(***************************************************************************)
(* apps.yaml and the environment, from the file to what a replica starts   *)
(* with (Load, applyDefaults, validate and Secret in internal/config, and  *)
(* the row SyncApps makes of an app): what Boot takes as Configs.          *)
(*                                                                         *)
(* None is an empty string, such as ${VARIABLE} of an unset variable; an   *)
(* empty redirect URI passes validate and vanishes when the list is stored *)
(* space-delimited and read back.  The lists of an app are sets here.      *)
(* The file's other blocks (lifetimes, gateways, outside providers) decide *)
(* which doors are offered and are left out.                               *)
(***************************************************************************)
EXTENDS Boot, Sequences

CONSTANTS Names,             \* the environment variables secrets are taken from
          DefaultScopes,     \* DefaultScopes: the catalogue when the file has none
          DefaultAppScopes   \* "openid", "profile", "email": an app's when it lists none

ASSUME DefaultsAssumption ==
    DefaultScopes \subseteq Scopes /\ DefaultAppScopes # {}

App == [id : Clients \cup {None}, redirects : SUBSET (Uris \cup {None}), scopes : SUBSET Scopes,
        public : BOOLEAN, secretEnv : Names \cup {None}]
File == [catalogue : SUBSET Scopes, apps : Seq(App)]
Environment == [Names -> Secrets \cup {None}]

ApplyDefaults(file) ==
    [catalogue |-> IF file.catalogue = {} THEN DefaultScopes ELSE file.catalogue,
     apps |-> [i \in DOMAIN file.apps |->
         [file.apps[i] EXCEPT !.scopes = IF @ = {} THEN DefaultAppScopes ELSE @]]]

(* Of a file to which the defaults were applied.                           *)
Validate(file) ==
    \A i \in DOMAIN file.apps :
        /\ file.apps[i].id # None
        /\ \A j \in DOMAIN file.apps : file.apps[j].id = file.apps[i].id => j = i
        /\ file.apps[i].redirects # {}
        /\ file.apps[i].scopes \subseteq file.catalogue

Secret(app, env) == IF app.secretEnv = None THEN None ELSE env[app.secretEnv]

ClientOf(app, env) ==
    [redirects |-> app.redirects \ {None}, scopes |-> app.scopes,
     confidential |-> ~app.public, secret |-> Secret(app, env)]

(* What a replica has in hand after Load: the catalogue, and the rows       *)
(* SyncApps is to write.                                                   *)
InHand(file, env) ==
    [catalogue |-> file.catalogue,
     apps |-> [c \in {file.apps[i].id : i \in DOMAIN file.apps} |->
         LET i == CHOOSE j \in DOMAIN file.apps : file.apps[j].id = c IN ClientOf(file.apps[i], env)]]

(* Load, of one file in one environment: nothing, if it does not validate. *)
Loaded(file, env) ==
    LET full == ApplyDefaults(file) IN IF Validate(full) THEN {InHand(full, env)} ELSE {}
=============================================================================
