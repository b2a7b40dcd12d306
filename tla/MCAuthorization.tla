-------------------------- MODULE MCAuthorization --------------------------
(***************************************************************************)
(* A confidential app with a web and a custom-scheme redirect, a public    *)
(* one, and two versions of apps.yaml: the second has lost the first app's *)
(* secret from its environment, has narrowed the catalogue of scopes and   *)
(* what it may ask for, and has made the public app a confidential one.    *)
(* Two more files are not loaded: an app twice, and an app left with       *)
(* default scopes that are not in the catalogue.                           *)
(***************************************************************************)
EXTENDS Authorization, Configuration, TLC

CONSTANTS n1, n2, web, spa, https, scheme, s1, s2, u1, u2, v1

Entry(id, redirects, scopes, public, secretEnv) ==
    [id |-> id, redirects |-> redirects, scopes |-> scopes, public |-> public, secretEnv |-> secretEnv]

WebThen == Entry(web, {https, scheme}, {}, FALSE, "WEB_SECRET")
SpaThen == Entry(spa, {https}, {"openid"}, TRUE, None)
WebNow == Entry(web, {https, None}, {"openid"}, FALSE, "WEB_SECRET")
SpaNow == Entry(spa, {https}, {"openid"}, FALSE, "SPA_SECRET")

OldFile == [catalogue |-> {}, apps |-> <<WebThen, SpaThen>>]
NewFile == [catalogue |-> {"openid"}, apps |-> <<WebNow, SpaNow>>]
TwiceFile == [catalogue |-> {"openid"}, apps |-> <<WebNow, SpaNow, WebNow>>]
UnknownScopeFile == [catalogue |-> {"openid"}, apps |-> <<SpaNow, WebThen>>]

OldEnvironment == "WEB_SECRET" :> s1 @@ "SPA_SECRET" :> None
NewEnvironment == "WEB_SECRET" :> None @@ "SPA_SECRET" :> s2

MCConfigs ==
    Loaded(OldFile, OldEnvironment) \cup
    UNION {Loaded(file, NewEnvironment) : file \in {NewFile, TwiceFile, UnknownScopeFile}}

Ask(client, redirect, scopes, challenge, method, prompt) ==
    [client |-> client, redirect |-> redirect, scopes |-> scopes, challenge |-> challenge,
     method |-> method, prompt |-> prompt]

(* Two that a confidential app may not send, to a custom scheme and while  *)
(* it is still a public one.                                               *)
MCQueries ==
    {Ask(web, https, {}, None, "", ""),
     Ask(web, scheme, {"email"}, S256(v1), "", "consent"),
     Ask(web, scheme, {"email"}, v1, "plain", "consent"),
     Ask(spa, None, {}, S256(v1), "S256", ""),
     Ask(spa, None, {}, S256(v1), "S256", "login"),
     Ask(spa, None, {"openid"}, None, "", "none")}

Interchangeable == Permutations({n1, n2}) \cup Permutations({u1, u2})
=============================================================================
