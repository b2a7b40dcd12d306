# NabuAuth in TLA+

NabuAuth is an OAuth 2 / OpenID Connect provider in Go with one Postgres
database: it signs people in (password, SMS code, mail code, an upstream
provider, Telegram), issues authorization codes and tokens to registered
clients, keeps a wallet per account, and reports sign-ups to NabuCRM. This
directory holds TLA+ models of its protocols, the TLC runs that check them and
TLAPS proofs about them. Source paths are relative to the repository.

## Inventory

| Component | State | Operations | What is hard, and what must hold |
|---|---|---|---|
| Wallet (`internal/server/wallet.go`, `store.go` `Adjust` ff.) | `wallets`, `wallet_transactions` | balance, transactions, topup, debit | concurrent retries of one idempotency key, the row lock, int64 overflow. The balance is the sum of the entries, never negative; a key is posted once; a client told "posted" really was |
| Tokens (`oauth.go`, `store.go`) | `oauth_codes`, `oauth_refresh_tokens` | issue and redeem a code, rotate, detect a replay, revoke, sign out, disable | codes and tokens used twice at once, theft, revocation racing an exchange. One holder per login, grants never grow, a cut login stays cut |
| CRM outbox (`internal/crmintake`, `store.go` 1143-1285) | `crm_outbox` | queue, backfill, claim, send, retry, finish, requeue, clean up | leases, several senders, crashes, lost answers. Nothing lost, nothing given up without cause, everything settled |
| One-time codes (`phone.go`, `email.go`) | `phone_codes`, `email_codes`, the throttle's spend counters | start, verify | read, compare, count and delete are separate steps; resends; send failures. Guesses and messages bounded, a spent code useless |
| Authorization and consent (`oauth.go`, `ui.go`) | `oauth_consents`, `oauth_codes` | authorize, decide, exchange, revoke | pages that outlive a session, a registration that changes under a request, a merge that reads and then writes. No app learns what was not approved for it, revocation forgets, a code a bystander may see needs its verifier |
| Sessions, passwords, administration (`server.go`, `password.go`, `admin.go`) | `sessions`, `users` | sign in, sign out, change password, enable and disable, reset | a sign-in under way while the password changes or the account is disabled; two administrators at once. A decision ends the sessions before it, the lockout holds, an administrator is left |
| Sign-in doors (`ui.go`, `register.go`, `provider.go`, `telegram.go`) | `users`, provider state cookies | sign up and in by each door, link and unlink Telegram, accounts made by administrators and the shell | two doors making the same account, counting and inserting apart, round trips. One account per address, number, Telegram account and handle; a session opens what its browser proved; the first account is administrator |
| Throttle (`ui.go`) | in-memory counters | blocked, fail, reset, spent, spend | asked before, counted after. Modelled inside `Sessions` (blocked, fail, reset) and `OneTimeCode` (spent, spend) |
| Signing keys (`main.go` `loadKeyring`, `tokens.go`) | `signing_keys`, each replica's keyring | load or make at start, sign, verify | replicas starting together. Who loads the keys trusts every token signed so far; no more keys than replicas |
| Client registry (`SyncApps`) | `oauth_clients` | upsert at start | replicas with different files and environments; a secret missing from the environment must not lock an app out |
| Phone numbers (`sms.go` `Normalise`) | none | pure | one spelling per number, in whichever of its usual forms (`Written`) its holder types it |
| Configuration (`internal/config`) | none after start | load, defaults, validate | what a file may leave out, what of it is refused |
| API, MCP, CORS, mail, i18n, templates | none of their own | reads and I/O | `/oauth/userinfo` is in `Authorization`, the rest left out |

The handlers of all components run concurrently and in any number of replicas;
they meet only in the database (and, for the throttle, in one process's
memory). Nearly every write is one SQL statement, which Postgres makes atomic;
the hard behaviour is between statements. So a handler is modelled as a program
counter, and each statement (with the pure code around it) is one action.

## Modules

| Module | Kind | About |
|---|---|---|
| `WalletLedger` | abstract specification | what the wallet promises: entries posted once per key, a balance that is their sum and never negative |
| `Wallet` | detailed specification | `Adjust` statement by statement, plus the read handlers |
| `WalletProofs` | proofs | the invariant of `Wallet`, and that it implements `WalletLedger` |
| `TokenGrants` | detailed specification | codes, refresh tokens and their families, and everything that ends one |
| `TokenGrantsProofs`, `TokenFamilyProofs` | proofs | one holder per login, grants never grow; a family is a login, a cut login stays dead |
| `CrmOutbox` | detailed specification | accounts, outbox rows, senders |
| `CrmOutboxProofs` | proofs | nothing lost, nothing given up without cause, leases exclude |
| `OneTimeCode` | detailed specification | one address, several handlers |
| `OneTimeCodeProofs` | proofs | how far guesses and messages pass their limits, and how long a code lasts |
| `Sessions` | detailed specification | browser sessions, the decisions that end them, the lockout |
| `SessionsProofs` | proofs | decisions cut, the lockout holds, an administrator is left |
| `Accounts` | detailed specification | the doors: whose account is found or made, linked and unlinked |
| `PhoneNumber` | functions | `Normalise`, and the reference it is held against |
| `PhoneDoor` | composition, EXTENDS `Accounts`, `PhoneNumber` | `Accounts` with the numbers of real lines at its phone door |
| `AccountsProofs` | proofs | every property of `Accounts` and `PhoneDoor`, and that `Normalise` agrees with the reference |
| `Boot` | detailed specification | replicas that start and stop, the signing keys, the registry of apps |
| `Consent` | detailed specification, EXTENDS `Boot` | `/oauth/authorize`, the approval page, the remembered approvals, codes |
| `Authorization` | composition, EXTENDS `Consent` | all of it served by replicas, with the exchange, tokens and userinfo |
| `AuthorizationProofs` | proofs | every property of `Authorization`, and that whatever `Configuration` loads is what `Boot` assumes |
| `Configuration` | functions, EXTENDS `Boot` | from `apps.yaml` and the environment to the configurations `Boot` starts with |
| `MC*` | model checking | constants and symmetry for TLC; one or more `.cfg` each |

How state and actions correspond to the code is recorded line by line in the
`map` of `PROJECT.json`; what follows is the reading guide.

### Wallet

`balance` and `ledger` are the two tables, `opened` the accounts with a wallet
row, `lock` who holds a row, `told` the answers callers have seen; `call[p]` is a
request in progress with what it has read (`walletRequest`, `Adjust`). The upsert
of the wallet takes the row's lock (`Upsert`), the balance is read under it, the
key is looked up over every wallet's committed entries, the new balance is an
int64 sum (`Add64`), UPDATE and INSERT wait in the unique index for a call that
has inserted the same key (`Post`, `Duplicate`), and everything becomes visible
at `Commit`. A key already used on another wallet answers with that other entry
without charging (or with an error when the two race): the model keeps both, and
`AnswerIsPosted` says what a caller that keeps one key per movement may rely on.
A handler that dies rolls its transaction back, and a reply may be lost.

`WalletLedger` has no requests: entries appear in one step with their balance.
`Wallet` implements it (`ImplementsLedger`) with `Commit` as the step that
posts.

### TokenGrants

`codes` and `tokens` are rows; `call[h]` is a handler with the grant it read.
`ConsumeCode` and `ConsumeRefreshToken` are single `UPDATE ... RETURNING`
statements, so `Exchange` and `Refresh` are one action each, together with the
checks of client, redirect_uri, verifier and scopes that follow without another
statement. `CheckUser` (`UserByID`) and `Save` (`SaveRefreshToken`) are later
statements, and between any two of them another handler may run or this one may
die. `Replay` and `RevokeFamily` are the two statements of the replay
detection. Everything that revokes (an app forgotten, a password changed, an
account disabled, the reset command) is one UPDATE over the live rows that
match: `Kill(S)`. Clocks are the `Expire` and `Cleanup` actions.

The code stores no notion of a login; the model adds it to the grant as
history, and so can say that a `family` is a login (`FamilyIsLogin`) and that a
login has one holder (`OneHolder`). `cut` records what has revoked each login,
and whether anybody held it at that moment: a revocation that finds the login
between a consume and its save misses it, which `replay_during_refresh` shows for
a replay; a password change, a reset and a disable miss it in the same way.
`MCTokenGrants.cfg` records only the quiet ones (`Watched`), for which
`CutLoginStaysDead` holds.

### CrmOutbox

`row[a]` is the outbox row of account `a` (its event id comes from the
account); `work[s]` is the batch sender `s` has claimed; `result[s]` the
outcome it has not yet recorded. A claim sets `next_attempt_at` ahead: `due`
is FALSE until the backoff or the lease is over. A lease is five minutes and
a batch of twenty at fifteen seconds each can take as long, so a lease may run
out under a sender that is only slow; the model lets any lease run out.

### OneTimeCode

`row` is the one row of an address; `call[h]` is a handler between its read and
its write. Codes are serial numbers. Cooldown, expiry and the ceiling's window
end at any moment. Phone and mail follow the same protocol line for line; the
module stands for either. A failed send deletes the row by address. The gateway
may have taken a message whose answer was lost: `out` counts those it is known
to have taken, as the code's own count does. `owed` is the code its visitor may
count on: one stored while nobody else held a code of the address. It lasts until
it is used, expires, its own message fails or its guesses run out (`SentCodeLasts`);
with another send under way it may be deleted by that send's failure.

### Sessions

`account[u]` is the part of the user's row that matters (active, and whether
anybody knows the password: an account made by a code or a provider has a random
one), `sessions` the rows, `tries` the in-memory count of the throttle, `call[p]`
a handler with what it read. Signing in reads the account and compares for as
long as bcrypt takes (`SignIn`), and writes the session later (`Enter`), looking
at nothing again. `ChangePassword` is one transaction (`Change`); disabling and
the reset command are two statements (`Decide`, `Revoke`), the first of which may
fail and only be logged (`DecideFails`).

Every decision against an account begins an era of it, and a session belongs to
the era its sign-in read. `DecisionsCut` says that once a decision has done its
work no session of an older era is left, except those whose sign-in was already
past the account check (`late`): those the code lets through. `crossed` marks the
one order in which the last administrators disable each other: each handler asks
for the administrator's session first and writes later, so two of them may cross.
`AdministratorLeft` holds in every other order.

### Accounts, PhoneNumber, PhoneDoor

`users` is the table in the order of its ids, with the columns that decide who
gets in; `signed` and `cookie` are what a browser carries, `call[b]` its one
request under way with what it has read. Every door ends in the same three
statements, each a step: look up who holds what was proved (`Prove`), and, if
nobody does, ask whether sign-up is open, count the accounts, insert (`AskOpen`,
`Count`, `Insert`). Other browsers act in between, which is what the history
`made` and the property `ClaimedWhileEmpty` are about. The unique indexes refuse
a second holder (`Taken`); only the Telegram door then looks again.

A round trip to a provider or to Telegram is a cookie in the browser and a number
in `trips` that anybody may bring back (`Back`). The server remembers nothing of
it: what ends it is that the answer to a callback clears the cookie (`Answer`), and
an answer may never arrive (`BreakOff`), after which the same callback is believed
again. `ending[b]` is the trip whose callback browser `b` waits for, `ended` and
`closed` are history: which browsers' callbacks went through, and whether one was
answered. `TripsComeHome` says what this is worth: never in another browser, never
for an earlier trip than the last, never after an answer. At the Telegram door it
is a statement about nonces alone. No nonce travels to Telegram, the page a browser
comes back to puts in the one of its cookie, so what Telegram signed for an earlier
trip, or in another browser, may end the current one; `TelegramCallback` therefore
takes any Telegram account, and `OpensItsOwn` does not rest on trips.

An account signed up at a door without a password has a random one nobody knows
(`known` FALSE). Two tabs of one browser posting at once are outside the model:
two browsers stand for them, except that they share no cookie, so a callback sent
twice before its first answer is only in the model as one whose answer was lost.
`UpdateProfile` of the store is called by no handler and left out.

`Normalise` works on the digits left when punctuation and foreign digits are
gone. `Written(line)` is the reference: the ways the holder of a line may type
it with its own country picked, of which the `Abroad` ones mean the same with any
country. A bare national number that begins with what `Normalise` takes for the
trunk is left out: a +7 number that begins with 8, or one that begins with 0 in a
plan without a trunk that `dialRules` does not list. `Normalise` strips the digit;
none of the countries `config.go` offers by default has such numbers.
`PhoneDoor` puts lines and all these ways of typing them at the phone door of
`Accounts`; `MCAccounts` has an Iranian and an Omani line whose national numbers
begin with the country's own calling code (`sms_test.go` names both).

### Boot, Consent, Authorization

One composition in three layers. `Boot` is a replica's start: load the keys or
make one and read again, register its apps one by one, serve. A key is the
`created_at` of its row, so that "newest" is a comparison. The system starts
with empty tables or with one replica up (`Fresh`, `Running`).

`Consent` is the authorization endpoint. `Parsed` fills in what a request leaves
out from the app's row, `MayAsk` is what `parseAuthRequest` lets through, and
both are applied again to what the approval page posts. The form's token is a hash
of the session cookie, so a page is good as long as the browser has the session
it was rendered in (`page.fresh`). `Decide` reads the granted scopes,
`SaveConsent` writes the union, `IssueCode` stores the code: three statements.
`approved` and `stands` are history: what the user shown the page has agreed to,
ever and since the last disconnection; `racing` marks a pair of account and app
whose approvals overlapped.

`Authorization` puts each request at a replica that is up, with that replica's
catalogue and keyring. An exchange is one step, for `TokenGrants` has its
statements. `tells` is what a token itself says of its user: the id token, which
`openid` alone gets, has the name, the address and the picture (`Signed`). So
`OnlyWhatWasApproved` says that whatever an app holds rests on scopes its user
approved for it, and not that each field has a scope of its own: the address has
one by the documents, and `EmailNeedsItsScope` is violated. A token carries, as
history, what the exchange was backed by (`proof`) and whether a bystander could
have seen the code (`exposed`). Tokens do not expire here: what holds of a token holds while it lasts.

### Configuration

`Loaded(file, env)` is `Load` for one file in one environment: the defaults, the
checks of `validate` and the secret from the environment, up to the rows
`SyncApps` writes. `MCAuthorization` builds the configurations of its run with
it, from two files that load and two that do not.

## Runs

| Run | Shows | Bounds, and why they are enough |
|---|---|---|
| `wallet` | type, `BalanceIsLedger`, `NeverOverdrawn`, `KeyPostedOnce`, `AnswerIsPosted`, refinement of `WalletLedger`, every call ends | two requests, small keys and amounts, a small integer width so that overflow happens. Proved for every value but for `CallsEnd` |
| `token_grants` | `TypeOK`, one holder per login, grants never grow, a family is a login, a cut login stays dead | one account, two clients, two handlers, a code, a token from before `family_id` and two more to rotate into: theft, replay and rotation need two parties and two generations, and the old token needs one of its own |
| `replay_during_refresh` | *violated*: what a comment promises of replayed tokens | same instance |
| `crm_outbox` | nothing lost, nothing given up without cause, leases exclude; under fairness every pending report is settled | two senders, two accounts (a batch may break off half way), two attempts, one abort |
| `crm_backfill_after_cleanup` | *violated*: a swept report is queued again | as `crm_outbox` |
| `one_time_code` | guess budget, send ceiling, spent codes stay spent, a sent code lasts | two handlers, three codes, a budget of two guesses, a ceiling of one message, one death: a resend over a resend, and a window's end in the middle |
| `one_time_code_replay` | *violated*: two requests at once sign in with one code | same instance |
| `sessions` | type and unique session ids, decisions end sessions, the lockout holds, an administrator is left | two administrators (one without a known password), two handlers, two sessions, one decision against each account, a lockout after one wrong password. Wrong passwords are tried at the sign-in door of one account; the change door uses the same throttle under a key of its own |
| `accounts` | one account per key and per line, a session opens what was proved, the first administrator, verified means answered, a callback goes through only at home and not after an answer | two browsers, two addresses, two Telegram accounts, a handle, two lines with all their spellings; three requests, two round trips, three accounts: two requests that race for one account or for the first, and one more that meets what they left |
| `last_way_in` | *violated*: Telegram is not disconnected where it is the only way in | same instance |
| `authorization` | nothing without an approved scope, approvals stand, exposed codes need their verifier, one signer, loaded keys are trusted, at two replicas with changing files | two replicas, two apps, two versions of `apps.yaml`, one browser that changes hands, two handlers, one code, six queries. `MaxWork` = 4 counts starts and requests together: from a running replica, a page, its form posted twice so that the approvals overlap, and a disconnection; or a page, an approval, a disconnection and a restart with the other file; from an empty database, two starts, a page and an approval. Proved for every value |
| `id_token_email` | *violated*: the address is told to apps approved for `email` only | same instance |

Every run that may come to rest sets `CHECK_DEADLOCK FALSE`: bounded serial
numbers and histories run out, and a server with nothing to do is at rest.
The violated properties are each quoted from a comment, a label or a document; the
`findings` of `PROJECT.json` give the lines.

## Fairness

`Wallet`: a request that has begun goes on (a goroutine runs until it returns;
Postgres grants a row lock when its holder ends). `CrmOutbox`: each sender's
ticker makes pass after pass, every request has a timeout, and time goes on;
nothing is assumed of NabuCRM's answers. The other runs check safety only.

## Proofs

`WalletProofs` proves, for any set of users, clients, keys, amounts, processes
and any integer width, `TypeOK`, `BalanceIsLedger`, `NeverOverdrawn`,
`KeyPostedOnce`, `AnswerIsPosted` and the step simulation of `WalletLedger`.
The properties are not inductive: a request in the middle of its transaction
holds a balance it read before. The invariant adds that only the holder of the
row lock is past the read, that what it holds is what the table holds, and that
an entry pending in its transaction extends the ledger it will be committed to.
Assumptions: those named in the modules (`...Assumption`), which TLC evaluates.

`TokenGrantsProofs` proves, for any set of accounts, clients, scopes, codes,
tokens and handlers, `TypeOK`, `OneHolder` and `GrantNeverGrows` of
`TokenGrants`. `OneHolder` is not inductive: nothing in it says that a code
still to be issued has left no token behind, so a redeemed login could come
back. The invariant adds that a code in use stands for the login named after it
(`CodeIsItsLogin`) and that an unredeemed one has left no trace, neither live
nor dead (`Unredeemed`). The argument: every step but four gives nobody anything
(`Calm`: no row becomes usable, no handler comes to hold a login), and calm
steps keep the invariant by one lemma; the four (a code issued, an exchange and
a refresh that go on, a token saved) have a lemma each.

`TokenFamilyProofs` adds `FamilyIsLogin` and `CutLoginStaysDead`. The invariant
`FInv` needs that a family is named after a token of it (`FamiliesRooted`), so
that a fresh root cannot collide; that a handler holds the family of its login
(`HolderFamily`); and, for a token from before the column, that nothing has been
rotated out of it while it is live and that what is rotated out of it stays with
its account and client (`LegacyUnrotated`, `LegacyKept`). From these every
revoking UPDATE matches, with a row, whatever is live of its login
(`RevocationsClosed`), which is why a login nobody holds is over (`CutEnds`).

`AuthorizationProofs` proves all six properties of `Authorization`, for any set
of replicas, apps, users, browsers, handlers and configurations. The steps of a
boot leave `Consent`'s state alone and requests leave the boot's, so the
invariant has two parts. `BootInv` bounds the keys: once there is one, the keys
and the replicas that found none and are about to make one are together no more
than the replicas. `ServeInv` says of everything that carries scopes (a handler
between its statements, a row, a code, a token) that they were approved, and that
an id token's claims rest on an approved `openid`; that a
page still fresh was shown to whoever is signed in, which is why a stale page or
a browser that changed hands gives nothing away; that a parsed request whose code
a bystander could see carries a hashed challenge (`RequestOK`); and that outside a
race a handler about to write the merged scopes has read what stands (`Clean`).
`LoadedTrust` is the action property, from the same invariant: no step takes a
key away.

`Boot` assumes of its configurations that an app asks for something and only for
scopes of the catalogue (`ConfigAssumption`). `LoadedIsWellFormed`, at the end of
the same module, discharges it: whatever the file and the environment, what `Load`
lets through is so.

`OneTimeCodeProofs` proves every safety property of `OneTimeCode` but the violated
one, for any number of handlers, any budget and any ceiling. The limits are
passed by handlers between their read and their write, so the invariant counts
handlers: a guess the row has not counted yet belongs to a handler about to count
it or to one that died there (`GuessInv`), and a message beyond the ceiling to a
handler that had passed the check (`CeilingInv`). A step moves one handler from
one such set to another, and two lemmas say how the counts move with it.
`SpentInv` carries that a deleted code never comes back to the row, `OwedInv` that
while a code is owed every request in hand is about it.

`CrmOutboxProofs` proves the safety properties of `CrmOutbox` but the violated
one, for any accounts, senders and number of attempts. The same attempt is
counted in three places, and none alone is enough: in the row, in the claimed item
and in the result not yet recorded. `CountInv` says of all three that what they
count was really attempted, which survives a late record overwriting the row;
`FiledInv` that whoever says a report is done knows it is on file; `HoldInv` that
until its lease has run out a claimed row is out of everybody's reach.

`SessionsProofs` proves the properties of `Sessions` for any accounts and any
number of handlers. What is to be said of sessions has to be said already of the
handlers about to start one: each read its account in an era and is `late` if a
decision came after. `LockInv` counts, key by key, the handlers that compared a
wrong password and have not counted it. `AdministratorLeft` becomes inductive
with what a handler about to disable an account knows: an administrator other than
its owner, active when the handler asked, or the two crossed. The assumption
`Users # {}` is there because an idle handler has some account in its fields;
without accounts nothing happens at all.

`AccountsProofs` proves every property of `Accounts` and `PhoneDoor` that holds,
for any browsers, addresses, Telegram accounts, handles and any bounds. A request
looks an account up and acts on it several statements later, so the invariant
(`CallOK`) says for each place a request can be at what it relies on, and the
lemma `CallStays` that no step takes that away: rows are never deleted, addresses,
numbers and handles never change once set, a chosen password stays, and what an
account has held by Telegram it has held (`Grows`). This is why a sign-in that
lost the insert to another may still go on, and why `Unlink` may act on what
`AskUnlink` read. The insert adds a
row, six steps replace one (`Replaces`), and all others are `Quiet` and keep the
invariant by one lemma. A cookie is for the last trip its own browser began to that
place, and no answer to that one has arrived (`TravelInv`), which is all a callback
that goes through can rest on.

`NumbersNormalise` is about the algorithm alone: for every calling code in
`dialRules` or not, every form of `Written` in which its holder may write a line's number
normalises to its E.164 form. Its hypothesis is `ProperLine`: a national number as
long as its country's are, a calling code that does not begin with 0, and no
number that begins with 00. `OneAccountForALine` combines it with `OneAccountEach`;
its assumption on `Lines`, `Typed` and `Canon` is `LinesAssumption`.

Out of the prover's reach and left to TLC: liveness (`CallsEnd`, `Settles`), and
the five properties that are violated. Every other property of every run is
a theorem.

## Where code and documents part

Five disagreements are shown by a violated run; `findings` in `PROJECT.json` has
their lines. The models exclude, bound or mark these further ones, in the
definitions named:

- Two replicas that start on an empty key table each make a key and keep signing
  with different ones until restarted (`OneSigner` says exactly how far they may
  differ). The comments at `store.go` `ActiveSigningKeys` and `main.go`
  `loadKeyring` and the README's "Every replica signs with the same key" promise
  more.
- A password change, a reset or a disable that runs between a refresh's consume and
  its save misses the successor, which stays good (`CheckUser`, `Save`;
  `CutLoginStaysDead` is about quiet logins). The comments at `store.go:324` and
  `admin.go:199` promise that every refresh token is revoked. It is the window of
  `replay_during_refresh`.
- Two first sign-ups at once both become administrator, and on a closed deployment
  both are let in (`ClaimedWhileEmpty` says who may be). The README has sign-up
  closed except while the database holds no accounts.
- The id token on `openid` alone and every userinfo answer give the name and the
  picture (`Signed`, `Fields`), which the README's table of scopes puts under
  `profile`. `id_token_email` shows the same of the address.
- An app taken out of `apps.yaml` keeps its row in `oauth_clients` and goes on
  working (`SyncApp`), though a comment in `server.go` calls the configuration the
  source of truth.
- `prompt=login` ends the session and sends the browser to sign in with `next=`
  the same URL, `prompt=login` included, which ends the new session again
  (`AskLogin`).
- A disconnection between `SaveConsent`'s read and write does not last: the write
  brings the scopes back (`racing`).
- An app made public while a code without a challenge is outstanding can redeem
  it with neither secret nor verifier. It is not in `ProvenExchange`, which is
  about codes that were exposed when issued.
- The comment at `AllowsScope` says that an empty list of scopes stands for the
  server's defaults; the code allows nothing. `applyDefaults` never leaves one
  empty (`LoadedIsWellFormed`).
- A redirect URI that is empty passes `validate` and is gone when the row is read
  back, so an app can be left without any (`ClientOf`).

## Not modelled

Cryptography (bcrypt, JWT signatures, hashes are ideal), parsing and layout, and
SMTP, SMS and HTTP I/O beyond its outcomes. Left out because they keep no state
and decide nothing the properties are about: the MCP endpoint (JSON-RPC behind a
token of its own, whose tools only read), the discovery and JWKS
documents, CORS, translations and templates, the introspection endpoint, the
post-logout redirect, the pages that only show accounts. Of the configuration,
the blocks other than apps and scopes (lifetimes, gateways, providers) only
decide which doors are offered. The throttles per caller address refuse requests
and change nothing else. One hazard listed has no property: two requests that
both choose a first password (`password.go:70`), of which nothing in the
repository says which should win.

## Plan

1. Done: every module with its runs, and a theorem for every safety property that
   holds.
2. Next, theorems that no run states: that `Consent` and `Boot` implement an
   abstract service which knows only approvals and keys; that outside the named
   races `OneTimeCode` and `CrmOutbox` meet their documented promises exactly
   (a code signs in once when no two handlers overlap, a report is queued once
   while its row is there).
