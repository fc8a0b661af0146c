------------------------- MODULE AccountProvisioning -------------------------
(***************************************************************************)
(* How a tenant comes to have a row, a gateway key and a login token       *)
(* (v7server/pico.go: handleLogin, handleRegister, handleLogout and the    *)
(* JWT sessions; store.go: RegisterUser; server.go: POST and DELETE of     *)
(* users), over restarts of the server and calls that fail.                *)
(*                                                                         *)
(* The accounts are those of one-api, which is not part of the repository. *)
(* An API key is the user it was minted for.  config.json stands for all   *)
(* the files RegisterUser makes before the row: it is the last of them.    *)
(* A signing secret is its number; 0 is a file that is missing, empty or   *)
(* too short.  Every request carries the password of its user.             *)
(***************************************************************************)
EXTENDS Naturals

CONSTANTS
    Users,
    Requests,   \* goroutines of handlers
    Tokens,     \* login tokens, recycled when they expire
    NoUser,
    NoRow, NoKey, NoToken,
    Shared,     \* the gateway key of the server
    Given,      \* a key that came with POST /api/v1/users
    Faults,     \* what may fail: subset of AllFaults
    MaxFaults   \* bound: crashes and failures

AllFaults == {"gateway", "store", "revoke", "secret", "crash"}

Token == [user : Users, by : Nat, logout : {"no", "asked", "lost", "done"}]

ASSUME AccountAssumption ==
    /\ NoToken \notin Token
    /\ NoUser \notin Users
    /\ Users \cap {Shared, Given, NoRow, NoKey} = {}
    /\ Shared # NoRow /\ Given # NoRow
    /\ Faults \subseteq AllFaults
    /\ MaxFaults \in Nat

VARIABLES
    account,    \* users with an account of the gateway
    row,        \* row[u]: users.api_key
    config,     \* config[u]: config.json
    at,         \* at[r]: where request r is
    kind,       \* kind[r]: which handler
    who,        \* who[r]: user
    jar,        \* jar[r]: whose session cookie mintPerUserKey's client holds
    key,        \* key[r]: the API key at hand
    server,     \* "down", "drawn", "emptied", "up"
    secretFile, \* data/jwt-secret
    secret,     \* sessionStore.secret
    drawn,      \* secrets generated so far
    tokens,     \* tokens[k]: user, secret it was signed with, what became of its logout
    revoked,    \* revoked_tokens
    faults,     \* how many calls have failed
    failed      \* of which kinds

requestVars == <<at, kind, who, jar, key>>
tenantVars == <<account, row, config>>
secretVars == <<server, secretFile, secret, drawn>>
tokenVars == <<tokens, revoked>>
faultVars == <<faults, failed>>
accountVars == <<tenantVars, requestVars, secretVars, tokenVars, faultVars>>

Keys == Users \cup {Shared, Given}

AccountTypeOK ==
    /\ account \subseteq Users
    /\ row \in [Users -> Keys \cup {NoRow}]
    /\ config \in [Users -> {"none", "template", "own"}]
    /\ at \in [Requests -> {"idle", "account", "mintlogin", "minttoken", "login", "look",
                            "stat", "template", "insert", "issue"}]
    /\ kind \in [Requests -> {"none", "register", "login", "create"}]
    /\ who \in [Requests -> Users \cup {NoUser}]
    /\ jar \in [Requests -> Users \cup {NoUser}]
    /\ key \in [Requests -> Keys \cup {NoKey}]
    /\ server \in {"down", "drawn", "emptied", "up"}
    /\ secretFile \in Nat /\ secret \in Nat /\ drawn \in Nat
    /\ tokens \in [Tokens -> Token \cup {NoToken}]
    /\ revoked \subseteq Tokens
    /\ faults \in 0..MaxFaults
    /\ failed \subseteq AllFaults

\* A fresh data directory, and accounts of any age.
AccountInit ==
    /\ account \in SUBSET Users
    /\ row = [u \in Users |-> NoRow]
    /\ config = [u \in Users |-> "none"]
    /\ at = [r \in Requests |-> "idle"]
    /\ kind = [r \in Requests |-> "none"]
    /\ who = [r \in Requests |-> NoUser]
    /\ jar = [r \in Requests |-> NoUser]
    /\ key = [r \in Requests |-> NoKey]
    /\ server = "down"
    /\ secretFile = 0 /\ secret = 0 /\ drawn = 0
    /\ tokens = [k \in Tokens |-> NoToken]
    /\ revoked = {}
    /\ faults = 0 /\ failed = {}

Goto(r, p) == at' = [at EXCEPT ![r] = p]

Goes(r, p) == Goto(r, p) /\ UNCHANGED <<kind, who, jar, key>>

\* The handler returns: its clients and the key it held are gone.
Finish(r) ==
    /\ Goto(r, "idle")
    /\ kind' = [kind EXCEPT ![r] = "none"]
    /\ who' = [who EXCEPT ![r] = NoUser]
    /\ jar' = [jar EXCEPT ![r] = NoUser]
    /\ key' = [key EXCEPT ![r] = NoKey]

\* Something of this kind fails now.
Failing(f) ==
    /\ f \in Faults
    /\ faults < MaxFaults
    /\ faults' = faults + 1
    /\ failed' = failed \cup {f}

-----------------------------------------------------------------------------
(* Requests arrive.                                                        *)

FirstPlace == [register |-> "account", login |-> "login", create |-> "stat"]
FirstKey == [register |-> NoKey, login |-> Shared, create |-> Given]

Begin(r, k, u) ==
    /\ server = "up"
    /\ at[r] = "idle"
    /\ Goto(r, FirstPlace[k])
    /\ kind' = [kind EXCEPT ![r] = k]
    /\ who' = [who EXCEPT ![r] = u]
    /\ key' = [key EXCEPT ![r] = FirstKey[k]]
    /\ UNCHANGED <<jar, tenantVars, secretVars, tokenVars, faultVars>>

-----------------------------------------------------------------------------
(* The gateway.  A call that fails ends the request.                       *)

\* The account is made, or there is one, which is a conflict.  An answer that is
\* lost leaves the account behind.
RegisterAccount(r) ==
    /\ at[r] = "account"
    /\ \/ /\ IF who[r] \in account THEN Finish(r) ELSE Goes(r, "mintlogin")
          /\ account' = account \cup {who[r]}
          /\ UNCHANGED faultVars
       \/ /\ Failing("gateway")
          /\ Finish(r)
          /\ \/ account' = account \cup {who[r]}
             \/ UNCHANGED account
    /\ UNCHANGED <<row, config, secretVars, tokenVars>>

\* Mutant of MintLogin: the clients share one jar.
MintLoginShared(r) ==
    /\ at[r] = "mintlogin"
    /\ jar' = [q \in Requests |-> who[r]]
    /\ Goto(r, "minttoken")
    /\ UNCHANGED <<kind, who, key, faultVars, tenantVars, secretVars, tokenVars>>

\* mintPerUserKey's login: the cookie is kept in the jar of its own client.
MintLogin(r) ==
    /\ at[r] = "mintlogin"
    /\ \/ /\ jar' = [jar EXCEPT ![r] = who[r]]
          /\ Goto(r, "minttoken")
          /\ UNCHANGED <<kind, who, key, faultVars>>
       \/ Failing("gateway") /\ Finish(r)
    /\ UNCHANGED <<tenantVars, secretVars, tokenVars>>

\* The key is minted for the user of the cookie.
MintToken(r) ==
    /\ at[r] = "minttoken"
    /\ \/ /\ key' = [key EXCEPT ![r] = jar[r]]
          /\ Goto(r, "login")
          /\ UNCHANGED <<kind, who, jar, faultVars>>
       \/ Failing("gateway") /\ Finish(r)
    /\ UNCHANGED <<tenantVars, secretVars, tokenVars>>

\* Mutant of Login: the key of the registration is not handed on.
LoginWithoutKey(r) ==
    /\ at[r] = "login"
    /\ who[r] \in account
    /\ Goto(r, "look")
    /\ key' = [key EXCEPT ![r] = IF kind[r] = "register" THEN NoKey ELSE key[r]]
    /\ UNCHANGED <<kind, who, jar, faultVars, tenantVars, secretVars, tokenVars>>

\* The login of handleLogin, and the one that ends a registration.
Login(r) ==
    /\ at[r] = "login"
    /\ \/ /\ IF who[r] \in account THEN Goes(r, "look") ELSE Finish(r)
          /\ UNCHANGED faultVars
       \/ Failing("gateway") /\ Finish(r)
    /\ UNCHANGED <<tenantVars, secretVars, tokenVars>>

-----------------------------------------------------------------------------
(* The meta store.                                                         *)

\* Mutant of LookRow: a login does not make a row.
LookRowOnly(r) ==
    /\ at[r] = "look"
    /\ IF row[who[r]] # NoRow THEN Goes(r, "issue")
       ELSE IF kind[r] = "login" THEN Finish(r) ELSE Goes(r, "stat")
    /\ UNCHANGED <<tenantVars, secretVars, tokenVars, faultVars>>

\* GetUser: any error counts as no row.
LookRow(r) ==
    /\ at[r] = "look"
    /\ \/ /\ Goes(r, IF row[who[r]] = NoRow THEN "stat" ELSE "issue")
          /\ UNCHANGED faultVars
       \/ Failing("store") /\ Goes(r, "stat")
    /\ UNCHANGED <<tenantVars, secretVars, tokenVars>>

\* Mutant of StatConfig: the row is inserted before the files are made.
StatConfigLater(r) ==
    /\ at[r] = "stat"
    /\ Goes(r, "insert")
    /\ UNCHANGED <<tenantVars, secretVars, tokenVars, faultVars>>

\* RegisterUser up to the Stat of EnsureUserConfigTemplate.
StatConfig(r) ==
    /\ at[r] = "stat"
    /\ \/ /\ Goes(r, IF config[who[r]] = "none" THEN "template" ELSE "insert")
          /\ UNCHANGED faultVars
       \/ Failing("store") /\ Finish(r)
    /\ UNCHANGED <<tenantVars, secretVars, tokenVars>>

\* A write that fails may leave an empty file behind, which counts as a template.
WriteTemplate(r) ==
    /\ at[r] = "template"
    /\ \/ /\ config' = [config EXCEPT ![who[r]] = "template"]
          /\ \/ Goes(r, "insert") /\ UNCHANGED faultVars
             \/ Failing("store") /\ Finish(r)
       \/ Failing("store") /\ Finish(r) /\ UNCHANGED config
    /\ UNCHANGED <<account, row, secretVars, tokenVars>>

\* Mutant of InsertRow: INSERT OR REPLACE.
ReplaceRow(r) ==
    /\ at[r] = "insert"
    /\ row' = [row EXCEPT ![who[r]] = key[r]]
    /\ IF kind[r] = "create" THEN Finish(r) ELSE Goes(r, "issue")
    /\ UNCHANGED <<account, config, secretVars, tokenVars, faultVars>>

\* RegisterUser's INSERT; a second row for the id is an error.
InsertRow(r) ==
    /\ at[r] = "insert"
    /\ \/ /\ row[who[r]] = NoRow
          /\ row' = [row EXCEPT ![who[r]] = key[r]]
          /\ IF kind[r] = "create" THEN Finish(r) ELSE Goes(r, "issue")
          /\ UNCHANGED faultVars
       \/ /\ row[who[r]] # NoRow
          /\ Finish(r)
          /\ UNCHANGED <<row, faultVars>>
       \/ Failing("store") /\ Finish(r) /\ UNCHANGED row
    /\ UNCHANGED <<account, config, secretVars, tokenVars>>

\* PUT of config.json asks for the row first; RemoveUser leaves the files.
PutConfig(u) ==
    /\ server = "up"
    /\ row[u] # NoRow
    /\ config' = [config EXCEPT ![u] = "own"]
    /\ UNCHANGED <<account, row, requestVars, secretVars, tokenVars, faultVars>>

DeleteRow(u) ==
    /\ server = "up"
    /\ row[u] # NoRow
    /\ row' = [row EXCEPT ![u] = NoRow]
    /\ UNCHANGED <<account, config, requestVars, secretVars, tokenVars, faultVars>>

-----------------------------------------------------------------------------
(* Login tokens.                                                           *)

\* issue, and the answer.
Issue(r, k) ==
    /\ at[r] = "issue"
    /\ tokens[k] = NoToken
    /\ tokens' = [tokens EXCEPT ![k] = [user |-> who[r], by |-> secret, logout |-> "no"]]
    /\ Finish(r)
    /\ UNCHANGED <<tenantVars, secretVars, revoked, faultVars>>

\* sessionTTL is over; the identity is free again.
Expire(k) ==
    /\ tokens[k] # NoToken
    /\ tokens' = [tokens EXCEPT ![k] = NoToken]
    /\ revoked' = revoked \ {k}
    /\ UNCHANGED <<tenantVars, requestVars, secretVars, faultVars>>

Signed(k) == tokens[k] # NoToken /\ tokens[k].by = secret

\* lookup.
Accepted(k) == Signed(k) /\ k \notin revoked

\* handleLogout up to the end of revoke: the error of RevokeToken is dropped.
Revoke(k) ==
    /\ server = "up"
    /\ tokens[k] # NoToken
    /\ tokens[k].logout \in {"no", "lost"}
    /\ tokens' = [tokens EXCEPT ![k].logout = "asked"]
    /\ \/ revoked' = (IF Signed(k) THEN revoked \cup {k} ELSE revoked) /\ UNCHANGED faultVars
       \/ Failing("revoke") /\ UNCHANGED revoked
    /\ UNCHANGED <<tenantVars, requestVars, secretVars>>

\* Its answer, which is always ok.
LoggedOut(k) ==
    /\ tokens[k] # NoToken
    /\ tokens[k].logout = "asked"
    /\ tokens' = [tokens EXCEPT ![k].logout = "done"]
    /\ UNCHANGED <<tenantVars, requestVars, secretVars, revoked, faultVars>>

-----------------------------------------------------------------------------
(* The process.                                                            *)

\* loadOrCreateJWTSecret: a file that cannot be read counts as none.
ReadSecret ==
    /\ server = "down"
    /\ \/ /\ secretFile # 0
          /\ secret' = secretFile
          /\ server' = "up"
          /\ UNCHANGED <<drawn, faultVars>>
       \/ /\ IF secretFile = 0 THEN UNCHANGED faultVars ELSE Failing("secret")
          /\ drawn' = drawn + 1
          /\ secret' = drawn'
          /\ server' = "drawn"
    /\ UNCHANGED <<secretFile, tenantVars, requestVars, tokenVars>>

\* os.WriteFile truncates first.
EmptySecret ==
    /\ server = "drawn"
    /\ secretFile' = 0
    /\ server' = "emptied"
    /\ UNCHANGED <<secret, drawn, tenantVars, requestVars, tokenVars, faultVars>>

\* Mutant of WriteSecret: it is not persisted.
WriteSecretNot ==
    /\ server = "emptied"
    /\ server' = "up"
    /\ UNCHANGED <<secretFile, secret, drawn, tenantVars, requestVars, tokenVars, faultVars>>

WriteSecret ==
    /\ server = "emptied"
    /\ secretFile' = secret
    /\ server' = "up"
    /\ UNCHANGED <<secret, drawn, tenantVars, requestVars, tokenVars, faultVars>>

Lost == [k \in Tokens |-> IF tokens[k] # NoToken /\ tokens[k].logout = "asked"
                          THEN [tokens[k] EXCEPT !.logout = "lost"] ELSE tokens[k]]

\* The server is gone, and with it what the requests held.
Down ==
    /\ server' = "down"
    /\ secret' = 0
    /\ at' = [r \in Requests |-> "idle"]
    /\ kind' = [r \in Requests |-> "none"]
    /\ who' = [r \in Requests |-> NoUser]
    /\ jar' = [r \in Requests |-> NoUser]
    /\ key' = [r \in Requests |-> NoKey]
    /\ tokens' = Lost

\* Mutant of Crash: revocations are kept in memory.
CrashForgets ==
    /\ server # "down"
    /\ Failing("crash")
    /\ Down
    /\ revoked' = {}
    /\ UNCHANGED <<tenantVars, secretFile, drawn>>

Crash ==
    /\ server # "down"
    /\ Failing("crash")
    /\ Down
    /\ UNCHANGED <<tenantVars, secretFile, drawn, revoked>>

-----------------------------------------------------------------------------
Serve(r) ==
    \/ RegisterAccount(r) \/ MintLogin(r) \/ MintToken(r) \/ Login(r)
    \/ LookRow(r) \/ StatConfig(r) \/ WriteTemplate(r) \/ InsertRow(r)
    \/ \E k \in Tokens : Issue(r, k)

Boot == ReadSecret \/ EmptySecret \/ WriteSecret

AccountNext ==
    \/ \E r \in Requests, k \in DOMAIN FirstPlace, u \in Users : Begin(r, k, u)
    \/ \E r \in Requests : Serve(r)
    \/ \E u \in Users : PutConfig(u) \/ DeleteRow(u)
    \/ \E k \in Tokens : Expire(k) \/ Revoke(k) \/ LoggedOut(k)
    \/ Boot
    \/ Crash

AccountSpec == AccountInit /\ [][AccountNext]_accountVars

\* Handlers and the start of the server go on, tokens expire, and a user without a
\* row keeps trying to log in.
AccountFairness ==
    /\ \A r \in Requests : WF_accountVars(Serve(r))
    /\ \A k \in Tokens : WF_accountVars(Expire(k))
    /\ \A u \in Users :
         SF_accountVars(row[u] = NoRow /\ \E r \in Requests : Begin(r, "login", u))
    /\ WF_accountVars(Boot)

FairAccountSpec == AccountSpec /\ AccountFairness

-----------------------------------------------------------------------------
(* Properties.                                                             *)

\* A tenant's row never holds a key that was minted for somebody else, however
\* registrations overlap (newGatewayClient: a cookie jar per client).
KeyIsOwn == \A u \in Users : row[u] \in {u, Shared, Given, NoRow}

\* No login, registration or POST changes the key of a row that is there, whatever
\* was looked up before (store.go: INSERT, after a GetUser that may be out of date).
RowKept ==
    [][\A u \in Users : row[u] # NoRow => row'[u] \in {row[u], NoRow}]_accountVars

\* A tenant with a row has files, also after a crash in the middle of RegisterUser.
RowHasFiles == \A u \in Users : row[u] # NoRow => config[u] # "none"

\* Whoever holds a token that nobody asked to revoke is let in whenever the server
\* serves, after any number of restarts, as long as the secret can be read: a crash
\* in the middle of the first start leaves no token behind that is lost.
TokensHold ==
    server = "up" =>
        \A k \in Tokens : tokens[k] # NoToken /\ tokens[k].logout = "no" => Accepted(k)

TokensLast == "secret" \notin failed => TokensHold

\* Who was told to be logged out is refused from then on, also after a restart, as
\* long as RevokeToken has not failed.
LoggedOutIsRefused ==
    \A k \in Tokens : tokens[k] # NoToken /\ tokens[k].logout = "done" => ~Accepted(k)

RevocationLasts == "revoke" \notin failed => LoggedOutIsRefused

\* An account that a failed registration left behind gets its row by a login.
HalfRegisteredRecovers == \A u \in Users : u \in account ~> row[u] # NoRow

\* Whose comments the code breaks: TokensHold, of which pico.go says "restarts never
\* invalidate outstanding tokens"; LoggedOutIsRefused, of which store.go says "its
\* token is rejected after logout"; and these two.

\* server.go: "per-user providers use the per-user key minted at login".
OwnKey == \A u \in Users : row[u] # Shared

\* store.go: EnsureUserConfigTemplate "writes the baseline per-tenant config file if
\* it does not exist yet".
SettingsKept ==
    [][\A u \in Users : config[u] = "own" => config'[u] = "own"]_accountVars
=============================================================================
