------------------------ MODULE AccountProvisioningProofs ------------------------
(***************************************************************************)
(* Proofs about AccountProvisioning, for any number of users, requests and *)
(* tokens, and any failures.                                               *)
(***************************************************************************)
EXTENDS AccountProvisioning, TLAPS

\* What a request has in its hands belongs to its user: the cookie, and from the
\* login on a key.
HoldsOwn ==
    \A r \in Requests :
        /\ jar[r] \in {who[r], NoUser}
        /\ at[r] = "idle" => jar[r] = NoUser
        /\ at[r] # "idle" => who[r] \in Users /\ server = "up"
        /\ at[r] = "minttoken" => jar[r] = who[r]
        /\ at[r] \in {"look", "stat", "template", "insert"} => key[r] \in {who[r], Shared, Given}
        /\ at[r] = "login" => key[r] \in {who[r], Shared}

\* The files are there when the row is about to be inserted.
FilesFirst == \A r \in Requests : at[r] = "insert" => config[who[r]] # "none"

TenantInv == HoldsOwn /\ KeyIsOwn /\ FilesFirst /\ RowHasFiles

\* Secrets are numbered in the order in which they are drawn, and the server serves
\* with the one that is in the file.
SecretOrder ==
    /\ secretFile <= drawn /\ secret <= drawn
    /\ server = "up" => secret = secretFile /\ secret # 0
    /\ server \in {"drawn", "emptied"} => secret = drawn /\ drawn # 0
    /\ server = "drawn" => secretFile < drawn
    /\ server = "emptied" => secretFile = 0
    /\ \A k \in Tokens : tokens[k] # NoToken =>
         /\ 0 < tokens[k].by /\ tokens[k].by <= drawn
         /\ server \in {"drawn", "emptied"} => tokens[k].by < drawn

\* As long as the file can be read: it is the one all tokens were signed with, and
\* another secret is only drawn before there is any.
OneSecret ==
    "secret" \notin failed =>
        /\ server \in {"drawn", "emptied"} => secretFile = 0
        /\ \A k \in Tokens : tokens[k] # NoToken => tokens[k].by = secretFile

\* Only tokens whose logout was asked for are revoked; and they are, unless they are
\* signed with a secret that is gone.
Revocations ==
    /\ \A k \in revoked : tokens[k] # NoToken /\ tokens[k].logout # "no"
    /\ "revoke" \notin failed =>
         \A k \in Tokens : tokens[k] # NoToken /\ tokens[k].logout # "no" =>
             k \in revoked \/ tokens[k].by \notin {secret, secretFile}

TokenInv == SecretOrder /\ OneSecret /\ Revocations

AccountInv == AccountTypeOK /\ TenantInv /\ TokenInv

\* The invariant holds when the server is first started.
LEMMA AccountInvInit == AccountInit => AccountInv
<1> SUFFICES ASSUME AccountInit PROVE AccountInv
    OBVIOUS
<1>1. AccountTypeOK
    BY AccountAssumption DEF AccountInit, AccountTypeOK
<1>2. TenantInv
    BY DEF AccountInit, TenantInv, HoldsOwn, KeyIsOwn, FilesFirst, RowHasFiles
<1>3. TokenInv
    BY DEF AccountInit, TokenInv, SecretOrder, OneSecret, Revocations
<1> QED BY <1>1, <1>2, <1>3 DEF AccountInv

\* A step of a request that leaves tokens and secrets alone, whatever fails meanwhile.
LEMMA TokensUntouched ==
    ASSUME TokenInv, UNCHANGED <<secretVars, tokenVars>>, failed \subseteq failed'
    PROVE  TokenInv'
BY DEF secretVars, tokenVars, TokenInv, SecretOrder, OneSecret, Revocations

\* A call that fails is remembered.
LEMMA FailingKeeps ==
    ASSUME AccountTypeOK, NEW f \in AllFaults, Failing(f)
    PROVE  /\ failed \subseteq failed' /\ failed' \subseteq AllFaults
           /\ faults' \in 0..MaxFaults
BY AccountAssumption DEF Failing, AccountTypeOK

-----------------------------------------------------------------------------
(* Requests.                                                               *)

\* A request arrives.
LEMMA BeginKeeps ==
    ASSUME AccountInv, NEW r \in Requests, NEW k \in DOMAIN FirstPlace, NEW u \in Users,
           Begin(r, k, u)
    PROVE  AccountInv'
<1>1. failed \subseteq failed' /\ failed' \subseteq AllFaults /\ faults' \in 0..MaxFaults
    BY FailingKeeps DEF Begin, faultVars, AccountInv, AccountTypeOK, AllFaults
<1>2. UNCHANGED <<secretVars, tokenVars>>
    BY DEF Begin
<1>3. AccountTypeOK'
    BY <1>1, <1>2 DEF Begin, FirstPlace, FirstKey, Goto, tenantVars, secretVars, tokenVars,
       faultVars, AccountInv, AccountTypeOK, TenantInv, HoldsOwn, Keys
<1>4. TenantInv'
    BY AccountAssumption, <1>2 DEF Begin, FirstPlace, FirstKey, Goto, tenantVars,
       secretVars, tokenVars, AccountInv, AccountTypeOK, TenantInv, HoldsOwn, KeyIsOwn,
       FilesFirst, RowHasFiles
<1> QED BY <1>1, <1>2, <1>3, <1>4, TokensUntouched DEF AccountInv

\* An account is made, or not.
LEMMA RegisterAccountKeeps ==
    ASSUME AccountInv, NEW r \in Requests, RegisterAccount(r)
    PROVE  AccountInv'
<1>1. failed \subseteq failed' /\ failed' \subseteq AllFaults /\ faults' \in 0..MaxFaults
    BY FailingKeeps DEF RegisterAccount, faultVars, AccountInv, AccountTypeOK, AllFaults
<1>2. UNCHANGED <<secretVars, tokenVars>>
    BY DEF RegisterAccount
<1>3. AccountTypeOK'
    BY <1>1, <1>2 DEF RegisterAccount, Goes, Goto, Finish, tenantVars, secretVars,
       tokenVars, faultVars, AccountInv, AccountTypeOK, TenantInv, HoldsOwn, Keys
<1>4. TenantInv'
    BY AccountAssumption, <1>2 DEF RegisterAccount, Goes, Goto, Finish, tenantVars,
       secretVars, tokenVars, AccountInv, AccountTypeOK, TenantInv, HoldsOwn, KeyIsOwn,
       FilesFirst, RowHasFiles
<1> QED BY <1>1, <1>2, <1>3, <1>4, TokensUntouched DEF AccountInv

\* The client logs in to mint a key.
LEMMA MintLoginKeeps ==
    ASSUME AccountInv, NEW r \in Requests, MintLogin(r)
    PROVE  AccountInv'
<1>1. failed \subseteq failed' /\ failed' \subseteq AllFaults /\ faults' \in 0..MaxFaults
    BY FailingKeeps DEF MintLogin, faultVars, AccountInv, AccountTypeOK, AllFaults
<1>2. UNCHANGED <<secretVars, tokenVars>>
    BY DEF MintLogin
<1>3. AccountTypeOK'
    BY <1>1, <1>2 DEF MintLogin, Goto, Finish, tenantVars, secretVars, tokenVars, faultVars,
       AccountInv, AccountTypeOK, TenantInv, HoldsOwn, Keys
<1>4. TenantInv'
    BY AccountAssumption, <1>2 DEF MintLogin, Goto, Finish, tenantVars, secretVars,
       tokenVars, AccountInv, AccountTypeOK, TenantInv, HoldsOwn, KeyIsOwn, FilesFirst,
       RowHasFiles
<1> QED BY <1>1, <1>2, <1>3, <1>4, TokensUntouched DEF AccountInv

\* The key is minted.
LEMMA MintTokenKeeps ==
    ASSUME AccountInv, NEW r \in Requests, MintToken(r)
    PROVE  AccountInv'
<1>1. failed \subseteq failed' /\ failed' \subseteq AllFaults /\ faults' \in 0..MaxFaults
    BY FailingKeeps DEF MintToken, faultVars, AccountInv, AccountTypeOK, AllFaults
<1>2. UNCHANGED <<secretVars, tokenVars>>
    BY DEF MintToken
<1>3. AccountTypeOK'
    BY <1>1, <1>2 DEF MintToken, Goto, Finish, tenantVars, secretVars, tokenVars, faultVars,
       AccountInv, AccountTypeOK, TenantInv, HoldsOwn, Keys
<1>4. TenantInv'
    BY AccountAssumption, <1>2 DEF MintToken, Goto, Finish, tenantVars, secretVars,
       tokenVars, AccountInv, AccountTypeOK, TenantInv, HoldsOwn, KeyIsOwn, FilesFirst,
       RowHasFiles
<1> QED BY <1>1, <1>2, <1>3, <1>4, TokensUntouched DEF AccountInv

\* The gateway checks the password.
LEMMA LoginKeeps ==
    ASSUME AccountInv, NEW r \in Requests, Login(r)
    PROVE  AccountInv'
<1>1. failed \subseteq failed' /\ failed' \subseteq AllFaults /\ faults' \in 0..MaxFaults
    BY FailingKeeps DEF Login, faultVars, AccountInv, AccountTypeOK, AllFaults
<1>2. UNCHANGED <<secretVars, tokenVars>>
    BY DEF Login
<1>3. AccountTypeOK'
    BY <1>1, <1>2 DEF Login, Goes, Goto, Finish, tenantVars, secretVars, tokenVars, faultVars,
       AccountInv, AccountTypeOK, TenantInv, HoldsOwn, Keys
<1>4. TenantInv'
    BY AccountAssumption, <1>2 DEF Login, Goes, Goto, Finish, tenantVars, secretVars,
       tokenVars, AccountInv, AccountTypeOK, TenantInv, HoldsOwn, KeyIsOwn, FilesFirst,
       RowHasFiles
<1> QED BY <1>1, <1>2, <1>3, <1>4, TokensUntouched DEF AccountInv

\* The row is looked up.
LEMMA LookRowKeeps ==
    ASSUME AccountInv, NEW r \in Requests, LookRow(r)
    PROVE  AccountInv'
<1>1. failed \subseteq failed' /\ failed' \subseteq AllFaults /\ faults' \in 0..MaxFaults
    BY FailingKeeps DEF LookRow, faultVars, AccountInv, AccountTypeOK, AllFaults
<1>2. UNCHANGED <<secretVars, tokenVars>>
    BY DEF LookRow
<1>3. AccountTypeOK'
    BY <1>1, <1>2 DEF LookRow, Goes, Goto, tenantVars, secretVars, tokenVars, faultVars,
       AccountInv, AccountTypeOK, TenantInv, HoldsOwn, Keys
<1>4. TenantInv'
    BY AccountAssumption, <1>2 DEF LookRow, Goes, Goto, tenantVars, secretVars, tokenVars,
       AccountInv, AccountTypeOK, TenantInv, HoldsOwn, KeyIsOwn, FilesFirst, RowHasFiles
<1> QED BY <1>1, <1>2, <1>3, <1>4, TokensUntouched DEF AccountInv

\* The files of a new tenant are made, up to config.json.
LEMMA StatConfigKeeps ==
    ASSUME AccountInv, NEW r \in Requests, StatConfig(r)
    PROVE  AccountInv'
<1>1. failed \subseteq failed' /\ failed' \subseteq AllFaults /\ faults' \in 0..MaxFaults
    BY FailingKeeps DEF StatConfig, faultVars, AccountInv, AccountTypeOK, AllFaults
<1>2. UNCHANGED <<secretVars, tokenVars>>
    BY DEF StatConfig
<1>3. AccountTypeOK'
    BY <1>1, <1>2 DEF StatConfig, Goes, Goto, Finish, tenantVars, secretVars, tokenVars,
       faultVars, AccountInv, AccountTypeOK, TenantInv, HoldsOwn, Keys
<1>4. TenantInv'
    BY AccountAssumption, <1>2 DEF StatConfig, Goes, Goto, Finish, tenantVars, secretVars,
       tokenVars, AccountInv, AccountTypeOK, TenantInv, HoldsOwn, KeyIsOwn, FilesFirst,
       RowHasFiles
<1> QED BY <1>1, <1>2, <1>3, <1>4, TokensUntouched DEF AccountInv

\* config.json is made.
LEMMA WriteTemplateKeeps ==
    ASSUME AccountInv, NEW r \in Requests, WriteTemplate(r)
    PROVE  AccountInv'
<1>1. failed \subseteq failed' /\ failed' \subseteq AllFaults /\ faults' \in 0..MaxFaults
    BY FailingKeeps DEF WriteTemplate, faultVars, AccountInv, AccountTypeOK, AllFaults
<1>2. UNCHANGED <<secretVars, tokenVars>>
    BY DEF WriteTemplate
<1>3. AccountTypeOK'
    BY <1>1, <1>2 DEF WriteTemplate, Goes, Goto, Finish, tenantVars, secretVars, tokenVars,
       faultVars, AccountInv, AccountTypeOK, TenantInv, HoldsOwn, Keys
<1>4. TenantInv'
    BY AccountAssumption, <1>2 DEF WriteTemplate, Goes, Goto, Finish, tenantVars,
       secretVars, tokenVars, AccountInv, AccountTypeOK, TenantInv, HoldsOwn, KeyIsOwn,
       FilesFirst, RowHasFiles
<1> QED BY <1>1, <1>2, <1>3, <1>4, TokensUntouched DEF AccountInv

\* The row is inserted, or it is there already.
LEMMA InsertRowKeeps ==
    ASSUME AccountInv, NEW r \in Requests, InsertRow(r)
    PROVE  AccountInv'
<1>1. failed \subseteq failed' /\ failed' \subseteq AllFaults /\ faults' \in 0..MaxFaults
    BY FailingKeeps DEF InsertRow, faultVars, AccountInv, AccountTypeOK, AllFaults
<1>2. UNCHANGED <<secretVars, tokenVars>>
    BY DEF InsertRow
<1>3. AccountTypeOK'
    BY <1>1, <1>2 DEF InsertRow, Goes, Goto, Finish, tenantVars, secretVars, tokenVars,
       faultVars, AccountInv, AccountTypeOK, TenantInv, HoldsOwn, Keys
<1>4. TenantInv'
    BY AccountAssumption, <1>2 DEF InsertRow, Goes, Goto, Finish, tenantVars, secretVars,
       tokenVars, AccountInv, AccountTypeOK, TenantInv, HoldsOwn, KeyIsOwn, FilesFirst,
       RowHasFiles
<1> QED BY <1>1, <1>2, <1>3, <1>4, TokensUntouched DEF AccountInv

-----------------------------------------------------------------------------
(* Tenants without a request.                                              *)

\* A tenant changes the settings, or is deleted: the files stay.
LEMMA TenantKeeps ==
    ASSUME AccountInv, NEW u \in Users, PutConfig(u) \/ DeleteRow(u)
    PROVE  AccountInv'
<1>1. TokenInv'
    BY TokensUntouched DEF PutConfig, DeleteRow, faultVars, AccountInv
<1>2. AccountTypeOK' /\ TenantInv'
    BY DEF PutConfig, DeleteRow, requestVars, secretVars, tokenVars, faultVars, AccountInv,
       AccountTypeOK, TenantInv, HoldsOwn, KeyIsOwn, FilesFirst, RowHasFiles
<1> QED BY <1>1, <1>2 DEF AccountInv

-----------------------------------------------------------------------------
(* Tokens.                                                                 *)

\* What tenants have is not touched by what happens to tokens.
LEMMA TenantsUntouched ==
    ASSUME TenantInv, UNCHANGED <<tenantVars, requestVars, server>>
    PROVE  TenantInv'
BY DEF tenantVars, requestVars, TenantInv, HoldsOwn, KeyIsOwn, FilesFirst, RowHasFiles

\* A token is issued: the server serves, so its secret is the one in the file.
LEMMA IssueKeeps ==
    ASSUME AccountInv, NEW r \in Requests, NEW k \in Tokens, Issue(r, k)
    PROVE  AccountInv'
<1>1. server = "up" /\ who[r] \in Users
    BY DEF Issue, AccountInv, TenantInv, HoldsOwn
<1>2. AccountTypeOK'
    BY <1>1 DEF Issue, Finish, Goto, tenantVars, secretVars, faultVars, AccountInv,
       AccountTypeOK, Token
<1>3. TenantInv'
    BY DEF Issue, Finish, Goto, tenantVars, secretVars, AccountInv, AccountTypeOK,
       TenantInv, HoldsOwn, KeyIsOwn, FilesFirst, RowHasFiles
<1>4. TokenInv'
    BY <1>1, AccountAssumption DEF Issue, secretVars, faultVars, AccountInv, AccountTypeOK,
       TokenInv, SecretOrder, OneSecret, Revocations, Token
<1> QED BY <1>2, <1>3, <1>4 DEF AccountInv

\* A token expires.
LEMMA ExpireKeeps ==
    ASSUME AccountInv, NEW k \in Tokens, Expire(k)
    PROVE  AccountInv'
<1>1. AccountTypeOK'
    BY DEF Expire, tenantVars, requestVars, secretVars, faultVars, AccountInv, AccountTypeOK
<1>2. TenantInv'
    BY TenantsUntouched DEF Expire, secretVars, AccountInv
<1>3. TokenInv'
    BY DEF Expire, secretVars, faultVars, AccountInv, AccountTypeOK, TokenInv, SecretOrder,
       OneSecret, Revocations
<1> QED BY <1>1, <1>2, <1>3 DEF AccountInv

\* A logout: the token is signed with the server's secret and revoked, or it is signed
\* with one that is gone; or the store fails.
LEMMA RevokeKeeps ==
    ASSUME AccountInv, NEW k \in Tokens, Revoke(k)
    PROVE  AccountInv'
<1>1. failed \subseteq failed' /\ failed' \subseteq AllFaults /\ faults' \in 0..MaxFaults
    BY FailingKeeps DEF Revoke, faultVars, AccountInv, AccountTypeOK, AllFaults
<1>2. tokens[k] \in Token /\ [tokens[k] EXCEPT !.logout = "asked"] \in Token
    BY DEF Revoke, AccountInv, AccountTypeOK, Token
<1>3. AccountTypeOK'
    BY <1>1, <1>2 DEF Revoke, tenantVars, requestVars, secretVars, AccountInv, AccountTypeOK
<1>4. TenantInv'
    BY TenantsUntouched DEF Revoke, secretVars, AccountInv
<1>5. /\ tokens' = [tokens EXCEPT ![k] = [tokens[k] EXCEPT !.logout = "asked"]]
      /\ tokens'[k] # NoToken
    BY <1>2, AccountAssumption DEF Revoke, AccountInv, AccountTypeOK
<1>6. SecretOrder' /\ OneSecret'
    BY <1>1, <1>2, <1>5 DEF Revoke, secretVars, AccountInv, AccountTypeOK, TokenInv,
       SecretOrder, OneSecret, Token
<1>7. Revocations'
    <2>1. \A q \in revoked' : tokens'[q] # NoToken /\ tokens'[q].logout # "no"
        BY <1>2, <1>5 DEF Revoke, AccountInv, AccountTypeOK, TokenInv, Revocations, Token
    <2>2. ASSUME "revoke" \notin failed', NEW q \in Tokens,
                 tokens'[q] # NoToken, tokens'[q].logout # "no"
          PROVE  q \in revoked' \/ tokens'[q].by \notin {secret', secretFile'}
        <3>1. revoked' = IF Signed(k) THEN revoked \cup {k} ELSE revoked
            BY <2>2 DEF Revoke, Failing
        <3>2. CASE q = k
            BY <3>1, <3>2, <1>2, <1>5 DEF Revoke, Signed, secretVars, AccountInv, TokenInv,
               SecretOrder, AccountTypeOK, Token
        <3>3. CASE q # k
            BY <3>1, <3>3, <2>2, <1>1, <1>5 DEF secretVars, Revoke, AccountInv, AccountTypeOK,
               TokenInv, Revocations
        <3> QED BY <3>2, <3>3
    <2> QED BY <2>1, <2>2 DEF Revocations
<1> QED BY <1>3, <1>4, <1>6, <1>7 DEF AccountInv, TokenInv

\* The logout is answered.
LEMMA LoggedOutKeeps ==
    ASSUME AccountInv, NEW k \in Tokens, LoggedOut(k)
    PROVE  AccountInv'
<1>1. tokens[k] \in Token /\ [tokens[k] EXCEPT !.logout = "done"] \in Token
    BY DEF LoggedOut, AccountInv, AccountTypeOK, Token
<1>2. AccountTypeOK'
    BY <1>1 DEF LoggedOut, tenantVars, requestVars, secretVars, faultVars, AccountInv,
       AccountTypeOK
<1>3. TenantInv'
    BY TenantsUntouched DEF LoggedOut, secretVars, AccountInv
<1>4. /\ tokens' = [tokens EXCEPT ![k] = [tokens[k] EXCEPT !.logout = "done"]]
      /\ tokens'[k] # NoToken
    BY <1>1, AccountAssumption DEF LoggedOut, AccountInv, AccountTypeOK
<1>5. TokenInv'
    BY <1>1, <1>4 DEF LoggedOut, secretVars, faultVars, AccountInv, AccountTypeOK, TokenInv,
       SecretOrder, OneSecret, Revocations, Token
<1> QED BY <1>2, <1>3, <1>5 DEF AccountInv

-----------------------------------------------------------------------------
(* The process.                                                            *)

\* While the server starts there are no requests.
LEMMA BootKeeps ==
    ASSUME AccountInv, Boot
    PROVE  AccountInv'
<1>1. failed \subseteq failed' /\ failed' \subseteq AllFaults /\ faults' \in 0..MaxFaults
    BY FailingKeeps DEF Boot, ReadSecret, EmptySecret, WriteSecret, faultVars, AccountInv,
       AccountTypeOK, AllFaults
<1>2. AccountTypeOK'
    BY <1>1 DEF Boot, ReadSecret, EmptySecret, WriteSecret, tenantVars, requestVars,
       tokenVars, AccountInv, AccountTypeOK
<1>3. TenantInv'
    BY DEF Boot, ReadSecret, EmptySecret, WriteSecret, tenantVars, requestVars, AccountInv,
       TenantInv, HoldsOwn, KeyIsOwn, FilesFirst, RowHasFiles
<1>4. \A k \in Tokens : tokens[k] # NoToken => tokens[k].by \in Nat
    BY DEF AccountInv, AccountTypeOK, Token
<1>5. CASE ReadSecret
    <2>1. SecretOrder'
        BY <1>5, <1>4 DEF ReadSecret, tokenVars, AccountInv, AccountTypeOK, TokenInv,
           SecretOrder
    <2>2. OneSecret'
        BY <1>1, <1>5, <1>4 DEF ReadSecret, Failing, tokenVars, faultVars, AccountInv,
           TokenInv, SecretOrder, OneSecret
    <2>3. \A k \in Tokens : tokens[k] # NoToken /\ tokens[k].by \notin {secret, secretFile}
            => tokens'[k].by \notin {secret', secretFile'}
        BY <1>5, <1>4 DEF ReadSecret, tokenVars, AccountInv, AccountTypeOK, TokenInv,
           SecretOrder
    <2>4. Revocations'
        BY <1>1, <1>5, <2>3 DEF ReadSecret, tokenVars, faultVars, AccountInv, AccountTypeOK,
           TokenInv, Revocations
    <2> QED BY <1>2, <1>3, <2>1, <2>2, <2>4 DEF AccountInv, TokenInv
<1>6. CASE EmptySecret
    <2>1. SecretOrder'
        BY <1>6, <1>4 DEF EmptySecret, tokenVars, AccountInv, AccountTypeOK, TokenInv,
           SecretOrder
    <2>2. OneSecret'
        BY <1>1, <1>6, <1>4 DEF EmptySecret, Failing, tokenVars, faultVars, AccountInv,
           TokenInv, SecretOrder, OneSecret
    <2>3. \A k \in Tokens : tokens[k] # NoToken /\ tokens[k].by \notin {secret, secretFile}
            => tokens'[k].by \notin {secret', secretFile'}
        BY <1>6, <1>4 DEF EmptySecret, tokenVars, AccountInv, AccountTypeOK, TokenInv,
           SecretOrder
    <2>4. Revocations'
        BY <1>1, <1>6, <2>3 DEF EmptySecret, tokenVars, faultVars, AccountInv, AccountTypeOK,
           TokenInv, Revocations
    <2> QED BY <1>2, <1>3, <2>1, <2>2, <2>4 DEF AccountInv, TokenInv
<1>7. CASE WriteSecret
    <2>1. SecretOrder'
        BY <1>7, <1>4 DEF WriteSecret, tokenVars, AccountInv, AccountTypeOK, TokenInv,
           SecretOrder
    <2>2. OneSecret'
        BY <1>1, <1>7, <1>4 DEF WriteSecret, Failing, tokenVars, faultVars, AccountInv,
           TokenInv, SecretOrder, OneSecret
    <2>3. \A k \in Tokens : tokens[k] # NoToken /\ tokens[k].by \notin {secret, secretFile}
            => tokens'[k].by \notin {secret', secretFile'}
        BY <1>7, <1>4 DEF WriteSecret, tokenVars, AccountInv, AccountTypeOK, TokenInv,
           SecretOrder
    <2>4. Revocations'
        BY <1>1, <1>7, <2>3 DEF WriteSecret, tokenVars, faultVars, AccountInv, AccountTypeOK,
           TokenInv, Revocations
    <2> QED BY <1>2, <1>3, <2>1, <2>2, <2>4 DEF AccountInv, TokenInv
<1> QED BY <1>5, <1>6, <1>7 DEF Boot

\* The server is gone.
LEMMA CrashKeeps ==
    ASSUME AccountInv, Crash
    PROVE  AccountInv'
<1>1. failed \subseteq failed' /\ failed' \subseteq AllFaults /\ faults' \in 0..MaxFaults
    BY FailingKeeps DEF Crash, AccountInv, AllFaults
<1>2. \A k \in Tokens :
        /\ tokens'[k] \in Token \cup {NoToken}
        /\ tokens'[k] = NoToken <=> tokens[k] = NoToken
        /\ tokens[k] # NoToken => /\ tokens'[k].by = tokens[k].by
                                  /\ tokens'[k].logout = "no" <=> tokens[k].logout = "no"
    <2> SUFFICES ASSUME NEW k \in Tokens
                 PROVE  /\ tokens'[k] \in Token \cup {NoToken}
                        /\ tokens'[k] = NoToken <=> tokens[k] = NoToken
                        /\ tokens[k] # NoToken =>
                             /\ tokens'[k].by = tokens[k].by
                             /\ tokens'[k].logout = "no" <=> tokens[k].logout = "no"
        OBVIOUS
    <2>1. tokens'[k] = IF tokens[k] # NoToken /\ tokens[k].logout = "asked"
                       THEN [tokens[k] EXCEPT !.logout = "lost"] ELSE tokens[k]
        BY DEF Crash, Down, Lost
    <2>2. tokens[k] \in Token \cup {NoToken}
        BY DEF AccountInv, AccountTypeOK
    <2> QED BY <2>1, <2>2, AccountAssumption DEF Token
<1>3. tokens' \in [Tokens -> Token \cup {NoToken}]
    BY <1>2 DEF Crash, Down, Lost
<1>4. AccountTypeOK'
    BY <1>1, <1>3 DEF Crash, Down, tenantVars, AccountInv, AccountTypeOK
<1>5. TenantInv'
    BY DEF Crash, Down, tenantVars, AccountInv, TenantInv, HoldsOwn, KeyIsOwn, FilesFirst,
       RowHasFiles
<1>6. TokenInv'
    BY <1>1, <1>2 DEF Crash, Down, AccountInv, AccountTypeOK, TokenInv, SecretOrder, OneSecret,
       Revocations, Token
<1> QED BY <1>4, <1>5, <1>6 DEF AccountInv

-----------------------------------------------------------------------------
(* The theorems.                                                           *)

\* Every step preserves the invariant.
LEMMA AccountInvNext == AccountInv /\ [AccountNext]_accountVars => AccountInv'
<1> SUFFICES ASSUME AccountInv, [AccountNext]_accountVars PROVE AccountInv'
    OBVIOUS
<1>1. ASSUME NEW r \in Requests, NEW k \in DOMAIN FirstPlace, NEW u \in Users, Begin(r, k, u)
      PROVE  AccountInv'
    BY <1>1, BeginKeeps
<1>2. ASSUME NEW r \in Requests, Serve(r) PROVE AccountInv'
    BY <1>2, RegisterAccountKeeps, MintLoginKeeps, MintTokenKeeps, LoginKeeps, LookRowKeeps,
       StatConfigKeeps, WriteTemplateKeeps, InsertRowKeeps, IssueKeeps DEF Serve
<1>3. ASSUME NEW u \in Users, PutConfig(u) \/ DeleteRow(u) PROVE AccountInv'
    BY <1>3, TenantKeeps
<1>4. ASSUME NEW k \in Tokens, Expire(k) \/ Revoke(k) \/ LoggedOut(k) PROVE AccountInv'
    BY <1>4, ExpireKeeps, RevokeKeeps, LoggedOutKeeps
<1>5. CASE UNCHANGED accountVars
    BY <1>5 DEF accountVars, tenantVars, requestVars, secretVars, tokenVars, faultVars,
       AccountInv, AccountTypeOK, TenantInv, HoldsOwn, KeyIsOwn, FilesFirst, RowHasFiles,
       TokenInv, SecretOrder, OneSecret, Revocations
<1> QED BY <1>1, <1>2, <1>3, <1>4, <1>5, BootKeeps, CrashKeeps DEF AccountNext

\* The invariant holds throughout.
THEOREM AccountInvariant == AccountSpec => []AccountInv
BY AccountInvInit, AccountInvNext, PTL DEF AccountSpec

\* Accounts, rows, files, keys, tokens and secrets keep their types through crashes.
THEOREM AccountTypeCorrect == AccountSpec => []AccountTypeOK
<1>1. AccountInv => AccountTypeOK
    BY DEF AccountInv
<1> QED BY <1>1, AccountInvariant, PTL

\* A tenant's row never holds a key that was minted for somebody else, whatever
\* registrations and logins run beside each other.
THEOREM KeysAreOwn == AccountSpec => []KeyIsOwn
<1>1. AccountInv => KeyIsOwn
    BY DEF AccountInv, TenantInv
<1> QED BY <1>1, AccountInvariant, PTL

\* RegisterUser leaves no row without files, wherever it fails or the server dies.
THEOREM RowsHaveFiles == AccountSpec => []RowHasFiles
<1>1. AccountInv => RowHasFiles
    BY DEF AccountInv, TenantInv
<1> QED BY <1>1, AccountInvariant, PTL

\* The key in a row only goes with the row.
THEOREM RowsAreKept == AccountSpec => RowKept
<1>1. AccountInv /\ [AccountNext]_accountVars =>
        [\A u \in Users : row[u] # NoRow => row'[u] \in {row[u], NoRow}]_accountVars
    <2> SUFFICES ASSUME AccountInv, AccountNext, NEW u \in Users, row[u] # NoRow
                 PROVE  row'[u] \in {row[u], NoRow}
        OBVIOUS
    <2>1. ASSUME NEW r \in Requests, InsertRow(r) PROVE row'[u] \in {row[u], NoRow}
        BY <2>1 DEF InsertRow, AccountInv, AccountTypeOK
    <2>2. ASSUME NEW v \in Users, DeleteRow(v) PROVE row'[u] \in {row[u], NoRow}
        BY <2>2 DEF DeleteRow, AccountInv, AccountTypeOK
    <2>3. \/ UNCHANGED row
          \/ \E r \in Requests : InsertRow(r)
          \/ \E v \in Users : DeleteRow(v)
        BY DEF AccountNext, Begin, Serve, RegisterAccount, MintLogin, MintToken, Login,
           LookRow, StatConfig, WriteTemplate, Issue, PutConfig, Expire, Revoke, LoggedOut,
           Boot, ReadSecret, EmptySecret, WriteSecret, Crash, tenantVars
    <2> QED BY <2>1, <2>2, <2>3
<1> QED BY <1>1, AccountInvariant, PTL DEF AccountSpec, RowKept

\* Restarts never invalidate a token, as long as the secret can be read.
THEOREM TokensOutliveRestarts == AccountSpec => []TokensLast
<1>1. AccountInv => TokensLast
    BY DEF AccountInv, AccountTypeOK, TokenInv, SecretOrder, OneSecret, Revocations,
       TokensLast, TokensHold, Accepted, Signed
<1> QED BY <1>1, AccountInvariant, PTL

\* Who was told to be logged out stays logged out, as long as RevokeToken succeeds.
THEOREM LogoutsOutliveRestarts == AccountSpec => []RevocationLasts
<1>1. AccountInv => RevocationLasts
    BY DEF AccountInv, AccountTypeOK, TokenInv, Revocations, RevocationLasts,
       LoggedOutIsRefused, Accepted, Signed
<1> QED BY <1>1, AccountInvariant, PTL
=============================================================================
