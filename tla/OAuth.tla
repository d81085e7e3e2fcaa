------------------------------- MODULE OAuth -------------------------------
(***************************************************************************)
(* The OAuth endpoints of the auth service: client registration, the       *)
(* authorization code grant with PKCE, the client credentials grant and    *)
(* introspection.  A client, a code and an access token are named by the   *)
(* call that made them.  A verifier stands for its plain challenge and     *)
(* [sha |-> v] for its S256 challenge.                                     *)
(***************************************************************************)
EXTENDS Handlers

CONSTANTS
    RedirectURIs,   \* redirect URIs
    FirstClients    \* the clients, not public ones, that exist at the start

ClientIds == Calls \cup FirstClients
Methods == {"S256", "plain", "other"}

(* The rows of the tables; users and verifiers are strings. *)
ClientRows == [public : BOOLEAN, owner : STRING \cup {None}]

CodeRows ==
    [client : ClientIds, user : STRING, uri : RedirectURIs,
     challenge : [of : STRING, hashed : BOOLEAN] \cup {None}, method : Methods,
     used : BOOLEAN, expired : BOOLEAN]

AccessRows ==
    [client : ClientIds, user : STRING \cup {None}, code : Calls \cup {None},
     expired : BOOLEAN]

ASSUME OAuthAssumption ==
    /\ FirstClients \cap Calls = {}
    /\ None \notin Calls \cup ClientRows \cup CodeRows \cup AccessRows

VARIABLES
    clients,    \* oauth_clients
    uris,       \* client_redirect_uris: <<client, uri>>
    codes,      \* authorization_codes
    access      \* oauth_tokens

oauthVars == <<clients, uris, codes, access>>

Challenge(v, hashed) == [of |-> v, hashed |-> hashed]

(* AuthService.VerifyCodeChallenge: only "S256" hashes the verifier. *)
VerifyCodeChallenge(v, challenge, method) ==
    challenge = Challenge(v, method = "S256")

-----------------------------------------------------------------------------
(* The tables *)

GetClientByID(k) == clients[k]

CreateOAuthClient(k, row) == clients' = [clients EXCEPT ![k] = row]

AddRedirectURI(k, uri) == uris' = uris \cup {<<k, uri>>}

ValidateRedirectURI(k, uri) == <<k, uri>> \in uris

CreateOAuthToken(t, row) == access' = [access EXCEPT ![t] = row]

(* SQLRepository.ValidateOAuthToken, then the expiry check of the service. *)
ValidateOAuthToken(t) ==
    IF access[t] # None /\ ~access[t].expired THEN access[t] ELSE None

CreateAuthorizationCode(k, row) == codes' = [codes EXCEPT ![k] = row]

GetAuthorizationCode(k) == codes[k]

(* Slip: the UPDATE lacks "AND used = FALSE". *)
MarkAuthorizationCodeUsedAgain(k) == codes' = [codes EXCEPT ![k].used = TRUE]

(* UPDATE ... WHERE used = FALSE; disabled where no row is affected. *)
MarkAuthorizationCodeUsed(k) ==
    ~codes[k].used /\ codes' = [codes EXCEPT ![k].used = TRUE]

-----------------------------------------------------------------------------
OAuthInit ==
    /\ clients = [k \in ClientIds |-> IF k \in FirstClients
                                       THEN [public |-> FALSE, owner |-> None]
                                       ELSE None]
    /\ uris = FirstClients \X RedirectURIs
    /\ codes = [c \in Calls |-> None]
    /\ access = [c \in Calls |-> None]

(* POST /oauth/clients: a public client has no secret; a redirect URI that *)
(* cannot be stored is only logged.                                        *)
RegisterClientHandler(c) ==
    \/ /\ Begins(c, "client")
       /\ \/ /\ CreateOAuthClient(c, [public |-> ask[c].public, owner |-> ask[c].user])
             /\ Hold(c, RedirectURIs) /\ Goto(c, "uris")
          \/ MayFail /\ Refuse(c) /\ UNCHANGED clients
       /\ UNCHANGED <<uris, codes, access>>
    \/ /\ Serving(c, "client", "uris")
       /\ IF held[c] = {}
          THEN Ok(c) /\ UNCHANGED uris
          ELSE \E uri \in held[c] :
                 /\ AddRedirectURI(c, uri) \/ (MayFail /\ UNCHANGED uris)
                 /\ Hold(c, held[c] \ {uri}) /\ Goto(c, "uris")
       /\ UNCHANGED <<clients, codes, access>>

(* GET /oauth/authorize, up to the redirect URI. *)
AuthorizeClient(c) ==
    /\ Begins(c, "authorize")
    /\ \E k \in ClientIds :
         \/ /\ GetClientByID(k) # None
            /\ Hold(c, k) /\ Goto(c, "uri")
         \/ (MayFail \/ GetClientByID(k) = None) /\ Refuse(c)
    /\ UNCHANGED oauthVars

(* The redirect URI is registered, a public client sends a challenge, and  *)
(* the caller is logged in.                                                *)
MayAuthorize(c) ==
    /\ ValidateRedirectURI(held[c], ask[c].uri)
    /\ clients[held[c]].public => ask[c].challenge # None
    /\ ask[c].user # None

(* The rest of AuthorizeHandler; the method of a challenge is S256 unless  *)
(* the request names another.                                              *)
AuthorizeHandler(c) ==
    \/ AuthorizeClient(c)
    \/ /\ Serving(c, "authorize", "uri")
       /\ \/ MayAuthorize(c) /\ Goto(c, "insert") /\ UNCHANGED held
          \/ (MayFail \/ ~MayAuthorize(c)) /\ Refuse(c)
       /\ UNCHANGED oauthVars
    \/ /\ Serving(c, "authorize", "insert")
       /\ \/ /\ CreateAuthorizationCode(c,
                   [client |-> held[c], user |-> ask[c].user, uri |-> ask[c].uri,
                    challenge |-> ask[c].challenge,
                    method |-> IF ask[c].method = None THEN "S256" ELSE ask[c].method,
                    used |-> FALSE, expired |-> FALSE])
             /\ Ok(c)
          \/ MayFail /\ Refuse(c) /\ UNCHANGED codes
       /\ UNCHANGED <<clients, uris, access>>

(* issueTokens for what the grant found: the last step of both grants. *)
IssueTokens(c, client, user, code) ==
    /\ at[c] = "issue"
    /\ \/ /\ CreateOAuthToken(c, [client |-> client, user |-> user, code |-> code,
                                  expired |-> FALSE])
          /\ Ok(c)
       \/ MayFail /\ Refuse(c) /\ UNCHANGED access
    /\ UNCHANGED <<clients, uris, codes>>

(* The hash of the secret a request presents is the one of the row.  That  *)
(* of a public client is the empty string, which is no hash of anything.   *)
SecretMatches(client, secret) ==
    client # None /\ ~client.public /\ secret = "right"

(* POST /oauth/token with grant_type=client_credentials *)
HandleClientCredentials(c) ==
    \/ /\ Begins(c, "credentials")
       /\ \E k \in ClientIds :
            \/ /\ SecretMatches(GetClientByID(k), ask[c].secret)
               /\ Hold(c, k) /\ Goto(c, "issue")
            \/ (MayFail \/ ~SecretMatches(GetClientByID(k), ask[c].secret)) /\ Refuse(c)
       /\ UNCHANGED oauthVars
    \/ /\ ask[c].op = "credentials"
       /\ IssueTokens(c, held[c], clients[held[c]].owner, None)

(* What handleAuthorizationCode asks of the code it has read.  A client or *)
(* a redirect URI the request leaves out is not compared.                  *)
MayExchange(c, row) ==
    /\ row # None /\ ~row.used /\ ~row.expired
    /\ ask[c].uri \in {None, row.uri}
    /\ row.challenge # None =>
         /\ ask[c].verifier # None
         /\ VerifyCodeChallenge(ask[c].verifier, row.challenge, row.method)

(* POST /oauth/token with grant_type=authorization_code: read and check,   *)
(* mark used, issue.  A code whose token cannot be stored is spent.        *)
HandleAuthorizationCode(c) ==
    \/ /\ Begins(c, "exchange")
       /\ \E k \in Calls :
            \/ /\ MayExchange(c, GetAuthorizationCode(k))
               /\ Hold(c, k) /\ Goto(c, "mark")
            \/ (MayFail \/ ~MayExchange(c, GetAuthorizationCode(k))) /\ Refuse(c)
       /\ UNCHANGED oauthVars
    \/ /\ Serving(c, "exchange", "mark")
       /\ \/ MarkAuthorizationCodeUsed(held[c]) /\ Goto(c, "issue") /\ UNCHANGED held
          \/ (MayFail \/ codes[held[c]].used) /\ Refuse(c) /\ UNCHANGED codes
       /\ UNCHANGED <<clients, uris, access>>
    \/ /\ ask[c].op = "exchange"
       /\ IssueTokens(c, codes[held[c]].client, codes[held[c]].user, held[c])

(* POST /oauth/token dispatches on the grant type. *)
OAuthTokenHandler(c) == HandleClientCredentials(c) \/ HandleAuthorizationCode(c)

(* POST /oauth/introspect: every failure reads as "not active". *)
TokenIntrospectionHandler(c) ==
    /\ Begins(c, "introspect")
    /\ \E t \in Calls :
         \/ ValidateOAuthToken(t) # None /\ Hold(c, t) /\ Answer(c, "active")
         \/ (MayFail \/ ValidateOAuthToken(t) = None)
            /\ UNCHANGED held /\ Answer(c, "inactive")
    /\ UNCHANGED oauthVars

(* AuthGRPCServer.ValidateToken, for the other services. *)
ValidateToken(c) ==
    /\ Begins(c, "validate")
    /\ \E t \in Calls :
         \/ ValidateOAuthToken(t) # None /\ Hold(c, t) /\ Answer(c, "active")
         \/ (MayFail \/ ValidateOAuthToken(t) = None)
            /\ UNCHANGED held /\ Answer(c, "inactive")
    /\ UNCHANGED oauthVars

(* A code expires after ten minutes, an access token after an hour. *)
ExpireGrant(k) ==
    /\ \/ /\ codes[k] # None /\ ~codes[k].expired
          /\ codes' = [codes EXCEPT ![k].expired = TRUE] /\ UNCHANGED access
       \/ /\ access[k] # None /\ ~access[k].expired
          /\ access' = [access EXCEPT ![k].expired = TRUE] /\ UNCHANGED codes
    /\ UNCHANGED <<clients, uris, callVars>>

OAuthOps == {"client", "authorize", "credentials", "exchange", "introspect", "validate"}

OAuthNext ==
    \E c \in Calls :
      \/ ask[c].op \in OAuthOps /\ Malformed(c) /\ UNCHANGED oauthVars
      \/ RegisterClientHandler(c) \/ AuthorizeHandler(c) \/ OAuthTokenHandler(c)
      \/ TokenIntrospectionHandler(c) \/ ValidateToken(c) \/ ExpireGrant(c)

-----------------------------------------------------------------------------
(* A code buys at most one access token, whatever exchanges race for it:   *)
(* MarkAuthorizationCodeUsed lets one caller through.                      *)
OneTokenPerCode ==
    \A t, u \in Calls :
        /\ access[t] # None /\ access[u] # None
        /\ access[t].code # None /\ access[t].code = access[u].code
        => t = u

(* The grant behind a token: a code that was made for this client and      *)
(* user, was sent to a registered redirect URI, is marked used and, if it  *)
(* carries a challenge (as all codes of public clients do), was exchanged  *)
(* by a holder of the verifier; or the secret of a client that has one.    *)
HasGrant(t) ==
    IF access[t].code = None
    THEN ~clients[access[t].client].public
    ELSE LET row == codes[access[t].code] IN
         /\ row.used /\ row.client = access[t].client /\ row.user = access[t].user
         /\ <<row.client, row.uri>> \in uris
         /\ clients[row.client].public => row.challenge # None
         /\ row.challenge # None => ask[t].verifier = row.challenge.of

(* Every token goes back to a grant. *)
TokensHaveAGrant == \A t \in Calls : access[t] # None => HasGrant(t)

(* The OAuth endpoints give out no more than was granted. *)
GrantsAreHonoured == OneTokenPerCode /\ TokensHaveAGrant
=============================================================================
