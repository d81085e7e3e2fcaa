---------------------------- MODULE Credentials ----------------------------
(***************************************************************************)
(* Users of the auth service: registration, login, single sign-on, and the *)
(* tokens that reset a password or verify an email address.  The service   *)
(* makes no use of transactions: every statement stands alone, and a token *)
(* is checked, acted upon and marked used in three of them.                *)
(* A user is named by its email, which is unique and never changes; a      *)
(* token is named by the call that made it and a number.                   *)
(***************************************************************************)
EXTENDS Handlers

CONSTANTS
    Emails,         \* email addresses
    Registered,     \* the addresses with a user at the start
    Identities      \* <<provider, provider_user_id>>

TokenIds == Calls \X {1, 2}
Kinds == {"reset", "verify"}

(* The rows of the tables.  A password is a string; that of a user who     *)
(* comes from single sign-on is a marker.                                  *)
Passwords == STRING \cup {"first", "SSO_MANAGED"}
UserRows == [password : Passwords, verified : BOOLEAN]
TokenRows == [kind : Kinds, user : Emails, used : BOOLEAN, expired : BOOLEAN]

ASSUME CredAssumption == None \notin UserRows \cup TokenRows

VARIABLES
    users,      \* the users table, by email
    tokens,     \* password_reset_tokens and email_verification_tokens
    links,      \* external_identities: the user of each identity
    mailed,     \* the tokens that have been published for the mailer
    shown       \* the debug keys in Redis: the last token by kind and email

credVars == <<users, tokens, links, mailed, shown>>

-----------------------------------------------------------------------------
(* The users table *)

CreateUserRow(e, p) ==
    users' = [users EXCEPT ![e] = [password |-> p, verified |-> FALSE]]

GetUserByEmail(e) == users[e]

GetUserByExternalID(i) == links[i]

LinkExternalIdentity(i, e) == links' = [links EXCEPT ![i] = e]

(* The row of a token's user is there: users are never deleted. *)
UpdateUserPassword(e, p) == users' = [users EXCEPT ![e].password = p]

SetEmailVerified(e) == users' = [users EXCEPT ![e].verified = TRUE]

-----------------------------------------------------------------------------
(* The token tables *)

InsertToken(t, kind, e) ==
    tokens' = [tokens EXCEPT
                 ![t] = [kind |-> kind, user |-> e, used |-> FALSE, expired |-> FALSE]]

GetPasswordResetToken(t) ==
    IF tokens[t] # None /\ tokens[t].kind = "reset" THEN tokens[t] ELSE None

GetEmailVerificationToken(t) ==
    IF tokens[t] # None /\ tokens[t].kind = "verify" THEN tokens[t] ELSE None

Usable(row) == row # None /\ ~row.used /\ ~row.expired

(* Slip: the UPDATE lacks "AND used_at IS NULL". *)
MarkAgain(t) == tokens' = [tokens EXCEPT ![t].used = TRUE]

(* UPDATE ... WHERE used_at IS NULL; disabled where no row is affected. *)
MarkPasswordResetTokenUsed(t) ==
    ~tokens[t].used /\ tokens' = [tokens EXCEPT ![t].used = TRUE]

MarkEmailVerificationTokenUsed(t) ==
    ~tokens[t].used /\ tokens' = [tokens EXCEPT ![t].used = TRUE]

-----------------------------------------------------------------------------
CredInit ==
    /\ users = [e \in Emails |-> IF e \in Registered
                                 THEN [password |-> "first", verified |-> FALSE]
                                 ELSE None]
    /\ tokens = [t \in TokenIds |-> None]
    /\ links = [i \in Identities |-> None]
    /\ mailed = {}
    /\ shown = [k \in Kinds |-> [e \in Emails |-> None]]

(* A publish that fails is logged, or not even that. *)
PublishEvent(t) == mailed' = mailed \cup {t} \/ (MayFail /\ UNCHANGED mailed)

(* The debug copy of a token, best effort. *)
Remember(k, e, t) ==
    shown' = [shown EXCEPT ![k][e] = t] \/ (MayFail /\ UNCHANGED shown)

(* AuthService.CreateEmailVerificationToken by call c, its nth. *)
CreateEmailVerificationToken(c, n) ==
    /\ InsertToken(<<c, n>>, "verify", ask[c].email)
    /\ Hold(c, <<c, n>>)

(* AuthService.CreateUser: the row, a token, the event.  It fails only     *)
(* when the row cannot be inserted.                                        *)
CreateUser(c, password, next) ==
    \/ /\ at[c] = "insert"
       /\ \/ /\ GetUserByEmail(ask[c].email) = None
             /\ CreateUserRow(ask[c].email, password)
             /\ (Goto(c, "token") /\ UNCHANGED held) \/ (MayFail /\ Refuse(c))
          \/ /\ MayFail \/ GetUserByEmail(ask[c].email) # None
             /\ Refuse(c) /\ UNCHANGED users
       /\ UNCHANGED <<tokens, mailed>>
    \/ /\ at[c] = "token"
       /\ \/ CreateEmailVerificationToken(c, 1) /\ Goto(c, "publish")
          \/ /\ Unanswered(InsertToken(<<c, 1>>, "verify", ask[c].email), tokens)
             /\ Goto(c, next) /\ UNCHANGED held
       /\ UNCHANGED <<users, mailed>>
    \/ /\ at[c] = "publish"
       /\ PublishEvent(held[c])
       /\ Goto(c, next)
       /\ UNCHANGED <<users, tokens, held>>

(* POST /register.  The handler makes a second token of its own, which no  *)
(* event carries.                                                          *)
Register(c) ==
    \/ /\ Begins(c, "register")
       /\ Goto(c, "insert")
       /\ UNCHANGED <<held, credVars>>
    \/ /\ ask[c].op = "register"
       /\ CreateUser(c, ask[c].password, "second")
       /\ UNCHANGED <<links, shown>>
    \/ /\ Serving(c, "register", "second")
       /\ \/ CreateEmailVerificationToken(c, 2) /\ Goto(c, "remember")
          \/ Unanswered(InsertToken(<<c, 2>>, "verify", ask[c].email), tokens) /\ Ok(c)
       /\ UNCHANGED <<users, links, mailed, shown>>
    \/ /\ Serving(c, "register", "remember")
       /\ Remember("verify", ask[c].email, held[c])
       /\ Ok(c)
       /\ UNCHANGED <<users, tokens, links, mailed>>

(* POST /login *)
Login(c) ==
    /\ Begins(c, "login")
    /\ LET row == GetUserByEmail(ask[c].email)
           matches == row # None /\ row.password = ask[c].password
       IN  (matches /\ Ok(c)) \/ ((MayFail \/ ~matches) /\ Refuse(c))
    /\ UNCHANGED credVars

(* POST /sso/callback: an identity that is not linked gets a new user; a   *)
(* failed link is only logged.                                             *)
SSOCallback(c) ==
    \/ /\ Begins(c, "sso")
       /\ \/ GetUserByExternalID(ask[c].identity) # None /\ Ok(c)
          \/ /\ GetUserByExternalID(ask[c].identity) = None
             /\ Goto(c, "insert") /\ UNCHANGED held
          \/ MayFail /\ Refuse(c)
       /\ UNCHANGED credVars
    \/ /\ ask[c].op = "sso"
       /\ CreateUser(c, "SSO_MANAGED", "link")
       /\ UNCHANGED <<links, shown>>
    \/ /\ Serving(c, "sso", "link")
       /\ LinkExternalIdentity(ask[c].identity, ask[c].email) \/ (MayFail /\ UNCHANGED links)
       /\ Ok(c)
       /\ UNCHANGED <<users, tokens, mailed, shown>>

(* AuthService.CreatePasswordResetToken *)
CreatePasswordResetToken(c) ==
    \/ /\ at[c] = "token"
       /\ \/ /\ InsertToken(<<c, 1>>, "reset", ask[c].email)
             /\ Hold(c, <<c, 1>>) /\ Goto(c, "publish")
          \/ Unanswered(InsertToken(<<c, 1>>, "reset", ask[c].email), tokens) /\ Refuse(c)
       /\ UNCHANGED mailed
    \/ /\ at[c] = "publish"
       /\ PublishEvent(held[c])
       /\ Goto(c, "remember")
       /\ UNCHANGED <<tokens, held>>

(* POST /forgot-password: an address without a user, or an error of the    *)
(* lookup, is answered like any other.                                     *)
ForgotPassword(c) ==
    \/ /\ Begins(c, "forgot")
       /\ \/ GetUserByEmail(ask[c].email) # None /\ Goto(c, "token") /\ UNCHANGED held
          \/ (MayFail \/ GetUserByEmail(ask[c].email) = None) /\ Ok(c)
       /\ UNCHANGED credVars
    \/ /\ ask[c].op = "forgot"
       /\ CreatePasswordResetToken(c)
       /\ UNCHANGED <<users, links, shown>>
    \/ /\ Serving(c, "forgot", "remember")
       /\ Remember("reset", ask[c].email, held[c])
       /\ Ok(c)
       /\ UNCHANGED <<users, tokens, links, mailed>>

(* POST /resend-verification.  The row it reads does not carry             *)
(* email_verified, so that a verified address gets a token too.            *)
ResendVerification(c) ==
    \/ /\ Begins(c, "resend")
       /\ \/ GetUserByEmail(ask[c].email) # None /\ Goto(c, "token") /\ UNCHANGED held
          \/ (MayFail \/ GetUserByEmail(ask[c].email) = None) /\ Ok(c)
       /\ UNCHANGED credVars
    \/ /\ Serving(c, "resend", "token")
       /\ \/ CreateEmailVerificationToken(c, 1) /\ Goto(c, "remember")
          \/ Unanswered(InsertToken(<<c, 1>>, "verify", ask[c].email), tokens) /\ Refuse(c)
       /\ UNCHANGED <<users, links, mailed, shown>>
    \/ /\ Serving(c, "resend", "remember")
       /\ Remember("verify", ask[c].email, held[c])
       /\ Ok(c)
       /\ UNCHANGED <<users, tokens, links, mailed>>

(* GET /debug/tokens: the last token that was remembered for an address. *)
DebugGetTokens(c) ==
    /\ Begins(c, "debug")
    /\ \/ \E k \in Kinds : /\ shown[k][ask[c].email] # None
                           /\ Hold(c, shown[k][ask[c].email])
                           /\ Answer(c, "ok")
       \/ \E k \in Kinds : (MayFail \/ shown[k][ask[c].email] = None) /\ Refuse(c)
    /\ UNCHANGED credVars

(* AuthService.ValidatePasswordResetToken for the token t of the request. *)
ValidatePasswordResetToken(c, t) ==
    \/ /\ Usable(GetPasswordResetToken(t))
       /\ Hold(c, t) /\ Goto(c, "act")
    \/ (MayFail \/ ~Usable(GetPasswordResetToken(t))) /\ Refuse(c)

(* AuthService.ResetPassword: check, act, mark, with nothing in between    *)
(* that keeps another call with the same token out.                        *)
ResetWithToken(c) ==
    \/ /\ at[c] = "start"
       /\ \E t \in TokenIds : ValidatePasswordResetToken(c, t)
       /\ UNCHANGED credVars
    \/ /\ at[c] = "act"
       /\ \/ /\ UpdateUserPassword(tokens[held[c]].user, ask[c].password)
             /\ (Goto(c, "mark") /\ UNCHANGED held) \/ (MayFail /\ Refuse(c))
          \/ MayFail /\ Refuse(c) /\ UNCHANGED users
       /\ UNCHANGED <<tokens, links, mailed, shown>>
    \/ /\ at[c] = "mark"
       /\ \/ MarkPasswordResetTokenUsed(held[c]) /\ (Ok(c) \/ (MayFail /\ Refuse(c)))
          \/ (MayFail \/ tokens[held[c]].used) /\ Refuse(c) /\ UNCHANGED tokens
       /\ UNCHANGED <<users, links, mailed, shown>>

ResetPassword(c) == ask[c].op = "reset" /\ ~ask[c].bad /\ ResetWithToken(c)

(* AuthService.VerifyEmail: the same three statements. *)
VerifyWithToken(c) ==
    \/ /\ at[c] = "start"
       /\ \E t \in TokenIds :
            \/ Usable(GetEmailVerificationToken(t)) /\ Hold(c, t) /\ Goto(c, "act")
            \/ (MayFail \/ ~Usable(GetEmailVerificationToken(t))) /\ Refuse(c)
       /\ UNCHANGED credVars
    \/ /\ at[c] = "act"
       /\ \/ /\ SetEmailVerified(tokens[held[c]].user)
             /\ (Goto(c, "mark") /\ UNCHANGED held) \/ (MayFail /\ Refuse(c))
          \/ MayFail /\ Refuse(c) /\ UNCHANGED users
       /\ UNCHANGED <<tokens, links, mailed, shown>>
    \/ /\ at[c] = "mark"
       /\ \/ MarkEmailVerificationTokenUsed(held[c]) /\ (Ok(c) \/ (MayFail /\ Refuse(c)))
          \/ (MayFail \/ tokens[held[c]].used) /\ Refuse(c) /\ UNCHANGED tokens
       /\ UNCHANGED <<users, links, mailed, shown>>

VerifyEmail(c) == ask[c].op = "verify" /\ ~ask[c].bad /\ VerifyWithToken(c)

(* expires_at passes, an hour or a quarter of one after the insert. *)
ExpireToken(t) ==
    /\ tokens[t] # None /\ ~tokens[t].expired
    /\ tokens' = [tokens EXCEPT ![t].expired = TRUE]
    /\ UNCHANGED <<users, links, mailed, shown, callVars>>

CredOps == {"register", "login", "sso", "forgot", "resend", "debug", "reset", "verify"}

CredNext ==
    \/ \E c \in Calls :
         \/ ask[c].op \in CredOps /\ Malformed(c) /\ UNCHANGED credVars
         \/ Register(c) \/ Login(c) \/ SSOCallback(c) \/ ForgotPassword(c)
         \/ ResendVerification(c) \/ DebugGetTokens(c) \/ ResetPassword(c)
         \/ VerifyEmail(c)
    \/ \E t \in TokenIds : ExpireToken(t)

-----------------------------------------------------------------------------
(* Call c was told that token t worked. *)
Succeeded(c, op, t) == ask[c].op = op /\ held[c] = t /\ reply[c] = "ok"

(* The password of user e is the one call c gave with a token of e. *)
SetBy(c, e) ==
    /\ ask[c].op = "reset" /\ at[c] \in {"mark", "done"}
    /\ held[c] \in TokenIds /\ tokens[held[c]] # None /\ tokens[held[c]].user = e
    /\ users[e].password = ask[c].password

WasReset(e) == \E c \in Calls : SetBy(c, e)

(* A token works once, whatever the interleaving and whatever answers are  *)
(* lost: no two calls are told that it worked, who is told so has used it  *)
(* up, and a token is used up only when what it was for has been done: the *)
(* address is verified, or the password in force is one that a call gave   *)
(* who showed a token of this user, never the forgotten one                *)
(* (AuthService.ResetPassword and VerifyEmail act first and mark last).    *)
TokensWorkOnce ==
    \A t \in TokenIds : tokens[t] # None =>
        /\ \A c, d \in Calls :
             (\/ Succeeded(c, "reset", t) /\ Succeeded(d, "reset", t)
              \/ Succeeded(c, "verify", t) /\ Succeeded(d, "verify", t)) => c = d
        /\ \A c \in Calls, op \in Kinds : Succeeded(c, op, t) => tokens[t].used
        /\ tokens[t].used =>
             IF tokens[t].kind = "verify"
             THEN users[tokens[t].user].verified
             ELSE WasReset(tokens[t].user)
=============================================================================
