------------------------------ MODULE Accounts ------------------------------
(***************************************************************************)
(* Users and their refresh tokens.  A session is what one login opens: its *)
(* token is replaced at every refresh and revoked at the logout.  The      *)
(* handlers read first and write in later calls, in no transaction.        *)
(***************************************************************************)
EXTENDS Server

CONSTANTS
    Users,          \* e-mail addresses
    Referred,       \* users that rows with no onDelete refer to
    MaxTokens,      \* bound: no login or refresh beyond this number of tokens
    MaxPasswords    \* bound: no new password beyond this number per user

ASSUME AccountsAssumption == Referred \subseteq Users

VARIABLES
    users,          \* None, or the row; password counts the passwords so far
    tokens          \* in the order of creation; None once deleted

UserRow == [password : Nat \ {0}, isActive : BOOLEAN]
Token ==
    [user : Users, session : Nat \ {0}, password : Nat \ {0},
     revoked : BOOLEAN, expired : BOOLEAN]

ASSUME NoTokenAssumption == None \notin UserRow \cup Token

AccountsType ==
    /\ users \in [Users -> UserRow \cup {None}]
    /\ tokens \in Seq(Token \cup {None})

Exists(u) == users[u] # None
IsActive(u) == Exists(u) /\ users[u].isActive

\* The tokens of a user, and those that can still be exchanged.
TokensOf(u) == {i \in DOMAIN tokens : tokens[i] # None /\ tokens[i].user = u}
Live(u) == {i \in TokensOf(u) : ~tokens[i].revoked /\ ~tokens[i].expired}

NewToken == Len(tokens) < MaxTokens

AccountCalled(r, endpoint) == Free(r, endpoint) /\ UNCHANGED << users, tokens >>

-----------------------------------------------------------------------------
\* The address is unique: a second insertion fails.
CreateUser(r, u) ==
    /\ AccountCalled(r, "createUser")
    /\ ~Exists(u)
    /\ Await(r, [do |-> "insertUser", user |-> u])

InsertUser(r) ==
    LET u == req[r].user
    IN  /\ req[r].do = "insertUser"
        /\ users' = IF Exists(u) THEN users
                    ELSE [users EXCEPT ![u] = [password |-> 1, isActive |-> TRUE]]
        /\ Done(r)
        /\ UNCHANGED tokens

\* What the handler still has to do is to store a token: of a new session, or
\* in the place of the token that was presented.
Login(r, u) ==
    /\ AccountCalled(r, "login")
    /\ IsActive(u) /\ NewToken
    /\ Await(r, [do |-> "storeToken", user |-> u, replaces |-> 0,
                 password |-> users[u].password])

Refresh(r, u) ==
    /\ AccountCalled(r, "refresh")
    /\ IsActive(u) /\ NewToken
    /\ \E i \in Live(u) :
        Await(r, [do |-> "storeToken", user |-> u, replaces |-> i,
                  session |-> tokens[i].session, password |-> tokens[i].password])

\* It fails if the user is gone.
StoreToken(r) ==
    LET w == req[r]
        session == IF w.replaces = 0 THEN Len(tokens) + 1 ELSE w.session
    IN  /\ w.do = "storeToken"
        /\ IF Exists(w.user)
           THEN /\ tokens' = Append(tokens,
                    [user |-> w.user, session |-> session, password |-> w.password,
                     revoked |-> FALSE, expired |-> FALSE])
                /\ IF w.replaces = 0 THEN Done(r)
                   ELSE Await(r, [do |-> "revokeToken", token |-> w.replaces])
           ELSE Done(r) /\ UNCHANGED tokens
        /\ UNCHANGED users

\* A token that has expired can be revoked, one that is revoked cannot.
Logout(r, u) ==
    /\ AccountCalled(r, "logout")
    /\ \E i \in TokensOf(u) :
        /\ ~tokens[i].revoked
        /\ Await(r, [do |-> "revokeToken", token |-> i])

RevokeToken(r) ==
    LET i == req[r].token
    IN  /\ req[r].do = "revokeToken"
        /\ tokens' = IF tokens[i] = None THEN tokens
                     ELSE [tokens EXCEPT ![i].revoked = TRUE]
        /\ Done(r)
        /\ UNCHANGED users

RevokeAll(u) ==
    tokens' = [i \in DOMAIN tokens |->
        IF i \in TokensOf(u) THEN [tokens[i] EXCEPT !.revoked = TRUE] ELSE tokens[i]]
DeleteAll(u) ==
    tokens' = [i \in DOMAIN tokens |-> IF i \in TokensOf(u) THEN None ELSE tokens[i]]

LogoutAll(r, u) ==
    /\ Free(r, "logoutAll")
    /\ IsActive(u)
    /\ RevokeAll(u)
    /\ UNCHANGED << req, users >>

-----------------------------------------------------------------------------
\* A password changes in two calls: it is written, and then the tokens are
\* revoked by the user's own change and the reset of AuthService, deleted by
\* the reset of UserService.
ChangePassword(r, u) ==
    /\ AccountCalled(r, "changePassword")
    /\ Exists(u) /\ users[u].password < MaxPasswords
    /\ \E after \in {"revokeTokens", "deleteTokens"} :
        Await(r, [do |-> "writePassword", user |-> u, after |-> after])

\* Mutant of WritePassword: the tokens are kept.
WritePasswordOnly(r) ==
    LET u == req[r].user
    IN  /\ req[r].do = "writePassword"
        /\ users' = IF Exists(u) THEN [users EXCEPT ![u].password = @ + 1] ELSE users
        /\ Done(r)
        /\ UNCHANGED tokens

WritePassword(r) ==
    LET u == req[r].user
    IN  /\ req[r].do = "writePassword"
        /\ IF Exists(u)
           THEN /\ users' = [users EXCEPT ![u].password = @ + 1]
                /\ Await(r, [do |-> req[r].after, user |-> u])
           ELSE Done(r) /\ UNCHANGED users
        /\ UNCHANGED tokens

RevokeTokens(r) ==
    /\ req[r].do = "revokeTokens"
    /\ RevokeAll(req[r].user)
    /\ Done(r)
    /\ UNCHANGED users

DeleteTokens(r) ==
    /\ req[r].do = "deleteTokens"
    /\ DeleteAll(req[r].user)
    /\ Done(r)
    /\ UNCHANGED users

ToggleActive(r, u) ==
    /\ AccountCalled(r, "toggleActive")
    /\ Exists(u)
    /\ Await(r, [do |-> "writeActive", user |-> u, isActive |-> ~users[u].isActive])

WriteActive(r) ==
    LET u == req[r].user
    IN  /\ req[r].do = "writeActive"
        /\ users' = IF Exists(u) THEN [users EXCEPT ![u].isActive = req[r].isActive]
                    ELSE users
        /\ Done(r)
        /\ UNCHANGED tokens

\* The tokens are deleted and then the user, which fails when other rows
\* refer to it.
RemoveUser(r, u) ==
    /\ AccountCalled(r, "removeUser")
    /\ Exists(u)
    /\ Await(r, [do |-> "deleteTokensOf", user |-> u])

DeleteTokensOf(r) ==
    /\ req[r].do = "deleteTokensOf"
    /\ DeleteAll(req[r].user)
    /\ Await(r, [do |-> "deleteUserRow", user |-> req[r].user])
    /\ UNCHANGED users

DeleteUserRow(r) ==
    LET u == req[r].user
    IN  /\ req[r].do = "deleteUserRow"
        /\ IF u \in Referred \/ ~Exists(u) THEN UNCHANGED << users, tokens >>
           ELSE users' = [users EXCEPT ![u] = None] /\ DeleteAll(u)
        /\ Done(r)

\* Time passes beyond expiresAt.
Expire ==
    /\ "expire" \in scene.endpoints
    /\ \E u \in Users : \E i \in TokensOf(u) :
        ~tokens[i].expired /\ tokens' = [tokens EXCEPT ![i].expired = TRUE]
    /\ UNCHANGED << req, users >>

-----------------------------------------------------------------------------
AccountsInit == users = [u \in Users |-> None] /\ tokens = << >>

AccountsNext(r) ==
    \/ \E u \in Users \cap scene.rows :
        \/ CreateUser(r, u) \/ Login(r, u) \/ Refresh(r, u) \/ Logout(r, u)
        \/ LogoutAll(r, u) \/ ChangePassword(r, u) \/ ToggleActive(r, u)
        \/ RemoveUser(r, u)
    \/ InsertUser(r) \/ StoreToken(r) \/ RevokeToken(r) \/ WritePassword(r)
    \/ RevokeTokens(r) \/ DeleteTokens(r) \/ WriteActive(r)
    \/ DeleteTokensOf(r) \/ Expire

=============================================================================
