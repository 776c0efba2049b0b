-------------------------------- MODULE Accounts --------------------------------
(***************************************************************************)
(* An account: it is registered or signed up through an OAuth provider,     *)
(* logged into, locked after failed logins, reset, verified, and invited    *)
(* into a workspace.  Every use case is a sequence of statements of their   *)
(* own, and any number of requests overlap.  OAuth, resets and invitations  *)
(* lowercase an e-mail address; registration and login take it as typed.    *)
(* So there may be a twin, an account of the same mailbox with the address  *)
(* spelled otherwise; of a twin only its row and its membership are kept.   *)
(***************************************************************************)
EXTENDS Naturals, FiniteSets

CONSTANTS
    Requests,
    ResetTokens, VerificationTokens, Invitations,
    MaxFailedAttempts,        \* MAX_FAILED_ATTEMPTS
    MaxCounted, MaxPasswords, MaxTokens, MaxFailures    \* bounds of the model

Users == {"account", "twin"}
Tokens == ResetTokens \cup VerificationTokens \cup Invitations
NoToken == "no token"

ASSUME AccountAssumption ==
    /\ {MaxFailedAttempts, MaxCounted, MaxPasswords, MaxTokens, MaxFailures} \subseteq Nat
    /\ MaxFailedAttempts > 0 /\ MaxCounted >= MaxFailedAttempts /\ MaxPasswords > 0
    /\ ResetTokens \cap (VerificationTokens \cup Invitations) = {}
    /\ VerificationTokens \cap Invitations = {} /\ NoToken \notin Tokens

VARIABLES
    lowercase,                \* which of the two is spelled in lower case
    accounts,                 \* rows of users with either spelling, each with its workspace
    passwordHash,             \* the version of the password, 0 when there is none
    verified,
    linked,                   \* the identity of the OAuth provider, to the lowercase one
    failedAttempts, locked,
    lockExpired,              \* since the account was last locked
    membership,               \* of either in the workspace of the invitations
    token,                    \* verification_tokens: none, active or consumed
    uses,                     \* how often a token has had its effect; 2: more than once
    overlapped,               \* tokens two requests had in hand at once
    unspent,                  \* tokens whose request threw after the effect
    sessions,                 \* the kinds of live sessions opened with a password
    request,                  \* each request: where it is, and what it holds
    failures,
    resetFailed               \* a reset threw after it had changed the password

userVars == <<lowercase, accounts, passwordHash, verified, linked>>
lockVars == <<failedAttempts, locked, lockExpired>>
useVars == <<uses, overlapped, unspent>>
tokenVars == <<token, useVars, membership>>
vars == <<userVars, lockVars, tokenVars, sessions, request, failures, resetFailed>>

Passwords == 0 .. MaxPasswords
SessionType == [by : Passwords, raced : BOOLEAN]

\* of: the user it is for; by: the password of the account a login read, 0 for
\* OAuth; raced: it has been changed since.
Idle == [pc |-> "idle", of |-> "account", by |-> 0, raced |-> FALSE, token |-> NoToken]
At(r, pc) == request[r].pc = pc
Goto(r, pc) == request' = [request EXCEPT ![r].pc = pc]
Done(r) == request' = [request EXCEPT ![r] = Idle]

Init ==
    /\ lowercase \in Users
    /\ accounts = [u \in Users |-> 0] /\ passwordHash = 0
    /\ verified = FALSE /\ linked = FALSE
    /\ failedAttempts = 0 /\ locked = FALSE /\ lockExpired = FALSE
    /\ membership = [u \in Users |-> "none"]
    /\ token = [t \in Tokens |-> "none"] /\ uses = [t \in Tokens |-> 0]
    /\ overlapped = {} /\ unspent = {}
    /\ sessions = {}
    /\ request = [r \in Requests |-> Idle]
    /\ failures = 0 /\ resetFailed = FALSE

-----------------------------------------------------------------------------
(* RegisterUser and HandleOAuthCallback *)

\* The address is looked up as it was typed, and is not taken yet.
Register(r, u) ==
    /\ At(r, "idle") /\ accounts[u] = 0
    /\ request' = [request EXCEPT ![r].pc = "register", ![r].of = u]
    /\ UNCHANGED <<userVars, lockVars, tokenVars, sessions, failures, resetFailed>>

\* An identity signs in, an account is linked, or one is created.  The address
\* is lowercased before it is looked up.
OAuthCallback(r) ==
    /\ At(r, "idle")
    /\ \E pc \in {"issue", "link", "signUp"} :
          /\ \/ pc = "issue" /\ linked
             \/ pc = "link" /\ ~linked /\ accounts[lowercase] > 0
             \/ pc = "signUp" /\ ~linked /\ accounts[lowercase] = 0
          /\ request' = [request EXCEPT ![r].pc = pc, ![r].of = lowercase]
    /\ UNCHANGED <<userVars, lockVars, tokenVars, sessions, failures, resetFailed>>

\* A twin's password and verification are not kept.
CreateUser(r) ==
    /\ accounts' = [accounts EXCEPT ![request[r].of] = @ + 1]
    /\ \/ /\ At(r, "register") /\ request[r].of = "account"
          /\ passwordHash' = 1 /\ UNCHANGED verified
          /\ request' = [request EXCEPT ![r].pc = "issue", ![r].by = 1]
       \/ /\ At(r, "register") /\ request[r].of = "twin"
          /\ Goto(r, "issue") /\ UNCHANGED <<passwordHash, verified>>
       \/ /\ At(r, "signUp")
          /\ verified' = (verified \/ request[r].of = "account")
          /\ Goto(r, "link") /\ UNCHANGED passwordHash
    /\ UNCHANGED <<lowercase, linked, lockVars, tokenVars, sessions, failures, resetFailed>>

\* Mutant: the e-mail is not unique.
ProvisionAgain(r) == CreateUser(r)

\* provision: user, workspace and membership in one transaction.
Provision(r) ==
    /\ accounts[request[r].of] = 0
    /\ CreateUser(r)

Link(r) ==
    /\ At(r, "link") /\ ~linked
    /\ linked' = TRUE
    /\ Goto(r, "issue")
    /\ UNCHANGED <<lowercase, accounts, passwordHash, verified, lockVars, tokenVars, sessions,
                   failures, resetFailed>>

\* The e-mail, or the identity, was inserted by another request meanwhile.
UniqueIndexThrows(r) ==
    /\ \/ request[r].pc \in {"register", "signUp"} /\ accounts[request[r].of] > 0
       \/ At(r, "link") /\ linked
    /\ Done(r)
    /\ UNCHANGED <<userVars, lockVars, tokenVars, sessions, failures, resetFailed>>

-----------------------------------------------------------------------------
(* Authenticate *)

\* findByEmail: not locked, and with a password.
FindByEmail(r) ==
    /\ At(r, "idle") /\ accounts["account"] > 0 /\ ~locked /\ passwordHash # 0
    /\ request' = [request EXCEPT ![r].pc = "verify", ![r].by = passwordHash]
    /\ UNCHANGED <<userVars, lockVars, tokenVars, sessions, failures, resetFailed>>

PasswordValid(r) ==
    /\ At(r, "verify")
    /\ Goto(r, "resetAttempts")
    /\ UNCHANGED <<userVars, lockVars, tokenVars, sessions, failures, resetFailed>>

\* Mutant: the attempt that reaches the limit does not lock.
PasswordInvalidOffByOne(r) ==
    /\ At(r, "verify") /\ failedAttempts < MaxCounted
    /\ failedAttempts' = failedAttempts + 1
    /\ IF failedAttempts' > MaxFailedAttempts THEN Goto(r, "lock") ELSE Done(r)
    /\ UNCHANGED <<userVars, locked, lockExpired, tokenVars, sessions, failures, resetFailed>>

\* incrementFailedAttempts returns the new count.
PasswordInvalid(r) ==
    /\ At(r, "verify") /\ failedAttempts < MaxCounted
    /\ failedAttempts' = failedAttempts + 1
    /\ IF failedAttempts' >= MaxFailedAttempts THEN Goto(r, "lock") ELSE Done(r)
    /\ UNCHANGED <<userVars, locked, lockExpired, tokenVars, sessions, failures, resetFailed>>

LockUntil(r) ==
    /\ At(r, "lock")
    /\ locked' = TRUE /\ lockExpired' = FALSE
    /\ Done(r)
    /\ UNCHANGED <<userVars, failedAttempts, tokenVars, sessions, failures, resetFailed>>

LockExpires ==
    /\ locked
    /\ locked' = FALSE /\ lockExpired' = TRUE
    /\ UNCHANGED <<userVars, failedAttempts, tokenVars, sessions, request, failures, resetFailed>>

\* resetFailedAttemptsAndTouchLastLogin, also when another request has locked since.
ResetFailedAttempts(r) ==
    /\ At(r, "resetAttempts")
    /\ failedAttempts' = 0 /\ locked' = FALSE
    /\ Goto(r, "issue")
    /\ UNCHANGED <<userVars, lockExpired, tokenVars, sessions, failures, resetFailed>>

\* SessionIssuer; a session of OAuth, or of the twin, is not kept.
Issue(r) ==
    /\ At(r, "issue")
    /\ sessions' = IF request[r].by = 0 THEN sessions
                   ELSE sessions \cup {[by |-> request[r].by, raced |-> request[r].raced]}
    /\ Done(r)
    /\ UNCHANGED <<userVars, lockVars, tokenVars, failures, resetFailed>>

-----------------------------------------------------------------------------
(* Tokens: ResetPassword, ConfirmEmailVerification, AcceptInvitation *)

\* A reset looks the lowercased address up; a verification is the user's own; an
\* invitation needs no user.
CreateToken(t) ==
    /\ token[t] = "none" /\ Cardinality({o \in Tokens : token[o] # "none"}) < MaxTokens
    /\ \/ t \in Invitations
       \/ t \in ResetTokens /\ lowercase = "account" /\ accounts["account"] > 0
       \/ t \in VerificationTokens /\ accounts["account"] > 0 /\ ~verified
    /\ token' = [token EXCEPT ![t] = "active"]
    /\ UNCHANGED <<userVars, lockVars, useVars, membership, sessions, request, failures, resetFailed>>

\* findActiveByHashedToken.  An invitation compares lowercased addresses, so the
\* twin may take it as well.
FindActive(r, t, u) ==
    /\ At(r, "idle") /\ token[t] = "active" /\ accounts[u] > 0
    /\ \E pc \in {"setPassword", "markVerified", "membership"} :
          /\ \/ pc = "setPassword" /\ t \in ResetTokens /\ u = "account"
             \/ pc = "markVerified" /\ t \in VerificationTokens /\ u = "account"
             \/ pc = "membership" /\ t \in Invitations
          /\ request' = [request EXCEPT ![r].pc = pc, ![r].token = t, ![r].of = u]
    /\ overlapped' = overlapped \cup ({t} \cap {request[q].token : q \in Requests})
    /\ UNCHANGED <<userVars, lockVars, token, uses, unspent, membership, sessions, failures,
                   resetFailed>>

\* The token of a request has its effect.
Use(t) == uses' = [uses EXCEPT ![t] = IF @ = 0 THEN 1 ELSE 2] /\ UNCHANGED <<overlapped, unspent>>

\* setPasswordHash, whatever the password is by now; a login under way has read the old one.
SetPassword(r) ==
    /\ At(r, "setPassword") /\ passwordHash < MaxPasswords
    /\ passwordHash' = passwordHash + 1
    /\ Use(request[r].token)
    /\ request' = [q \in Requests |->
                     IF q = r THEN [request[q] EXCEPT !.pc = "consume"]
                     ELSE [request[q] EXCEPT !.raced = @ \/ request[q].by # 0]]
    /\ UNCHANGED <<lowercase, accounts, verified, linked, lockVars, token, membership, sessions,
                   failures, resetFailed>>

MarkEmailVerified(r) ==
    /\ At(r, "markVerified")
    /\ verified' = TRUE
    /\ Use(request[r].token)
    /\ Goto(r, "consume")
    /\ UNCHANGED <<lowercase, accounts, passwordHash, linked, lockVars, token, membership,
                   sessions, failures, resetFailed>>

\* findExistingMembership: a member already is turned away.
FindMembership(r) ==
    /\ At(r, "membership")
    /\ \/ membership[request[r].of] = "none" /\ Goto(r, "createMember")
       \/ membership[request[r].of] = "inactive" /\ Goto(r, "reactivate")
       \/ membership[request[r].of] = "active" /\ Done(r)
    /\ UNCHANGED <<userVars, lockVars, tokenVars, sessions, failures, resetFailed>>

\* The insert meets the unique index when the user has joined meanwhile.
CreateMember(r) ==
    /\ At(r, "createMember")
    /\ IF membership[request[r].of] = "none"
       THEN /\ membership' = [membership EXCEPT ![request[r].of] = "active"]
            /\ Use(request[r].token) /\ Goto(r, "consume")
       ELSE Done(r) /\ UNCHANGED <<membership, useVars>>
    /\ UNCHANGED <<userVars, lockVars, token, sessions, failures, resetFailed>>

Reactivate(r) ==
    /\ At(r, "reactivate")
    /\ membership' = [membership EXCEPT ![request[r].of] = "active"]
    /\ Use(request[r].token)
    /\ Goto(r, "consume")
    /\ UNCHANGED <<userVars, lockVars, token, sessions, failures, resetFailed>>

\* UpdateMemberStatus of an admin.
SetStatus(u, new) ==
    /\ membership[u] # "none"
    /\ membership' = [membership EXCEPT ![u] = new]
    /\ UNCHANGED <<userVars, lockVars, token, useVars, sessions, request, failures, resetFailed>>

\* Mutant: only a reset consumes its token.
MarkConsumedOfReset(r) ==
    /\ At(r, "consume")
    /\ token' = [token EXCEPT ![request[r].token] =
                    IF request[r].token \in ResetTokens THEN "consumed" ELSE @]
    /\ IF request[r].token \in ResetTokens THEN Goto(r, "revokeAll") ELSE Done(r)
    /\ UNCHANGED <<userVars, lockVars, useVars, membership, sessions, failures, resetFailed>>

\* Mutant: a reset ends with its token.
MarkConsumedLast(r) ==
    /\ At(r, "consume")
    /\ token' = [token EXCEPT ![request[r].token] = "consumed"]
    /\ Done(r)
    /\ UNCHANGED <<userVars, lockVars, useVars, membership, sessions, failures, resetFailed>>

MarkConsumed(r) ==
    /\ At(r, "consume")
    /\ token' = [token EXCEPT ![request[r].token] = "consumed"]
    /\ IF request[r].token \in ResetTokens THEN Goto(r, "revokeAll") ELSE Done(r)
    /\ UNCHANGED <<userVars, lockVars, useVars, membership, sessions, failures, resetFailed>>

RevokeAll(r) ==
    /\ At(r, "revokeAll")
    /\ sessions' = {} /\ resetFailed' = FALSE
    /\ Done(r)
    /\ UNCHANGED <<userVars, lockVars, tokenVars, failures>>

\* Logout, RevokeSession or expiry, of the last session of its kind.
EndSession(s) ==
    /\ s \in sessions
    /\ sessions' = sessions \ {s}
    /\ UNCHANGED <<userVars, lockVars, tokenVars, request, failures, resetFailed>>

\* RevokeOtherSessions, asked for from a session that may itself be revoked by now.
RevokeOthers(s) ==
    /\ sessions # {s}
    /\ sessions' = sessions \cap {s}
    /\ UNCHANGED <<userVars, lockVars, tokenVars, request, failures, resetFailed>>

-----------------------------------------------------------------------------
\* A statement throws, or the process dies, between two of a request's.
RequestThrows(r) ==
    /\ ~At(r, "idle") /\ failures < MaxFailures
    /\ failures' = failures + 1
    /\ resetFailed' = (\/ resetFailed \/ At(r, "revokeAll")
                       \/ At(r, "consume") /\ request[r].token \in ResetTokens)
    /\ unspent' = IF At(r, "consume") THEN unspent \cup {request[r].token} ELSE unspent
    /\ Done(r)
    /\ UNCHANGED <<userVars, lockVars, token, uses, overlapped, membership, sessions>>

Next ==
    \/ \E r \in Requests :
          \/ OAuthCallback(r) \/ Provision(r) \/ Link(r) \/ UniqueIndexThrows(r)
          \/ FindByEmail(r) \/ PasswordValid(r) \/ PasswordInvalid(r) \/ LockUntil(r)
          \/ ResetFailedAttempts(r) \/ Issue(r)
          \/ SetPassword(r) \/ MarkEmailVerified(r)
          \/ FindMembership(r) \/ CreateMember(r) \/ Reactivate(r)
          \/ MarkConsumed(r) \/ RevokeAll(r) \/ RequestThrows(r)
          \/ \E u \in Users : Register(r, u)
          \/ \E t \in Tokens, u \in Users : FindActive(r, t, u)
    \/ \E t \in Tokens : CreateToken(t)
    \/ \E u \in Users, new \in {"active", "inactive"} : SetStatus(u, new)
    \/ LockExpires
    \/ \E s \in SessionType : EndSession(s) \/ RevokeOthers(s)

Spec == Init /\ [][Next]_vars

-----------------------------------------------------------------------------
RequestType ==
    [pc : {"idle", "register", "signUp", "link", "issue", "verify", "resetAttempts", "lock",
           "setPassword", "markVerified", "membership", "createMember", "reactivate",
           "consume", "revokeAll"},
     of : Users, by : Passwords, raced : BOOLEAN, token : Tokens \cup {NoToken}]

\* In particular an address has at most one account as it is spelled.
TypeOK ==
    /\ lowercase \in Users
    /\ accounts \in [Users -> 0 .. 1] /\ passwordHash \in Passwords
    /\ verified \in BOOLEAN /\ linked \in BOOLEAN
    /\ failedAttempts \in 0 .. MaxCounted /\ locked \in BOOLEAN /\ lockExpired \in BOOLEAN
    /\ membership \in [Users -> {"none", "active", "inactive"}]
    /\ token \in [Tokens -> {"none", "active", "consumed"}]
    /\ uses \in [Tokens -> 0 .. 2] /\ overlapped \subseteq Tokens /\ unspent \subseteq Tokens
    /\ sessions \subseteq SessionType
    /\ request \in [Requests -> RequestType]
    /\ failures \in 0 .. MaxFailures /\ resetFailed \in BOOLEAN

\* Once no reset is under way, a session opened with an older password is live
\* only if the password changed between its login's check and its issue, or a
\* reset failed half-way: a reset logs the user out everywhere.
OldSessionsOnlyByRace ==
    \/ resetFailed
    \/ \E r \in Requests : request[r].token \in ResetTokens
    \/ \A s \in sessions : s.by = passwordHash \/ s.raced

\* However good and bad logins overlap, an account at the limit of failed
\* attempts is locked, or about to be, until the lock expires.
LockedAtLimit ==
    failedAttempts >= MaxFailedAttempts =>
        \/ locked \/ lockExpired \/ failures > 0
        \/ \E r \in Requests : At(r, "lock")

\* A reset, a verification and an invitation are single-use: a token has its
\* effect a second time only if two requests had it in hand at once, or the first
\* threw between its effect and the token's consumption.
SingleUse == \A t \in Tokens : uses[t] > 1 => t \in overlapped \cup unspent

=============================================================================
