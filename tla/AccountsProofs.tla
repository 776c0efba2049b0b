----------------------------- MODULE AccountsProofs -----------------------------
(***************************************************************************)
(* Proofs about Accounts, for any requests, tokens and limits: the types,   *)
(* the lock at the limit, that tokens are single-use, and that sessions     *)
(* outlive a change of the password only through a race or a failed reset.  *)
(*                                                                         *)
(* Holdings says what a request has in hand at each of its steps, and       *)
(* Passwords0 that nobody has a password of an account yet to be made.      *)
(* OldSessions strengthens OldSessionsOnlyByRace: only a reset past its     *)
(* change of the password excuses an old session, and a login under way     *)
(* either has the present password or knows that it was overtaken.          *)
(* TokenUse strengthens SingleUse: a token in two hands is overlapped, one  *)
(* that has had its effect is consumed, unspent or about to be consumed,    *)
(* and a request that may use it again is one of those SingleUse excuses.   *)
(***************************************************************************)
EXTENDS Accounts, TLAPS

\* The steps of a request between the lookup of its token and the effect.
BeforeUse == {"setPassword", "markVerified", "membership", "createMember", "reactivate"}

\* What a request has in hand at each of its steps.
Holding(r) ==
    /\ At(r, "idle") => request[r] = Idle
    /\ request[r].pc \in {"setPassword", "revokeAll"} => request[r].token \in ResetTokens
    /\ request[r].pc \in BeforeUse \cup {"consume"} => request[r].token \in Tokens
    /\ request[r].pc \in BeforeUse \cup {"register", "consume", "revokeAll"} => request[r].by = 0

Holdings == \A r \in Requests : Holding(r)

\* Before there is an account, nobody has a password of it.
Passwords0 ==
    accounts["account"] = 0 =>
        /\ passwordHash = 0 /\ sessions = {}
        /\ \A r \in Requests : request[r].by = 0 /\ request[r].pc # "setPassword"

\* A reset that has changed the password and not revoked the sessions yet.
Resetting(r) ==
    \/ At(r, "revokeAll")
    \/ At(r, "consume") /\ request[r].token \in ResetTokens

OldSessions ==
    /\ \A r \in Requests : request[r].by \in {0, passwordHash} \/ request[r].raced
    /\ \/ resetFailed
       \/ \E r \in Requests : Resetting(r)
       \/ \A s \in sessions : s.by = passwordHash \/ s.raced

\* Two requests have one token in hand only when it is overlapped.
Overlaps ==
    \A q, r \in Requests :
        q # r /\ request[q].token = request[r].token /\ request[r].token \in Tokens =>
            request[r].token \in overlapped

\* A token that has had its effect is consumed, left active, or about to be consumed.
Spent ==
    \A t \in Tokens :
        uses[t] > 0 => \/ token[t] = "consumed" \/ t \in unspent
                       \/ \E r \in Requests : At(r, "consume") /\ request[r].token = t

\* A request has a token that had its effect in hand only when that is excused.
Excused ==
    \A r \in Requests :
        request[r].pc \in BeforeUse /\ uses[request[r].token] > 0 =>
            request[r].token \in overlapped \cup unspent

TokenUse == Overlaps /\ Spent /\ Excused /\ SingleUse

IInv == TypeOK /\ Holdings /\ Passwords0 /\ OldSessions /\ LockedAtLimit /\ TokenUse

\* The constants are numbers.
LEMMA Bounds ==
    /\ MaxFailedAttempts \in Nat \ {0} /\ MaxCounted \in Nat /\ MaxCounted >= MaxFailedAttempts
    /\ MaxPasswords \in Nat \ {0} /\ MaxFailures \in Nat
BY AccountAssumption

\* The three kinds of tokens are tokens, and apart.
LEMMA TokenKinds ==
    /\ ResetTokens \subseteq Tokens /\ VerificationTokens \subseteq Tokens
    /\ Invitations \subseteq Tokens /\ NoToken \notin Tokens
BY AccountAssumption DEF Tokens

\* The invariant holds initially.
LEMMA InitHolds == Init => IInv
<1> SUFFICES ASSUME Init
             PROVE  IInv
  OBVIOUS
<1> USE Bounds DEF Init
<1>1. TypeOK
  <2>1. request \in [Requests -> RequestType] /\ token \in [Tokens -> {"none", "active", "consumed"}]
    BY DEF RequestType, Passwords, Users, Idle
  <2>2. passwordHash \in Passwords /\ failedAttempts \in 0 .. MaxCounted /\ failures \in 0 .. MaxFailures
    BY DEF Passwords
  <2>3. accounts \in [Users -> 0 .. 1] /\ uses \in [Tokens -> 0 .. 2]
        /\ membership \in [Users -> {"none", "active", "inactive"}]
    OBVIOUS
  <2> QED
    BY <2>1, <2>2, <2>3 DEF TypeOK
<1>2. Holdings /\ Passwords0 /\ OldSessions
  BY DEF Holdings, Holding, Passwords0, OldSessions, Idle, At, BeforeUse, Users
<1>3. LockedAtLimit
  BY DEF LockedAtLimit
<1>4. TokenUse
  BY TokenKinds DEF TokenUse, Overlaps, Spent, Excused, SingleUse, Idle, BeforeUse
<1> QED
  BY <1>1, <1>2, <1>3, <1>4 DEF IInv

\* A request that goes on, or is done, stays well typed; others stay as they are.
LEMMA Going ==
    ASSUME TypeOK, NEW r \in Requests, NEW pc, Goto(r, pc),
           pc \in {"link", "issue", "resetAttempts", "lock", "createMember", "reactivate", "consume", "revokeAll"}
    PROVE  /\ request' \in [Requests -> RequestType] /\ request'[r] \in RequestType
           /\ request'[r].pc = pc /\ request'[r].by = request[r].by
           /\ request'[r].raced = request[r].raced /\ request'[r].token = request[r].token
           /\ \A q \in Requests \ {r} : request'[q] = request[q]
BY DEF TypeOK, RequestType, Goto

LEMMA Ending ==
    ASSUME TypeOK, NEW r \in Requests, Done(r)
    PROVE  /\ request' \in [Requests -> RequestType] /\ request'[r] = Idle
           /\ \A q \in Requests \ {r} : request'[q] = request[q]
BY Bounds DEF TypeOK, RequestType, Passwords, Users, Done, Idle

\* A sign-up or a sign-in begins for one of the two users.
LEMMA Opening ==
    ASSUME TypeOK, NEW r \in Requests, NEW pc \in {"register", "signUp", "link", "issue"},
           NEW u \in Users, request' = [request EXCEPT ![r].pc = pc, ![r].of = u]
    PROVE  /\ request' \in [Requests -> RequestType]
           /\ request'[r].pc = pc /\ request'[r].by = request[r].by
           /\ request'[r].raced = request[r].raced /\ request'[r].token = request[r].token
           /\ \A q \in Requests \ {r} : request'[q] = request[q]
BY DEF TypeOK, RequestType

\* A login takes a password.
LEMMA TakingPassword ==
    ASSUME TypeOK, NEW r \in Requests, NEW pc \in {"issue", "verify"}, NEW b \in Passwords,
           request' = [request EXCEPT ![r].pc = pc, ![r].by = b]
    PROVE  /\ request' \in [Requests -> RequestType]
           /\ request'[r].pc = pc /\ request'[r].by = b /\ request'[r].token = request[r].token
           /\ \A q \in Requests \ {r} : request'[q] = request[q]
BY DEF TypeOK, RequestType

\* The use of a token takes the token.
LEMMA TakingToken ==
    ASSUME TypeOK, NEW r \in Requests, NEW t \in Tokens, NEW u \in Users,
           NEW pc \in {"setPassword", "markVerified", "membership"},
           request' = [request EXCEPT ![r].pc = pc, ![r].token = t, ![r].of = u]
    PROVE  /\ request' \in [Requests -> RequestType]
           /\ request'[r].pc = pc /\ request'[r].token = t /\ request'[r].by = request[r].by
           /\ request'[r].raced = request[r].raced
           /\ \A q \in Requests \ {r} : request'[q] = request[q]
<1>1. request' = [request EXCEPT ![r] = [[[request[r] EXCEPT !.pc = pc] EXCEPT !.token = t] EXCEPT !.of = u]]
  BY DEF TypeOK
<1>2. request[r] \in RequestType
  BY DEF TypeOK
<1> DEFINE f == [[[request[r] EXCEPT !.pc = pc] EXCEPT !.token = t] EXCEPT !.of = u]
<1>3. f \in RequestType /\ f.pc = pc /\ f.token = t /\ f.by = request[r].by /\ f.raced = request[r].raced
  <2>1. [request[r] EXCEPT !.pc = pc] \in RequestType
    BY <1>2 DEF RequestType
  <2>2. [[request[r] EXCEPT !.pc = pc] EXCEPT !.token = t] \in RequestType
    BY <2>1 DEF RequestType
  <2>3. f \in RequestType
    BY <2>2 DEF RequestType
  <2> QED
    BY <1>2, <2>3 DEF RequestType
<1>4. request' = [request EXCEPT ![r] = f]
  BY <1>1
<1> HIDE DEF f
<1>5. request'[r] = f /\ \A q \in Requests \ {r} : request'[q] = request[q]
  BY <1>4 DEF TypeOK
<1>6. request' \in [Requests -> RequestType]
  BY <1>3, <1>4 DEF TypeOK
<1> QED
  BY <1>3, <1>5, <1>6

\* A change of the password marks the logins it overtakes.
LEMMA Overtaking ==
    ASSUME TypeOK, NEW r \in Requests, SetPassword(r)
    PROVE  /\ request' \in [Requests -> RequestType]
           /\ request'[r].pc = "consume" /\ request'[r].token = request[r].token
           /\ request'[r].by = request[r].by
           /\ \A q \in Requests \ {r} : /\ request'[q].pc = request[q].pc
                                        /\ request'[q].by = request[q].by
                                        /\ request'[q].token = request[q].token
                                        /\ request[q].by # 0 => request'[q].raced
                                        /\ request[q].by = 0 => request'[q] = request[q]
<1>1. \A q \in Requests : request'[q] = IF q = r THEN [request[q] EXCEPT !.pc = "consume"]
                          ELSE [request[q] EXCEPT !.raced = @ \/ request[q].by # 0]
  BY DEF SetPassword
<1>2. request'[r] \in RequestType /\ request'[r].pc = "consume"
      /\ request'[r].token = request[r].token /\ request'[r].by = request[r].by
  <2>1. request[r] \in RequestType /\ request'[r] = [request[r] EXCEPT !.pc = "consume"]
    BY <1>1 DEF TypeOK
  <2> QED
    BY <2>1 DEF RequestType
<1>3. ASSUME NEW q \in Requests \ {r}
      PROVE  /\ request'[q] \in RequestType /\ request'[q].pc = request[q].pc
             /\ request'[q].by = request[q].by /\ request'[q].token = request[q].token
             /\ request[q].by # 0 => request'[q].raced
             /\ request[q].by = 0 => request'[q] = request[q]
  <2>1. request[q] \in RequestType
    BY DEF TypeOK
  <2>2. CASE request[q].by # 0
    <3>1. request'[q] = [request[q] EXCEPT !.raced = TRUE]
      BY <1>1, <2>2
    <3> QED
      BY <2>1, <2>2, <3>1 DEF RequestType
  <2>3. CASE request[q].by = 0
    <3>1. request'[q] = [request[q] EXCEPT !.raced = request[q].raced]
      BY <1>1, <2>1, <2>3 DEF RequestType
    <3>2. request'[q] = request[q]
      BY <2>1, <3>1 DEF RequestType
    <3> QED
      BY <2>1, <2>3, <3>2
  <2> QED
    BY <2>2, <2>3
<1>4. request' \in [Requests -> RequestType]
  BY <1>2, <1>3 DEF SetPassword
<1> QED
  BY <1>2, <1>3, <1>4

\* A token has its effect, and nothing else about tokens changes.
LEMMA Using ==
    ASSUME TypeOK, NEW t \in Tokens, Use(t)
    PROVE  /\ uses' \in [Tokens -> 0 .. 2] /\ overlapped' = overlapped /\ unspent' = unspent
           /\ uses'[t] > 0 /\ (uses'[t] > 1 => uses[t] > 0)
           /\ \A o \in Tokens \ {t} : uses'[o] = uses[o]
BY DEF TypeOK, Use

\* What the parts of a step that write the request do to what is in hand.
LEMMA GoingHolds ==
    ASSUME TypeOK, Holdings, NEW r \in Requests, NEW pc, Goto(r, pc),
           \/ pc \in {"link", "issue", "resetAttempts", "lock"}
           \/ pc \in {"createMember", "reactivate", "consume"} /\ request[r].token \in Tokens /\ request[r].by = 0
           \/ pc = "revokeAll" /\ request[r].token \in ResetTokens /\ request[r].by = 0
    PROVE  /\ Holdings'
           /\ \A q \in Requests : /\ request'[q].by = request[q].by
                                  /\ request'[q].pc = "setPassword" => request[q].pc = "setPassword"
<1>1. /\ request'[r].pc = pc /\ request'[r].by = request[r].by
      /\ request'[r].token = request[r].token
      /\ \A q \in Requests \ {r} : request'[q] = request[q]
  BY Going
<1>2. Holding(r)'
  BY <1>1 DEF Holding, At, BeforeUse
<1>3. \A q \in Requests \ {r} : Holding(q)'
  BY <1>1 DEF Holdings, Holding, At
<1> QED
  BY <1>1, <1>2, <1>3 DEF Holdings

\* A request that is done has nothing in hand.
LEMMA EndingHolds ==
    ASSUME TypeOK, Holdings, NEW r \in Requests, Done(r)
    PROVE  /\ Holdings'
           /\ \A q \in Requests : /\ request'[q].by \in {0, request[q].by}
                                  /\ request'[q].pc = "setPassword" => request[q].pc = "setPassword"
<1>1. request'[r] = Idle /\ \A q \in Requests \ {r} : request'[q] = request[q]
  BY Ending
<1>2. Holding(r)'
  BY <1>1 DEF Holding, At, Idle, BeforeUse
<1>3. \A q \in Requests \ {r} : Holding(q)'
  BY <1>1 DEF Holdings, Holding, At
<1> QED
  BY <1>1, <1>2, <1>3 DEF Holdings, Idle

\* A step that is none of a token's, but may let one go, keeps the use of tokens.
LEMMA TokensKept ==
    ASSUME TypeOK, TokenUse, UNCHANGED <<token, uses, overlapped, unspent>>, NEW r \in Requests,
           request[r].pc # "consume",
           request'[r].pc # request[r].pc => request'[r].pc \notin BeforeUse \/ request[r].pc \in BeforeUse,
           request'[r].token \in {request[r].token, NoToken},
           request'[r].pc \in BeforeUse => request'[r].token = request[r].token,
           \A q \in Requests \ {r} : request'[q].pc = request[q].pc /\ request'[q].token = request[q].token
    PROVE  TokenUse'
<1> USE TokenKinds
<1>1. Overlaps'
  BY DEF TokenUse, Overlaps
<1>2. Spent'
  BY DEF TokenUse, Spent, At
<1>3. Excused'
  BY DEF TokenUse, Excused
<1>4. SingleUse'
  BY DEF TokenUse, SingleUse
<1> QED
  BY <1>1, <1>2, <1>3, <1>4 DEF TokenUse

\* The effect of a token keeps the use of tokens.
LEMMA TokensUsed ==
    ASSUME TypeOK, Holdings, TokenUse, token' = token, NEW r \in Requests, request[r].pc \in BeforeUse,
           request[r].token \in Tokens, Use(request[r].token),
           request'[r].pc = "consume", request'[r].token = request[r].token,
           \A q \in Requests \ {r} : request'[q].pc = request[q].pc /\ request'[q].token = request[q].token
    PROVE  TokenUse'
<1> USE TokenKinds
<1> DEFINE t == request[r].token
<1>1. /\ overlapped' = overlapped /\ unspent' = unspent
      /\ (uses'[t] > 1 => uses[t] > 0) /\ \A o \in Tokens \ {t} : uses'[o] = uses[o]
  BY Using
<1>2. Overlaps'
  BY <1>1 DEF TokenUse, Overlaps
<1>3. Spent'
  <2> SUFFICES ASSUME NEW o \in Tokens, uses'[o] > 0
               PROVE  \/ token'[o] = "consumed" \/ o \in unspent'
                      \/ \E q \in Requests : request'[q].pc = "consume" /\ request'[q].token = o
    BY DEF Spent, At
  <2>1. CASE o = t
    BY <2>1
  <2>2. CASE o # t
    <3>1. uses[o] > 0
      BY <1>1, <2>2
    <3>2. \/ token[o] = "consumed" \/ o \in unspent
          \/ \E q \in Requests : request[q].pc = "consume" /\ request[q].token = o
      BY <3>1 DEF TokenUse, Spent, At
    <3> QED
      BY <1>1, <2>2, <3>2 DEF BeforeUse
  <2> QED
    BY <2>1, <2>2
<1>4. Excused'
  <2> SUFFICES ASSUME NEW q \in Requests, request'[q].pc \in BeforeUse, uses'[request'[q].token] > 0,
                      request[q].token \in Tokens
               PROVE  request'[q].token \in overlapped' \cup unspent'
    BY DEF Excused, Holdings, Holding
  <2>1. q # r
    BY DEF BeforeUse
  <2>2. CASE request[q].token = t
    BY <1>1, <2>1, <2>2 DEF TokenUse, Overlaps
  <2>3. CASE request[q].token # t
    BY <1>1, <2>1, <2>3 DEF TokenUse, Excused
  <2> QED
    BY <2>2, <2>3
<1>5. SingleUse'
  <2>1. uses[t] > 0 => t \in overlapped \cup unspent
    BY DEF TokenUse, Excused
  <2> QED
    BY <1>1, <2>1 DEF TokenUse, SingleUse
<1> QED
  BY <1>2, <1>3, <1>4, <1>5 DEF TokenUse

\* Each step keeps the types.
LEMMA TypesHold ==
    ASSUME IInv, [Next]_vars
    PROVE  TypeOK'
<1> USE Bounds DEF IInv, TypeOK, Passwords, Holdings, Holding, BeforeUse, userVars, lockVars, tokenVars, useVars, At
<1>1. ASSUME NEW r \in Requests, NEW u \in Users, Register(r, u)
      PROVE  TypeOK'
  <2>1. request' \in [Requests -> RequestType]
    BY <1>1, Opening DEF Register
  <2> QED
    BY <1>1, <2>1 DEF Register
<1>2. ASSUME NEW r \in Requests, OAuthCallback(r)
      PROVE  TypeOK'
  <2>1. PICK pc \in {"issue", "link", "signUp"} :
           request' = [request EXCEPT ![r].pc = pc, ![r].of = lowercase]
    BY <1>2 DEF OAuthCallback
  <2>2. request' \in [Requests -> RequestType]
    BY <2>1, Opening
  <2> QED
    BY <1>2, <2>2 DEF OAuthCallback
<1>3. ASSUME NEW r \in Requests, Provision(r)
      PROVE  TypeOK'
  <2>1. /\ accounts' \in [Users -> 0 .. 1] /\ lowercase' = lowercase
        /\ UNCHANGED <<linked, lockVars, tokenVars, sessions, failures, resetFailed>>
    BY <1>3 DEF Provision, CreateUser, RequestType
  <2>2. CASE At(r, "register") /\ request[r].of = "account"
    <3>1. /\ request' = [request EXCEPT ![r].pc = "issue", ![r].by = 1] /\ 1 \in Passwords
          /\ passwordHash' = 1 /\ verified' = verified
      BY <1>3, <2>2 DEF Provision, CreateUser
    <3>2. request' \in [Requests -> RequestType]
      BY <3>1, TakingPassword
    <3> QED
      BY <2>1, <3>1, <3>2
  <2>3. CASE At(r, "register") /\ request[r].of # "account"
    <3>1. Goto(r, "issue") /\ passwordHash' = passwordHash /\ verified' = verified
      BY <1>3, <2>3 DEF Provision, CreateUser
    <3>2. request' \in [Requests -> RequestType]
      BY <3>1, Going
    <3> QED
      BY <2>1, <3>1, <3>2
  <2>4. CASE ~At(r, "register")
    <3>1. Goto(r, "link") /\ passwordHash' = passwordHash /\ verified' = (verified \/ request[r].of = "account")
      BY <1>3, <2>4 DEF Provision, CreateUser
    <3>2. request' \in [Requests -> RequestType]
      BY <3>1, Going
    <3>3. verified' \in BOOLEAN
      BY <3>1
    <3> QED
      BY <2>1, <3>1, <3>2, <3>3
  <2> QED
    BY <2>2, <2>3, <2>4
<1>4. ASSUME NEW r \in Requests, Link(r)
      PROVE  TypeOK'
  BY <1>4, Going, Ending DEF Link
<1>5. ASSUME NEW r \in Requests, UniqueIndexThrows(r)
      PROVE  TypeOK'
  BY <1>5, Going, Ending DEF UniqueIndexThrows
<1>6. ASSUME NEW r \in Requests, FindByEmail(r)
      PROVE  TypeOK'
  <2>1. request' = [request EXCEPT ![r].pc = "verify", ![r].by = passwordHash]
    BY <1>6 DEF FindByEmail
  <2>2. request' \in [Requests -> RequestType]
    BY <2>1, TakingPassword
  <2> QED
    BY <1>6, <2>2 DEF FindByEmail
<1>7. ASSUME NEW r \in Requests, PasswordValid(r)
      PROVE  TypeOK'
  BY <1>7, Going, Ending DEF PasswordValid
<1>8. ASSUME NEW r \in Requests, PasswordInvalid(r)
      PROVE  TypeOK'
  BY <1>8, Going, Ending DEF PasswordInvalid
<1>9. ASSUME NEW r \in Requests, LockUntil(r)
      PROVE  TypeOK'
  BY <1>9, Going, Ending DEF LockUntil
<1>10. ASSUME NEW r \in Requests, ResetFailedAttempts(r)
       PROVE  TypeOK'
  <2>1. request' \in [Requests -> RequestType] /\ failedAttempts' \in 0 .. MaxCounted
    BY <1>10, Going DEF ResetFailedAttempts
  <2>2. locked' \in BOOLEAN
    BY <1>10 DEF ResetFailedAttempts
  <2> QED
    BY <1>10, <2>1, <2>2 DEF ResetFailedAttempts
<1>11. ASSUME NEW r \in Requests, Issue(r)
       PROVE  TypeOK'
  <2>1. request' \in [Requests -> RequestType]
    BY <1>11, Ending DEF Issue
  <2>2. [by |-> request[r].by, raced |-> request[r].raced] \in SessionType
    BY DEF RequestType, SessionType
  <2>3. sessions' \subseteq SessionType
    BY <1>11, <2>2 DEF Issue
  <2> QED
    BY <1>11, <2>1, <2>3 DEF Issue
<1>12. ASSUME NEW r \in Requests, SetPassword(r)
       PROVE  TypeOK'
  <2>1. request' \in [Requests -> RequestType]
    BY <1>12, Overtaking
  <2>2. passwordHash' \in Passwords
    BY <1>12 DEF SetPassword
  <2>3. uses' \in [Tokens -> 0 .. 2] /\ overlapped' = overlapped /\ unspent' = unspent
    BY <1>12, Using DEF SetPassword
  <2> QED
    BY <1>12, <2>1, <2>2, <2>3 DEF SetPassword
<1>13. ASSUME NEW r \in Requests, MarkEmailVerified(r)
       PROVE  TypeOK'
  <2>1. request' \in [Requests -> RequestType]
    BY <1>13, Going, Ending DEF MarkEmailVerified
  <2>2. uses' \in [Tokens -> 0 .. 2] /\ overlapped' \subseteq Tokens /\ unspent' \subseteq Tokens
    BY <1>13, Using DEF MarkEmailVerified
  <2>3. membership' \in [Users -> {"none", "active", "inactive"}]
    BY <1>13 DEF MarkEmailVerified, RequestType
  <2> QED
    BY <1>13, <2>1, <2>2, <2>3 DEF MarkEmailVerified
<1>14. ASSUME NEW r \in Requests, FindMembership(r)
       PROVE  TypeOK'
  BY <1>14, Going, Ending DEF FindMembership
<1>15. ASSUME NEW r \in Requests, CreateMember(r)
       PROVE  TypeOK'
  <2>1. request' \in [Requests -> RequestType]
    BY <1>15, Going, Ending DEF CreateMember
  <2>2. uses' \in [Tokens -> 0 .. 2] /\ overlapped' \subseteq Tokens /\ unspent' \subseteq Tokens
    BY <1>15, Using DEF CreateMember
  <2>3. membership' \in [Users -> {"none", "active", "inactive"}]
    BY <1>15 DEF CreateMember, RequestType
  <2> QED
    BY <1>15, <2>1, <2>2, <2>3 DEF CreateMember
<1>16. ASSUME NEW r \in Requests, Reactivate(r)
       PROVE  TypeOK'
  <2>1. request' \in [Requests -> RequestType]
    BY <1>16, Going, Ending DEF Reactivate
  <2>2. uses' \in [Tokens -> 0 .. 2] /\ overlapped' \subseteq Tokens /\ unspent' \subseteq Tokens
    BY <1>16, Using DEF Reactivate
  <2>3. membership' \in [Users -> {"none", "active", "inactive"}]
    BY <1>16 DEF Reactivate, RequestType
  <2> QED
    BY <1>16, <2>1, <2>2, <2>3 DEF Reactivate
<1>17. ASSUME NEW r \in Requests, MarkConsumed(r)
       PROVE  TypeOK'
  BY <1>17, Going, Ending DEF MarkConsumed
<1>18. ASSUME NEW r \in Requests, RevokeAll(r)
       PROVE  TypeOK'
  BY <1>18, Going, Ending DEF RevokeAll
<1>19. ASSUME NEW r \in Requests, RequestThrows(r)
       PROVE  TypeOK'
  BY <1>19, Going, Ending DEF RequestThrows
<1>20. ASSUME NEW r \in Requests, NEW t \in Tokens, NEW u \in Users, FindActive(r, t, u)
       PROVE  TypeOK'
  <2>1. PICK pc \in {"setPassword", "markVerified", "membership"} :
           request' = [request EXCEPT ![r].pc = pc, ![r].token = t, ![r].of = u]
    BY <1>20 DEF FindActive
  <2>2. request' \in [Requests -> RequestType]
    BY <2>1, TakingToken
  <2>3. overlapped' \subseteq Tokens
    BY <1>20 DEF FindActive
  <2> QED
    BY <1>20, <2>2, <2>3 DEF FindActive
<1>21. ASSUME NEW t \in Tokens, CreateToken(t)
       PROVE  TypeOK'
  BY <1>21 DEF CreateToken
<1>22. ASSUME NEW u \in Users, NEW new \in {"active", "inactive"}, SetStatus(u, new)
       PROVE  TypeOK'
  BY <1>22 DEF SetStatus
<1>23. CASE LockExpires
  BY <1>23 DEF LockExpires
<1>24. ASSUME NEW s \in SessionType, EndSession(s) \/ RevokeOthers(s)
       PROVE  TypeOK'
  BY <1>24 DEF EndSession, RevokeOthers, SessionType
<1>25. CASE UNCHANGED vars
  BY <1>25 DEF vars
<1> QED
  BY <1>1, <1>2, <1>3, <1>4, <1>5, <1>6, <1>7, <1>8, <1>9,
     <1>10, <1>11, <1>12, <1>13, <1>14, <1>15, <1>16, <1>17, <1>18,
     <1>19, <1>20, <1>21, <1>22, <1>23, <1>24, <1>25 DEF Next

\* Each step keeps what the requests have in hand.
LEMMA HoldingsHold ==
    ASSUME IInv, [Next]_vars
    PROVE  Holdings' /\ Passwords0'
<1> USE Bounds DEF IInv, TypeOK, Passwords0, userVars, lockVars, tokenVars, useVars, At
<1>1. ASSUME NEW r \in Requests, NEW u \in Users, Register(r, u)
      PROVE  Holdings' /\ Passwords0'
  <2>1. request' = [request EXCEPT ![r].pc = "register", ![r].of = u] /\ request[r] = Idle
    BY <1>1 DEF Register, Holdings, Holding
  <2>2. /\ request'[r].pc = "register" /\ request'[r].by = request[r].by
        /\ \A q \in Requests \ {r} : request'[q] = request[q]
    BY <2>1, Opening
  <2>3. request[r].by = 0
    BY <2>1 DEF Idle
  <2>4. Holding(r)' /\ \A q \in Requests \ {r} : Holding(q)'
    BY <2>2, <2>3 DEF Holdings, Holding, BeforeUse
  <2> QED
    BY <1>1, <2>2, <2>4, <2>3 DEF Register, Holdings
<1>2. ASSUME NEW r \in Requests, OAuthCallback(r)
      PROVE  Holdings' /\ Passwords0'
  <2>1. PICK pc \in {"issue", "link", "signUp"} :
           request' = [request EXCEPT ![r].pc = pc, ![r].of = lowercase]
    BY <1>2 DEF OAuthCallback
  <2>2. /\ request'[r].pc = pc /\ request'[r].by = request[r].by
        /\ \A q \in Requests \ {r} : request'[q] = request[q]
    BY <2>1, Opening
  <2>3. Holding(r)' /\ \A q \in Requests \ {r} : Holding(q)'
    BY <2>2 DEF Holdings, Holding, BeforeUse
  <2> QED
    BY <1>2, <2>2, <2>3 DEF OAuthCallback, Holdings
<1>3. ASSUME NEW r \in Requests, Provision(r)
      PROVE  Holdings' /\ Passwords0'
  <2>1. CASE At(r, "register") /\ request[r].of = "account"
    <3>1. request' = [request EXCEPT ![r].pc = "issue", ![r].by = 1]
      BY <1>3, <2>1 DEF Provision, CreateUser
    <3>2. /\ request'[r].pc = "issue"
          /\ \A q \in Requests \ {r} : request'[q] = request[q]
      BY <3>1 DEF TypeOK, RequestType
    <3>3. Holding(r)' /\ \A q \in Requests \ {r} : Holding(q)'
      BY <3>2 DEF Holdings, Holding, BeforeUse
    <3>4. accounts'["account"] = 1
      BY <1>3, <2>1 DEF Provision, CreateUser, Users
    <3> QED
      BY <3>3, <3>4 DEF Holdings
  <2>2. CASE ~(At(r, "register") /\ request[r].of = "account")
    <3>1. PICK pc \in {"issue", "link"} : Goto(r, pc)
      BY <1>3, <2>2 DEF Provision, CreateUser
    <3>2. /\ Holdings' /\ passwordHash' = passwordHash /\ sessions' = sessions
          /\ \A q \in Requests : /\ request'[q].by = request[q].by
                                 /\ request'[q].pc = "setPassword" => request[q].pc = "setPassword"
      BY <1>3, <2>2, <3>1, GoingHolds DEF Provision, CreateUser
    <3>3. accounts'["account"] = 0 => accounts["account"] = 0
      BY <1>3 DEF Provision, CreateUser, Users, RequestType
    <3> QED
      BY <3>2, <3>3
  <2> QED
    BY <2>1, <2>2
<1>4. ASSUME NEW r \in Requests, Link(r)
      PROVE  Holdings' /\ Passwords0'
  BY <1>4, GoingHolds, EndingHolds DEF Link, Holdings, Holding, BeforeUse
<1>5. ASSUME NEW r \in Requests, UniqueIndexThrows(r)
      PROVE  Holdings' /\ Passwords0'
  BY <1>5, GoingHolds, EndingHolds DEF UniqueIndexThrows, Holdings, Holding, BeforeUse
<1>6. ASSUME NEW r \in Requests, FindByEmail(r)
      PROVE  Holdings' /\ Passwords0'
  BY <1>6 DEF TypeOK, RequestType, Holdings, Holding, FindByEmail, BeforeUse
<1>7. ASSUME NEW r \in Requests, PasswordValid(r)
      PROVE  Holdings' /\ Passwords0'
  BY <1>7, GoingHolds, EndingHolds DEF PasswordValid, Holdings, Holding, BeforeUse
<1>8. ASSUME NEW r \in Requests, PasswordInvalid(r)
      PROVE  Holdings' /\ Passwords0'
  BY <1>8, GoingHolds, EndingHolds DEF PasswordInvalid, Holdings, Holding, BeforeUse
<1>9. ASSUME NEW r \in Requests, LockUntil(r)
      PROVE  Holdings' /\ Passwords0'
  BY <1>9, GoingHolds, EndingHolds DEF LockUntil, Holdings, Holding, BeforeUse
<1>10. ASSUME NEW r \in Requests, ResetFailedAttempts(r)
       PROVE  Holdings' /\ Passwords0'
  BY <1>10, GoingHolds, EndingHolds DEF ResetFailedAttempts, Holdings, Holding, BeforeUse
<1>11. ASSUME NEW r \in Requests, Issue(r)
       PROVE  Holdings' /\ Passwords0'
  BY <1>11, GoingHolds, EndingHolds DEF Issue, Holdings, Holding, BeforeUse
<1>12. ASSUME NEW r \in Requests, SetPassword(r)
       PROVE  Holdings' /\ Passwords0'
  <2>1. /\ request'[r].pc = "consume" /\ request'[r].token = request[r].token
        /\ request'[r].by = request[r].by
        /\ \A q \in Requests \ {r} : /\ request'[q].pc = request[q].pc
                                     /\ request'[q].by = request[q].by
                                     /\ request'[q].token = request[q].token
                                     /\ request[q].by = 0 => request'[q] = request[q]
    BY <1>12, Overtaking
  <2>2. Holding(r)'
    BY <1>12, <2>1, TokenKinds DEF SetPassword, Holdings, Holding, BeforeUse
  <2>3. ASSUME NEW q \in Requests \ {r}
        PROVE  Holding(q)'
    <3>1. Holding(q)
      BY DEF Holdings
    <3>2. At(q, "idle") => request'[q] = request[q]
      BY <2>1, <3>1 DEF Holding, Idle
    <3> QED
      BY <2>1, <3>1, <3>2 DEF Holding
  <2>4. Passwords0'
    <3>1. accounts["account"] # 0
      BY <1>12 DEF SetPassword, Holdings
    <3> QED
      BY <1>12, <3>1 DEF SetPassword
  <2> QED
    BY <2>2, <2>3, <2>4 DEF Holdings
<1>13. ASSUME NEW r \in Requests, MarkEmailVerified(r)
       PROVE  Holdings' /\ Passwords0'
  BY <1>13, GoingHolds, EndingHolds DEF MarkEmailVerified, Holdings, Holding, BeforeUse
<1>14. ASSUME NEW r \in Requests, FindMembership(r)
       PROVE  Holdings' /\ Passwords0'
  BY <1>14, GoingHolds, EndingHolds DEF FindMembership, Holdings, Holding, BeforeUse
<1>15. ASSUME NEW r \in Requests, CreateMember(r)
       PROVE  Holdings' /\ Passwords0'
  BY <1>15, GoingHolds, EndingHolds DEF CreateMember, Holdings, Holding, BeforeUse
<1>16. ASSUME NEW r \in Requests, Reactivate(r)
       PROVE  Holdings' /\ Passwords0'
  BY <1>16, GoingHolds, EndingHolds DEF Reactivate, Holdings, Holding, BeforeUse
<1>17. ASSUME NEW r \in Requests, MarkConsumed(r)
       PROVE  Holdings' /\ Passwords0'
  BY <1>17, GoingHolds, EndingHolds DEF MarkConsumed, Holdings, Holding, BeforeUse
<1>18. ASSUME NEW r \in Requests, RevokeAll(r)
       PROVE  Holdings' /\ Passwords0'
  BY <1>18, GoingHolds, EndingHolds DEF RevokeAll, Holdings, Holding, BeforeUse
<1>19. ASSUME NEW r \in Requests, RequestThrows(r)
       PROVE  Holdings' /\ Passwords0'
  BY <1>19, GoingHolds, EndingHolds DEF RequestThrows, Holdings, Holding, BeforeUse
<1>20. ASSUME NEW r \in Requests, NEW t \in Tokens, NEW u \in Users, FindActive(r, t, u)
       PROVE  Holdings' /\ Passwords0'
  <2>1. PICK pc \in {"setPassword", "markVerified", "membership"} :
           /\ \/ pc = "setPassword" /\ t \in ResetTokens /\ u = "account"
              \/ pc # "setPassword" /\ t \in Tokens
           /\ request' = [request EXCEPT ![r].pc = pc, ![r].token = t, ![r].of = u]
    BY <1>20 DEF FindActive
  <2>2. /\ request'[r].pc = pc /\ request'[r].token = t /\ request'[r].by = request[r].by
        /\ \A q \in Requests \ {r} : request'[q] = request[q]
    BY <2>1, TakingToken
  <2>3. request[r].by = 0
    BY <1>20 DEF FindActive, Holdings, Holding, Idle
  <2>4. Holding(r)' /\ \A q \in Requests \ {r} : Holding(q)'
    BY <2>1, <2>2, <2>3 DEF Holdings, Holding, BeforeUse
  <2>5. Holdings'
    BY <2>4 DEF Holdings
  <2>6. accounts' = accounts /\ passwordHash' = passwordHash /\ sessions' = sessions /\ accounts[u] > 0
    BY <1>20 DEF FindActive
  <2>7. Passwords0'
    BY <2>1, <2>2, <2>3, <2>6
  <2> QED
    BY <2>5, <2>7
<1>21. ASSUME NEW t \in Tokens, CreateToken(t)
       PROVE  Holdings' /\ Passwords0'
  BY <1>21 DEF CreateToken, Holdings, Holding, BeforeUse
<1>22. ASSUME NEW u \in Users, NEW new \in {"active", "inactive"}, SetStatus(u, new)
       PROVE  Holdings' /\ Passwords0'
  BY <1>22 DEF SetStatus, Holdings, Holding, BeforeUse
<1>23. CASE LockExpires
  BY <1>23 DEF LockExpires, Holdings, Holding, BeforeUse
<1>24. ASSUME NEW s \in SessionType, EndSession(s) \/ RevokeOthers(s)
       PROVE  Holdings' /\ Passwords0'
  BY <1>24 DEF EndSession, RevokeOthers, Holdings, Holding, BeforeUse
<1>25. CASE UNCHANGED vars
  BY <1>25 DEF vars, Holdings, Holding, BeforeUse
<1> QED
  BY <1>1, <1>2, <1>3, <1>4, <1>5, <1>6, <1>7, <1>8, <1>9,
     <1>10, <1>11, <1>12, <1>13, <1>14, <1>15, <1>16, <1>17, <1>18,
     <1>19, <1>20, <1>21, <1>22, <1>23, <1>24, <1>25 DEF Next

\* Each step keeps old sessions to those a race or a failed reset excuses.
LEMMA SessionsHold ==
    ASSUME IInv, [Next]_vars
    PROVE  OldSessions'
<1> USE Bounds DEF IInv, TypeOK, Holdings, Holding, BeforeUse, Passwords0, OldSessions, Resetting, userVars, lockVars, tokenVars, useVars, At, Idle
<1>1. ASSUME NEW r \in Requests, NEW u \in Users, Register(r, u)
      PROVE  OldSessions'
  <2>1. request' = [request EXCEPT ![r].pc = "register", ![r].of = u]
    BY <1>1 DEF Register
  <2>2. /\ request'[r].by = request[r].by /\ request'[r].raced = request[r].raced
        /\ \A q \in Requests \ {r} : request'[q] = request[q]
    BY <2>1, Opening
  <2> QED
    BY <1>1, <2>2 DEF Register
<1>2. ASSUME NEW r \in Requests, OAuthCallback(r)
      PROVE  OldSessions'
  <2>1. PICK pc \in {"issue", "link", "signUp"} :
           request' = [request EXCEPT ![r].pc = pc, ![r].of = lowercase]
    BY <1>2 DEF OAuthCallback
  <2>2. /\ request'[r].pc = pc /\ request'[r].by = request[r].by /\ request'[r].raced = request[r].raced
        /\ \A q \in Requests \ {r} : request'[q] = request[q]
    BY <2>1, Opening
  <2> QED
    BY <1>2, <2>2 DEF OAuthCallback
<1>3. ASSUME NEW r \in Requests, Provision(r)
      PROVE  OldSessions'
  <2>1. CASE At(r, "register") /\ request[r].of = "account"
    <3>1. /\ accounts["account"] = 0 /\ passwordHash' = 1 /\ sessions' = sessions
          /\ request' = [request EXCEPT ![r].pc = "issue", ![r].by = 1]
      BY <1>3, <2>1 DEF Provision, CreateUser
    <3>2. \A q \in Requests : request'[q].by \in {0, passwordHash'}
      BY <3>1 DEF RequestType
    <3> QED
      BY <3>1, <3>2
  <2>2. CASE ~(At(r, "register") /\ request[r].of = "account")
    <3>1. PICK pc \in {"issue", "link"} : Goto(r, pc)
      BY <1>3, <2>2 DEF Provision, CreateUser
    <3>2. UNCHANGED <<passwordHash, sessions, resetFailed>> /\ request[r].pc \in {"register", "signUp"}
      BY <1>3, <2>2 DEF Provision, CreateUser
    <3> QED
      BY <3>1, <3>2, Going
  <2> QED
    BY <2>1, <2>2
<1>4. ASSUME NEW r \in Requests, Link(r)
      PROVE  OldSessions'
  BY <1>4, Going, Ending DEF Link
<1>5. ASSUME NEW r \in Requests, UniqueIndexThrows(r)
      PROVE  OldSessions'
  BY <1>5, Going, Ending DEF UniqueIndexThrows
<1>6. ASSUME NEW r \in Requests, FindByEmail(r)
      PROVE  OldSessions'
  BY <1>6, Going, Ending DEF FindByEmail
<1>7. ASSUME NEW r \in Requests, PasswordValid(r)
      PROVE  OldSessions'
  BY <1>7, Going, Ending DEF PasswordValid
<1>8. ASSUME NEW r \in Requests, PasswordInvalid(r)
      PROVE  OldSessions'
  BY <1>8, Going, Ending DEF PasswordInvalid
<1>9. ASSUME NEW r \in Requests, LockUntil(r)
      PROVE  OldSessions'
  BY <1>9, Going, Ending DEF LockUntil
<1>10. ASSUME NEW r \in Requests, ResetFailedAttempts(r)
       PROVE  OldSessions'
  BY <1>10, Going, Ending DEF ResetFailedAttempts
<1>11. ASSUME NEW r \in Requests, Issue(r)
       PROVE  OldSessions'
  BY <1>11, Going, Ending DEF Issue
<1>12. ASSUME NEW r \in Requests, SetPassword(r)
       PROVE  OldSessions'
  <2>1. /\ request'[r].pc = "consume" /\ request'[r].token = request[r].token
        /\ request'[r].by = request[r].by
        /\ \A q \in Requests \ {r} : /\ request'[q].by = request[q].by
                                     /\ request[q].by # 0 => request'[q].raced
    BY <1>12, Overtaking
  <2>2. request[r].by = 0 /\ request[r].token \in ResetTokens
    BY <1>12 DEF SetPassword
  <2>3. Resetting(r)'
    BY <2>1, <2>2
  <2>4. \A q \in Requests : request'[q].by \in {0, passwordHash'} \/ request'[q].raced
    BY <2>1, <2>2
  <2> QED
    BY <2>3, <2>4
<1>13. ASSUME NEW r \in Requests, MarkEmailVerified(r)
       PROVE  OldSessions'
  BY <1>13, Going, Ending DEF MarkEmailVerified
<1>14. ASSUME NEW r \in Requests, FindMembership(r)
       PROVE  OldSessions'
  BY <1>14, Going, Ending DEF FindMembership
<1>15. ASSUME NEW r \in Requests, CreateMember(r)
       PROVE  OldSessions'
  BY <1>15, Going, Ending DEF CreateMember
<1>16. ASSUME NEW r \in Requests, Reactivate(r)
       PROVE  OldSessions'
  BY <1>16, Going, Ending DEF Reactivate
<1>17. ASSUME NEW r \in Requests, MarkConsumed(r)
       PROVE  OldSessions'
  BY <1>17, Going, Ending DEF MarkConsumed
<1>18. ASSUME NEW r \in Requests, RevokeAll(r)
       PROVE  OldSessions'
  BY <1>18, Going, Ending DEF RevokeAll
<1>19. ASSUME NEW r \in Requests, RequestThrows(r)
       PROVE  OldSessions'
  BY <1>19, Going, Ending DEF RequestThrows
<1>20. ASSUME NEW r \in Requests, NEW t \in Tokens, NEW u \in Users, FindActive(r, t, u)
       PROVE  OldSessions'
  <2>1. PICK pc \in {"setPassword", "markVerified", "membership"} :
           request' = [request EXCEPT ![r].pc = pc, ![r].token = t, ![r].of = u]
    BY <1>20 DEF FindActive
  <2>2. /\ request'[r].pc = pc /\ request'[r].by = request[r].by /\ request'[r].raced = request[r].raced
        /\ \A q \in Requests \ {r} : request'[q] = request[q]
    BY <2>1, TakingToken
  <2> QED
    BY <1>20, <2>2 DEF FindActive
<1>21. ASSUME NEW t \in Tokens, CreateToken(t)
       PROVE  OldSessions'
  BY <1>21 DEF CreateToken
<1>22. ASSUME NEW u \in Users, NEW new \in {"active", "inactive"}, SetStatus(u, new)
       PROVE  OldSessions'
  BY <1>22 DEF SetStatus
<1>23. CASE LockExpires
  BY <1>23 DEF LockExpires
<1>24. ASSUME NEW s \in SessionType, EndSession(s) \/ RevokeOthers(s)
       PROVE  OldSessions'
  BY <1>24 DEF EndSession, RevokeOthers
<1>25. CASE UNCHANGED vars
  BY <1>25 DEF vars
<1> QED
  BY <1>1, <1>2, <1>3, <1>4, <1>5, <1>6, <1>7, <1>8, <1>9,
     <1>10, <1>11, <1>12, <1>13, <1>14, <1>15, <1>16, <1>17, <1>18,
     <1>19, <1>20, <1>21, <1>22, <1>23, <1>24, <1>25 DEF Next

\* Each step keeps the lock at the limit.
LEMMA LimitHolds ==
    ASSUME IInv, [Next]_vars
    PROVE  LockedAtLimit'
<1> USE Bounds DEF IInv, TypeOK, LockedAtLimit, userVars, lockVars, tokenVars, useVars, At, Idle
<1>1. ASSUME NEW r \in Requests, NEW u \in Users, Register(r, u)
      PROVE  LockedAtLimit'
  BY <1>1, Opening DEF Register
<1>2. ASSUME NEW r \in Requests, OAuthCallback(r)
      PROVE  LockedAtLimit'
  <2>1. PICK pc \in {"issue", "link", "signUp"} :
           request' = [request EXCEPT ![r].pc = pc, ![r].of = lowercase]
    BY <1>2 DEF OAuthCallback
  <2>2. /\ request'[r].pc = pc
        /\ \A q \in Requests \ {r} : request'[q] = request[q]
    BY <2>1, Opening
  <2> QED
    BY <1>2, <2>2 DEF OAuthCallback
<1>3. ASSUME NEW r \in Requests, Provision(r)
      PROVE  LockedAtLimit'
  BY <1>3, Going, Ending DEF Provision, CreateUser
<1>4. ASSUME NEW r \in Requests, Link(r)
      PROVE  LockedAtLimit'
  BY <1>4, Going, Ending DEF Link
<1>5. ASSUME NEW r \in Requests, UniqueIndexThrows(r)
      PROVE  LockedAtLimit'
  BY <1>5, Going, Ending DEF UniqueIndexThrows
<1>6. ASSUME NEW r \in Requests, FindByEmail(r)
      PROVE  LockedAtLimit'
  BY <1>6, Going, Ending DEF FindByEmail
<1>7. ASSUME NEW r \in Requests, PasswordValid(r)
      PROVE  LockedAtLimit'
  BY <1>7, Going, Ending DEF PasswordValid
<1>8. ASSUME NEW r \in Requests, PasswordInvalid(r)
      PROVE  LockedAtLimit'
  BY <1>8, Going, Ending DEF PasswordInvalid
<1>9. ASSUME NEW r \in Requests, LockUntil(r)
      PROVE  LockedAtLimit'
  BY <1>9, Going, Ending DEF LockUntil
<1>10. ASSUME NEW r \in Requests, ResetFailedAttempts(r)
       PROVE  LockedAtLimit'
  BY <1>10, Going, Ending DEF ResetFailedAttempts
<1>11. ASSUME NEW r \in Requests, Issue(r)
       PROVE  LockedAtLimit'
  BY <1>11, Going, Ending DEF Issue
<1>12. ASSUME NEW r \in Requests, SetPassword(r)
       PROVE  LockedAtLimit'
  BY <1>12, Overtaking DEF SetPassword
<1>13. ASSUME NEW r \in Requests, MarkEmailVerified(r)
       PROVE  LockedAtLimit'
  BY <1>13, Going, Ending DEF MarkEmailVerified
<1>14. ASSUME NEW r \in Requests, FindMembership(r)
       PROVE  LockedAtLimit'
  BY <1>14, Going, Ending DEF FindMembership
<1>15. ASSUME NEW r \in Requests, CreateMember(r)
       PROVE  LockedAtLimit'
  BY <1>15, Going, Ending DEF CreateMember
<1>16. ASSUME NEW r \in Requests, Reactivate(r)
       PROVE  LockedAtLimit'
  BY <1>16, Going, Ending DEF Reactivate
<1>17. ASSUME NEW r \in Requests, MarkConsumed(r)
       PROVE  LockedAtLimit'
  BY <1>17, Going, Ending DEF MarkConsumed
<1>18. ASSUME NEW r \in Requests, RevokeAll(r)
       PROVE  LockedAtLimit'
  BY <1>18, Going, Ending DEF RevokeAll
<1>19. ASSUME NEW r \in Requests, RequestThrows(r)
       PROVE  LockedAtLimit'
  BY <1>19, Going, Ending DEF RequestThrows
<1>20. ASSUME NEW r \in Requests, NEW t \in Tokens, NEW u \in Users, FindActive(r, t, u)
       PROVE  LockedAtLimit'
  <2>1. PICK pc \in {"setPassword", "markVerified", "membership"} :
           request' = [request EXCEPT ![r].pc = pc, ![r].token = t, ![r].of = u]
    BY <1>20 DEF FindActive
  <2>2. /\ request'[r].pc = pc
        /\ \A q \in Requests \ {r} : request'[q] = request[q]
    BY <2>1, TakingToken
  <2> QED
    BY <1>20, <2>2 DEF FindActive
<1>21. ASSUME NEW t \in Tokens, CreateToken(t)
       PROVE  LockedAtLimit'
  BY <1>21 DEF CreateToken
<1>22. ASSUME NEW u \in Users, NEW new \in {"active", "inactive"}, SetStatus(u, new)
       PROVE  LockedAtLimit'
  BY <1>22 DEF SetStatus
<1>23. CASE LockExpires
  BY <1>23 DEF LockExpires
<1>24. ASSUME NEW s \in SessionType, EndSession(s) \/ RevokeOthers(s)
       PROVE  LockedAtLimit'
  BY <1>24 DEF EndSession, RevokeOthers
<1>25. CASE UNCHANGED vars
  BY <1>25 DEF vars
<1> QED
  BY <1>1, <1>2, <1>3, <1>4, <1>5, <1>6, <1>7, <1>8, <1>9,
     <1>10, <1>11, <1>12, <1>13, <1>14, <1>15, <1>16, <1>17, <1>18,
     <1>19, <1>20, <1>21, <1>22, <1>23, <1>24, <1>25 DEF Next

\* Each step keeps the use of tokens.
LEMMA TokensHold ==
    ASSUME IInv, [Next]_vars
    PROVE  TokenUse'
<1> USE Bounds DEF IInv, TypeOK, TokenUse, userVars, lockVars, tokenVars, useVars, At
<1>1. ASSUME NEW r \in Requests, NEW u \in Users, Register(r, u)
      PROVE  TokenUse'
  <2>1. request[r].pc # "consume" /\ UNCHANGED <<token, uses, overlapped, unspent>>
    BY <1>1 DEF Register
  <2>2. /\ request'[r].pc # request[r].pc => request'[r].pc \notin BeforeUse \/ request[r].pc \in BeforeUse
        /\ request'[r].token \in {request[r].token, NoToken}
        /\ request'[r].pc \in BeforeUse => request'[r].token = request[r].token
        /\ \A q \in Requests \ {r} : request'[q].pc = request[q].pc /\ request'[q].token = request[q].token
    BY <1>1, Opening DEF Register, BeforeUse, Idle
  <2> QED
    BY <2>1, <2>2, TokensKept
<1>2. ASSUME NEW r \in Requests, OAuthCallback(r)
      PROVE  TokenUse'
  <2>1. PICK pc \in {"issue", "link", "signUp"} :
           request' = [request EXCEPT ![r].pc = pc, ![r].of = lowercase]
    BY <1>2 DEF OAuthCallback
  <2>2. /\ request'[r].pc = pc /\ request'[r].token = request[r].token
        /\ \A q \in Requests \ {r} : request'[q] = request[q]
    BY <2>1, Opening
  <2>3. request[r].pc # "consume" /\ UNCHANGED <<token, uses, overlapped, unspent>>
    BY <1>2 DEF OAuthCallback
  <2>4. request'[r].pc \notin BeforeUse
    BY <2>2 DEF BeforeUse
  <2> QED
    BY <2>2, <2>3, <2>4, TokensKept
<1>3. ASSUME NEW r \in Requests, Provision(r)
      PROVE  TokenUse'
  <2>1. /\ request[r].pc # "consume" /\ UNCHANGED <<token, uses, overlapped, unspent>>
    BY <1>3 DEF Provision, CreateUser
  <2>2. /\ request'[r].pc \in {"issue", "link"} /\ request'[r].token = request[r].token
        /\ \A q \in Requests \ {r} : request'[q] = request[q]
    <3>1. CASE At(r, "register") /\ request[r].of = "account"
      BY <1>3, <3>1 DEF Provision, CreateUser, RequestType
    <3>2. CASE ~(At(r, "register") /\ request[r].of = "account")
      <4>1. PICK pc \in {"issue", "link"} : Goto(r, pc)
        BY <1>3, <3>2 DEF Provision, CreateUser
      <4> QED
        BY <4>1, Going
    <3> QED
      BY <3>1, <3>2
  <2>3. request'[r].pc \notin BeforeUse
    BY <2>2 DEF BeforeUse
  <2> QED
    BY <2>1, <2>2, <2>3, TokensKept
<1>4. ASSUME NEW r \in Requests, Link(r)
      PROVE  TokenUse'
  <2>1. request[r].pc # "consume" /\ UNCHANGED <<token, uses, overlapped, unspent>>
    BY <1>4 DEF Link
  <2>2. /\ request'[r].pc # request[r].pc => request'[r].pc \notin BeforeUse \/ request[r].pc \in BeforeUse
        /\ request'[r].token \in {request[r].token, NoToken}
        /\ request'[r].pc \in BeforeUse => request'[r].token = request[r].token
        /\ \A q \in Requests \ {r} : request'[q].pc = request[q].pc /\ request'[q].token = request[q].token
    BY <1>4, Going, Ending DEF Link, BeforeUse, Idle
  <2> QED
    BY <2>1, <2>2, TokensKept
<1>5. ASSUME NEW r \in Requests, UniqueIndexThrows(r)
      PROVE  TokenUse'
  <2>1. request[r].pc # "consume" /\ UNCHANGED <<token, uses, overlapped, unspent>>
    BY <1>5 DEF UniqueIndexThrows
  <2>2. /\ request'[r].pc # request[r].pc => request'[r].pc \notin BeforeUse \/ request[r].pc \in BeforeUse
        /\ request'[r].token \in {request[r].token, NoToken}
        /\ request'[r].pc \in BeforeUse => request'[r].token = request[r].token
        /\ \A q \in Requests \ {r} : request'[q].pc = request[q].pc /\ request'[q].token = request[q].token
    BY <1>5, Going, Ending DEF UniqueIndexThrows, BeforeUse, Idle
  <2> QED
    BY <2>1, <2>2, TokensKept
<1>6. ASSUME NEW r \in Requests, FindByEmail(r)
      PROVE  TokenUse'
  <2>1. request[r].pc # "consume" /\ UNCHANGED <<token, uses, overlapped, unspent>>
    BY <1>6 DEF FindByEmail
  <2>2. /\ request'[r].pc # request[r].pc => request'[r].pc \notin BeforeUse \/ request[r].pc \in BeforeUse
        /\ request'[r].token \in {request[r].token, NoToken}
        /\ request'[r].pc \in BeforeUse => request'[r].token = request[r].token
        /\ \A q \in Requests \ {r} : request'[q].pc = request[q].pc /\ request'[q].token = request[q].token
    BY <1>6, TakingPassword DEF FindByEmail, BeforeUse, Idle
  <2> QED
    BY <2>1, <2>2, TokensKept
<1>7. ASSUME NEW r \in Requests, PasswordValid(r)
      PROVE  TokenUse'
  <2>1. request[r].pc # "consume" /\ UNCHANGED <<token, uses, overlapped, unspent>>
    BY <1>7 DEF PasswordValid
  <2>2. /\ request'[r].pc # request[r].pc => request'[r].pc \notin BeforeUse \/ request[r].pc \in BeforeUse
        /\ request'[r].token \in {request[r].token, NoToken}
        /\ request'[r].pc \in BeforeUse => request'[r].token = request[r].token
        /\ \A q \in Requests \ {r} : request'[q].pc = request[q].pc /\ request'[q].token = request[q].token
    BY <1>7, Going, Ending DEF PasswordValid, BeforeUse, Idle
  <2> QED
    BY <2>1, <2>2, TokensKept
<1>8. ASSUME NEW r \in Requests, PasswordInvalid(r)
      PROVE  TokenUse'
  <2>1. request[r].pc # "consume" /\ UNCHANGED <<token, uses, overlapped, unspent>>
    BY <1>8 DEF PasswordInvalid
  <2>2. /\ request'[r].pc # request[r].pc => request'[r].pc \notin BeforeUse \/ request[r].pc \in BeforeUse
        /\ request'[r].token \in {request[r].token, NoToken}
        /\ request'[r].pc \in BeforeUse => request'[r].token = request[r].token
        /\ \A q \in Requests \ {r} : request'[q].pc = request[q].pc /\ request'[q].token = request[q].token
    BY <1>8, Going, Ending DEF PasswordInvalid, BeforeUse, Idle
  <2> QED
    BY <2>1, <2>2, TokensKept
<1>9. ASSUME NEW r \in Requests, LockUntil(r)
      PROVE  TokenUse'
  <2>1. request[r].pc # "consume" /\ UNCHANGED <<token, uses, overlapped, unspent>>
    BY <1>9 DEF LockUntil
  <2>2. /\ request'[r].pc # request[r].pc => request'[r].pc \notin BeforeUse \/ request[r].pc \in BeforeUse
        /\ request'[r].token \in {request[r].token, NoToken}
        /\ request'[r].pc \in BeforeUse => request'[r].token = request[r].token
        /\ \A q \in Requests \ {r} : request'[q].pc = request[q].pc /\ request'[q].token = request[q].token
    BY <1>9, Going, Ending DEF LockUntil, BeforeUse, Idle
  <2> QED
    BY <2>1, <2>2, TokensKept
<1>10. ASSUME NEW r \in Requests, ResetFailedAttempts(r)
       PROVE  TokenUse'
  <2>1. request[r].pc # "consume" /\ UNCHANGED <<token, uses, overlapped, unspent>>
    BY <1>10 DEF ResetFailedAttempts
  <2>2. /\ request'[r].pc # request[r].pc => request'[r].pc \notin BeforeUse \/ request[r].pc \in BeforeUse
        /\ request'[r].token \in {request[r].token, NoToken}
        /\ request'[r].pc \in BeforeUse => request'[r].token = request[r].token
        /\ \A q \in Requests \ {r} : request'[q].pc = request[q].pc /\ request'[q].token = request[q].token
    BY <1>10, Going, Ending DEF ResetFailedAttempts, BeforeUse, Idle
  <2> QED
    BY <2>1, <2>2, TokensKept
<1>11. ASSUME NEW r \in Requests, Issue(r)
       PROVE  TokenUse'
  <2>1. request[r].pc # "consume" /\ UNCHANGED <<token, uses, overlapped, unspent>>
    BY <1>11 DEF Issue
  <2>2. /\ request'[r].pc # request[r].pc => request'[r].pc \notin BeforeUse \/ request[r].pc \in BeforeUse
        /\ request'[r].token \in {request[r].token, NoToken}
        /\ request'[r].pc \in BeforeUse => request'[r].token = request[r].token
        /\ \A q \in Requests \ {r} : request'[q].pc = request[q].pc /\ request'[q].token = request[q].token
    BY <1>11, Going, Ending DEF Issue, BeforeUse, Idle
  <2> QED
    BY <2>1, <2>2, TokensKept
<1>12. ASSUME NEW r \in Requests, SetPassword(r)
       PROVE  TokenUse'
  <2>1. /\ request[r].pc \in BeforeUse /\ request[r].token \in Tokens
        /\ Use(request[r].token) /\ token' = token
    BY <1>12 DEF SetPassword, Holdings, Holding, BeforeUse
  <2>2. /\ request'[r].pc = "consume" /\ request'[r].token = request[r].token
        /\ \A q \in Requests \ {r} : request'[q].pc = request[q].pc /\ request'[q].token = request[q].token
    BY <1>12, Overtaking DEF SetPassword
  <2> QED
    BY <2>1, <2>2, TokensUsed
<1>13. ASSUME NEW r \in Requests, MarkEmailVerified(r)
       PROVE  TokenUse'
  <2>1. /\ request[r].pc \in BeforeUse /\ request[r].token \in Tokens
        /\ Use(request[r].token) /\ token' = token
    BY <1>13 DEF MarkEmailVerified, Holdings, Holding, BeforeUse
  <2>2. /\ request'[r].pc = "consume" /\ request'[r].token = request[r].token
        /\ \A q \in Requests \ {r} : request'[q].pc = request[q].pc /\ request'[q].token = request[q].token
    BY <1>13, Going DEF MarkEmailVerified
  <2> QED
    BY <2>1, <2>2, TokensUsed
<1>14. ASSUME NEW r \in Requests, FindMembership(r)
       PROVE  TokenUse'
  <2>1. request[r].pc # "consume" /\ UNCHANGED <<token, uses, overlapped, unspent>>
    BY <1>14 DEF FindMembership
  <2>2. /\ request'[r].pc # request[r].pc => request'[r].pc \notin BeforeUse \/ request[r].pc \in BeforeUse
        /\ request'[r].token \in {request[r].token, NoToken}
        /\ request'[r].pc \in BeforeUse => request'[r].token = request[r].token
        /\ \A q \in Requests \ {r} : request'[q].pc = request[q].pc /\ request'[q].token = request[q].token
    BY <1>14, Going, Ending DEF FindMembership, BeforeUse, Idle
  <2> QED
    BY <2>1, <2>2, TokensKept
<1>15. ASSUME NEW r \in Requests, CreateMember(r)
       PROVE  TokenUse'
  <2>1. CASE membership[request[r].of] = "none"
    <3>1. /\ request[r].pc \in BeforeUse /\ request[r].token \in Tokens
          /\ Use(request[r].token) /\ token' = token
      BY <1>15, <2>1 DEF CreateMember, Holdings, Holding, BeforeUse
    <3>2. /\ request'[r].pc = "consume" /\ request'[r].token = request[r].token
          /\ \A q \in Requests \ {r} : request'[q].pc = request[q].pc /\ request'[q].token = request[q].token
      BY <1>15, <2>1, Going DEF CreateMember
    <3> QED
      BY <3>1, <3>2, TokensUsed
  <2>2. CASE membership[request[r].of] # "none"
    <3>1. Done(r) /\ request[r].pc # "consume" /\ UNCHANGED <<token, uses, overlapped, unspent>>
      BY <1>15, <2>2 DEF CreateMember
    <3>2. request'[r].token = NoToken /\ request'[r].pc \notin BeforeUse
          /\ \A q \in Requests \ {r} : request'[q] = request[q]
      BY <3>1, Ending DEF Idle, BeforeUse
    <3> QED
      BY <3>1, <3>2, TokensKept
  <2> QED
    BY <2>1, <2>2
<1>16. ASSUME NEW r \in Requests, Reactivate(r)
       PROVE  TokenUse'
  <2>1. /\ request[r].pc \in BeforeUse /\ request[r].token \in Tokens
        /\ Use(request[r].token) /\ token' = token
    BY <1>16 DEF Reactivate, Holdings, Holding, BeforeUse
  <2>2. /\ request'[r].pc = "consume" /\ request'[r].token = request[r].token
        /\ \A q \in Requests \ {r} : request'[q].pc = request[q].pc /\ request'[q].token = request[q].token
    BY <1>16, Going DEF Reactivate
  <2> QED
    BY <2>1, <2>2, TokensUsed
<1>17. ASSUME NEW r \in Requests, MarkConsumed(r)
       PROVE  TokenUse'
  <2>1. /\ request[r].pc = "consume" /\ request[r].token \in Tokens /\ UNCHANGED useVars
        /\ token' = [token EXCEPT ![request[r].token] = "consumed"]
    BY <1>17 DEF MarkConsumed, Holdings, Holding
  <2>2. /\ request'[r].pc \notin BeforeUse /\ request'[r].token \in {request[r].token, NoToken}
        /\ \A q \in Requests \ {r} : request'[q] = request[q]
    BY <1>17, Going, Ending DEF MarkConsumed, BeforeUse, Idle
  <2>3. Overlaps'
    BY <2>1, <2>2, TokenKinds DEF Overlaps
  <2>4. Spent'
    BY <2>1, <2>2 DEF Spent
  <2>5. Excused'
    BY <2>1, <2>2 DEF Excused
  <2>6. SingleUse'
    BY <2>1 DEF SingleUse
  <2> QED
    BY <2>3, <2>4, <2>5, <2>6 DEF TokenUse
<1>18. ASSUME NEW r \in Requests, RevokeAll(r)
       PROVE  TokenUse'
  <2>1. request[r].pc # "consume" /\ UNCHANGED <<token, uses, overlapped, unspent>>
    BY <1>18 DEF RevokeAll
  <2>2. /\ request'[r].pc # request[r].pc => request'[r].pc \notin BeforeUse \/ request[r].pc \in BeforeUse
        /\ request'[r].token \in {request[r].token, NoToken}
        /\ request'[r].pc \in BeforeUse => request'[r].token = request[r].token
        /\ \A q \in Requests \ {r} : request'[q].pc = request[q].pc /\ request'[q].token = request[q].token
    BY <1>18, Going, Ending DEF RevokeAll, BeforeUse, Idle
  <2> QED
    BY <2>1, <2>2, TokensKept
<1>19. ASSUME NEW r \in Requests, RequestThrows(r)
       PROVE  TokenUse'
  <2>1. /\ UNCHANGED <<token, uses, overlapped>>
        /\ unspent \subseteq unspent' /\ (At(r, "consume") => request[r].token \in unspent')
    BY <1>19 DEF RequestThrows
  <2>2. /\ request'[r].pc \notin BeforeUse /\ request'[r].token = NoToken
        /\ \A q \in Requests \ {r} : request'[q] = request[q]
    BY <1>19, Ending DEF RequestThrows, BeforeUse, Idle
  <2>3. Overlaps'
    BY <2>1, <2>2, TokenKinds DEF Overlaps
  <2>4. Spent'
    BY <2>1, <2>2 DEF Spent
  <2>5. Excused'
    BY <2>1, <2>2 DEF Excused
  <2>6. SingleUse'
    BY <2>1 DEF SingleUse
  <2> QED
    BY <2>3, <2>4, <2>5, <2>6 DEF TokenUse
<1>20. ASSUME NEW r \in Requests, NEW t \in Tokens, NEW u \in Users, FindActive(r, t, u)
       PROVE  TokenUse'
  <2>1. PICK pc \in {"setPassword", "markVerified", "membership"} :
           request' = [request EXCEPT ![r].pc = pc, ![r].token = t, ![r].of = u]
    BY <1>20 DEF FindActive
  <2>2. /\ request'[r].pc = pc /\ request'[r].token = t
        /\ \A q \in Requests \ {r} : request'[q] = request[q]
    BY <2>1, TakingToken
  <2>3. /\ request[r].pc = "idle" /\ request[r].token = NoToken /\ token[t] = "active"
        /\ UNCHANGED <<token, uses, unspent>> /\ overlapped \subseteq overlapped'
        /\ \A q \in Requests : request[q].token = t => t \in overlapped'
    BY <1>20 DEF FindActive, Holdings, Holding, Idle
  <2>4. Overlaps'
    BY <2>2, <2>3 DEF Overlaps
  <2>5. Spent'
    BY <2>2, <2>3 DEF Spent
  <2>6. Excused'
    <3>1. uses[t] > 0 => t \in overlapped' \cup unspent'
      BY <2>3 DEF Spent
    <3> QED
      BY <2>2, <2>3, <3>1 DEF Excused
  <2>7. SingleUse'
    BY <2>3 DEF SingleUse
  <2> QED
    BY <2>4, <2>5, <2>6, <2>7 DEF TokenUse
<1>21. ASSUME NEW t \in Tokens, CreateToken(t)
       PROVE  TokenUse'
  <2>1. /\ UNCHANGED <<request, uses, overlapped, unspent>> /\ token[t] = "none"
        /\ \A o \in Tokens \ {t} : token'[o] = token[o]
    BY <1>21 DEF CreateToken
  <2>2. Overlaps' /\ Excused' /\ SingleUse'
    BY <2>1 DEF Overlaps, Excused, SingleUse
  <2>3. Spent'
    BY <2>1 DEF Spent
  <2> QED
    BY <2>2, <2>3 DEF TokenUse
<1>22. ASSUME NEW u \in Users, NEW new \in {"active", "inactive"}, SetStatus(u, new)
       PROVE  TokenUse'
  BY <1>22 DEF SetStatus, Overlaps, Spent, Excused, SingleUse
<1>23. CASE LockExpires
  BY <1>23 DEF LockExpires, Overlaps, Spent, Excused, SingleUse
<1>24. ASSUME NEW s \in SessionType, EndSession(s) \/ RevokeOthers(s)
       PROVE  TokenUse'
  BY <1>24 DEF EndSession, RevokeOthers, Overlaps, Spent, Excused, SingleUse
<1>25. CASE UNCHANGED vars
  BY <1>25 DEF vars, Overlaps, Spent, Excused, SingleUse
<1> QED
  BY <1>1, <1>2, <1>3, <1>4, <1>5, <1>6, <1>7, <1>8, <1>9,
     <1>10, <1>11, <1>12, <1>13, <1>14, <1>15, <1>16, <1>17, <1>18,
     <1>19, <1>20, <1>21, <1>22, <1>23, <1>24, <1>25 DEF Next

\* The invariant is one of the specification.
LEMMA Invariance == Spec => []IInv
<1>1. Init => IInv
  BY InitHolds
<1>2. IInv /\ [Next]_vars => IInv'
  BY TypesHold, HoldingsHold, SessionsHold, LimitHolds, TokensHold DEF IInv
<1> QED
  BY <1>1, <1>2, PTL DEF Spec

-----------------------------------------------------------------------------
\* An account is well typed; in particular an address has at most one as it is
\* spelled, though a mailbox may have a second one under another spelling.
THEOREM AccountTypes == Spec => []TypeOK
<1>1. IInv => TypeOK
  BY DEF IInv
<1> QED
  BY <1>1, Invariance, PTL

\* ResetPassword leaves no session of an older password but those of logins that
\* overtook it or of resets that failed half-way.
THEOREM AccountSessions == Spec => []OldSessionsOnlyByRace
<1>1. IInv => OldSessionsOnlyByRace
  BY DEF IInv, Holdings, Holding, OldSessions, Resetting, OldSessionsOnlyByRace, At
<1> QED
  BY <1>1, Invariance, PTL

\* However logins overlap, an account at the limit of failed attempts is locked,
\* about to be, or has been.
THEOREM AccountLocks == Spec => []LockedAtLimit
<1>1. IInv => LockedAtLimit
  BY DEF IInv
<1> QED
  BY <1>1, Invariance, PTL

\* A reset, a verification and an invitation are single-use but for requests that
\* have the token in hand at once and one that throws before it has consumed it.
THEOREM AccountTokens == Spec => []SingleUse
<1>1. IInv => SingleUse
  BY DEF IInv, TokenUse
<1> QED
  BY <1>1, Invariance, PTL

=============================================================================
