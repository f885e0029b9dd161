------------------------------ MODULE Accounts ------------------------------
(***************************************************************************)
(* The accounts API (internal/api/auth.go) and the payment webhooks        *)
(* (internal/payment/webhook.go) over the database they share.  Every      *)
(* request runs in a goroutine of its own and no handler uses a            *)
(* transaction: a handler is a read of a row, later a write of the whole   *)
(* row as it was read, and every statement is one step.                    *)
(*                                                                         *)
(* One e-mail address is modelled, so the users table has at most one row. *)
(* Of its columns the model keeps the identifier, the password, the        *)
(* verification flag and the verification code.  A refresh token is the    *)
(* signed pair of user and second: GenerateRefreshToken puts nothing else  *)
(* into it.                                                                *)
(***************************************************************************)
EXTENDS Integers, Sequences, Functions

CONSTANTS
    Requests,     \* handler goroutines that may run at once
    Passwords,    \* passwords; 0 stands for none
    Lavas,        \* subscription identifiers of the payment provider
    MaxRequests,  \* bound on the requests that get to a write
    MaxSecond     \* bound on the clock, in seconds

ASSUME BoundsAssumption ==
    /\ 0 \notin Passwords
    /\ MaxRequests \in Nat
    /\ MaxSecond \in Nat

NoRow == [id |-> 0, pw |-> 0, verified |-> FALSE, code |-> 0]
Idle == [at |-> "idle"]

VARIABLES
    row,        \* the row of the address in users (NoRow: none)
    sessions,   \* rows of sessions: sid, user, token
    subs,       \* rows of subscriptions, oldest first: lava, status
    req,        \* what each handler goroutine has read and does next
    started,    \* number of requests that got to a write
    fresh,      \* identifiers given out so far: users, codes, sessions
    mailed,     \* verification codes that reached their owner
    claims,     \* users that an access token has been issued for
    expired,    \* verification codes and refresh tokens past their time, as a record
    second,     \* the clock
    issued,     \* history: refresh tokens that were issued,
    reissued,   \* and those that were issued more than once
    spent,      \* history: refresh tokens of answered Refresh and Logout requests
    undeleted,  \* history: refresh tokens whose deletion failed unnoticed
    accepted,   \* history: codes accepted so far, in order
    wanted,     \* history: the password written last on request
    stale,      \* history: a row was written that had changed since it was read
    paid,       \* history: what the last event of each subscription says
    muddled     \* history: a webhook was lost, repeated or handled during another

tables == <<row, sessions, subs>>
tokens == <<issued, reissued, spent, undeleted>>
account == <<accepted, wanted, stale>>
payment == <<paid, muddled>>
vars == <<tables, req, started, fresh, mailed, claims, expired, second, tokens, account, payment>>

-----------------------------------------------------------------------------
(* What the statements do.                                                 *)

\* r goes on with state s.
Goes(r, s) == req' = [req EXCEPT ![r] = s]
Ends(r) == Goes(r, Idle)

\* A request received by goroutine r gets past the handler's checks, or is answered
\* in its first step and leaves r idle; only those that write something count.
Free(r) == req[r] = Idle /\ started < MaxRequests
Counted == started' = started + 1
Begins(r, s) == Counted /\ Goes(r, s)
Answered == UNCHANGED <<req, started>>
At(r, label) == req[r].at = label

\* DB.Save(&u) succeeds: an UPDATE by identifier or, when that finds no row, an
\* INSERT, which the unique e-mail refuses when another user has taken it.
Savable(u) == row.id \in {0, u.id}

\* A row is written that r read as seen.
Written(r, u) ==
    /\ row' = u
    /\ stale' = (stale \/ row # req[r].seen)

\* DELETE of user u: the foreign key of sessions refuses it or cascades, the one of
\* subscriptions, which has no OnDelete, refuses it.
DeletesUser(u) ==
    \/ /\ row.id = u /\ subs = <<>>
       /\ row' = NoRow
       /\ sessions' = {s \in sessions : s.user # u}
    \/ /\ row.id # u \/ subs # <<>> \/ \E s \in sessions : s.user = u
       /\ UNCHANGED <<row, sessions>>

Token(u) == <<u, second>>
Hooked(r) == At(r, "hookSave")

-----------------------------------------------------------------------------
(* RegisterHandler                                                         *)

Restarted(u, pw) == [u EXCEPT !.pw = pw, !.verified = FALSE, !.code = fresh.code + 1]

\* Mutant of RegisterRead: an account that is there is taken over whether or not
\* its e-mail has been verified.
RegisterReadBlind(r, pw) ==
    /\ Free(r)
    /\ fresh' = [fresh EXCEPT !.code = @ + 1]
    /\ Begins(r, [at |-> "registerWrite", seen |-> row, user |-> Restarted(row, pw)])
    /\ UNCHANGED <<tables, mailed, claims, expired, second, tokens, account, payment>>

\* A verified account is refused; an unverified one gets its code again while that
\* lasts; otherwise a new code and password are prepared.
RegisterRead(r, pw) ==
    /\ Free(r)
    /\ \/ /\ row.verified
          /\ Answered
          /\ UNCHANGED <<fresh, mailed>>
       \/ /\ row.id # 0 /\ ~row.verified /\ row.code \notin expired.codes
          /\ mailed' \in {mailed, mailed \union {row.code}}
          /\ Answered
          /\ UNCHANGED fresh
       \/ /\ row.id = 0 \/ (~row.verified /\ row.code \in expired.codes)
          /\ fresh' = [fresh EXCEPT !.code = @ + 1]
          /\ Begins(r, [at |-> "registerWrite", seen |-> row, user |-> Restarted(row, pw)])
          /\ UNCHANGED mailed
    /\ UNCHANGED <<tables, claims, expired, second, tokens, account, payment>>

\* Save of the unverified row that was read, or Create of a new one; the unique
\* e-mail makes either fail.
RegisterWrite(r) ==
    /\ At(r, "registerWrite")
    /\ LET u == req[r].user
           id == IF u.id = 0 THEN fresh.user + 1 ELSE u.id
           new == [u EXCEPT !.id = id]
       IN  \/ /\ Savable(u)
              /\ Written(r, new)
              /\ wanted' = u.pw
              /\ fresh' = [fresh EXCEPT !.user = IF u.id = 0 THEN id ELSE @]
              /\ Goes(r, [at |-> "registerMail", seen |-> req[r].seen, user |-> new])
           \/ /\ ~Savable(u)
              /\ Ends(r)
              /\ UNCHANGED <<row, wanted, stale, fresh>>
    /\ UNCHANGED <<sessions, subs, started, mailed, claims, expired, second, tokens, accepted,
                   payment>>

\* The code is mailed.  When SendMail reports an error, which does not mean that the
\* mail was not delivered, the user is deleted again.
RegisterMail(r) ==
    /\ At(r, "registerMail")
    /\ \/ /\ mailed' = mailed \union {req[r].user.code}
          /\ UNCHANGED <<row, sessions>>
       \/ /\ mailed' \in {mailed, mailed \union {req[r].user.code}}
          /\ DeletesUser(req[r].user.id)
    /\ Ends(r)
    /\ UNCHANGED <<subs, started, fresh, claims, expired, second, tokens, account, payment>>

-----------------------------------------------------------------------------
(* VerifyCodeHandler and LoginHandler                                      *)

\* The owner sends a code that was mailed; it is compared with the row as read.
VerifyRead(r, code) ==
    /\ Free(r)
    /\ \/ /\ row.id # 0 /\ ~row.verified /\ row.code = code /\ code \notin expired.codes
          /\ Begins(r, [at |-> "verifySave", seen |-> row, code |-> code,
                      user |-> [row EXCEPT !.verified = TRUE, !.code = 0]])
       \/ /\ row.id = 0 \/ row.verified \/ row.code # code \/ code \in expired.codes
          /\ Answered
    /\ UNCHANGED <<tables, fresh, mailed, claims, expired, second, tokens, account, payment>>

\* Mutant of VerifySave: the row is saved as it was read.
VerifySaveAsRead(r) ==
    /\ At(r, "verifySave") /\ Savable(req[r].user)
    /\ Written(r, req[r].seen)
    /\ accepted' = Append(accepted, req[r].code)
    /\ Goes(r, [at |-> "session", user |-> req[r].user.id, old |-> <<>>])
    /\ UNCHANGED <<sessions, subs, started, fresh, mailed, claims, expired, second, tokens, wanted,
                   payment>>

\* The row as read is saved with the flag set and the code cleared; Abandon is the
\* branch in which Save fails.
VerifySave(r) ==
    /\ At(r, "verifySave") /\ Savable(req[r].user)
    /\ Written(r, req[r].user)
    /\ accepted' = Append(accepted, req[r].code)
    /\ Goes(r, [at |-> "session", user |-> req[r].user.id, old |-> <<>>])
    /\ UNCHANGED <<sessions, subs, started, fresh, mailed, claims, expired, second, tokens, wanted,
                   payment>>

\* Only a verified account and the right password lead to a session.
LoginRead(r, pw) ==
    /\ Free(r)
    /\ \/ /\ row.verified /\ row.pw = pw
          /\ Begins(r, [at |-> "session", user |-> row.id, old |-> <<>>])
       \/ /\ ~row.verified \/ row.pw # pw
          /\ Answered
    /\ UNCHANGED <<tables, fresh, mailed, claims, expired, second, tokens, account, payment>>

\* VerifyCode, Login and Refresh (old is the token it was given) end with both
\* tokens and a session row, which the foreign key allows only for a user that is there.
OpenSession(r) ==
    /\ At(r, "session") /\ row.id = req[r].user
    /\ LET u == req[r].user IN
       /\ sessions' = sessions \union {[sid |-> fresh.session + 1, user |-> u, token |-> Token(u)]}
       /\ fresh' = [fresh EXCEPT !.session = @ + 1]
       /\ issued' = issued \union {Token(u)}
       /\ reissued' = reissued \union ({Token(u)} \cap issued)
       /\ claims' = claims \union {u}
       /\ spent' = IF req[r].old = <<>> THEN spent ELSE spent \union {req[r].old}
    /\ Ends(r)
    /\ UNCHANGED <<row, subs, started, mailed, expired, second, undeleted, account, payment>>

-----------------------------------------------------------------------------
(* RefreshHandler and LogoutHandler                                        *)

\* Of several rows with the token any may be the first; an expired one is deleted.
RefreshRead(r, token) ==
    /\ Free(r)
    /\ \/ \E s \in sessions :
          /\ s.token = token
          /\ \/ /\ token \in expired.tokens
                /\ sessions' \in {sessions, sessions \ {s}}
                /\ Answered
             \/ /\ token \notin expired.tokens
                /\ Begins(r, [at |-> "refreshUser", session |-> s])
                /\ UNCHANGED sessions
       \/ /\ \A s \in sessions : s.token # token
          /\ Answered
          /\ UNCHANGED sessions
    /\ UNCHANGED <<row, subs, fresh, mailed, claims, expired, second, tokens, account, payment>>

RefreshUser(r) ==
    /\ At(r, "refreshUser")
    /\ \/ /\ row.id = req[r].session.user
          /\ Goes(r, [req[r] EXCEPT !.at = "refreshDelete"])
       \/ /\ row.id # req[r].session.user
          /\ Ends(r)
    /\ UNCHANGED <<tables, started, fresh, mailed, claims, expired, second, tokens, account, payment>>

\* Mutant of RefreshDelete: the old session is kept.
RefreshDeleteKeeps(r) ==
    /\ At(r, "refreshDelete")
    /\ Goes(r, [at |-> "session", user |-> req[r].session.user, old |-> req[r].session.token])
    /\ UNCHANGED <<tables, started, fresh, mailed, claims, expired, second, tokens, account, payment>>

\* The session that was read is deleted; an error of the deletion is not looked at.
RefreshDelete(r) ==
    /\ At(r, "refreshDelete")
    /\ LET s == req[r].session IN
       /\ \/ /\ sessions' = sessions \ {s}
             /\ UNCHANGED undeleted
          \/ /\ undeleted' = undeleted \union {s.token}
             /\ UNCHANGED sessions
       /\ Goes(r, [at |-> "session", user |-> s.user, old |-> s.token])
    /\ UNCHANGED <<row, subs, started, fresh, mailed, claims, expired, second, issued, reissued, spent,
                   account, payment>>

\* One DELETE of every session with the token.
Logout(r, token) ==
    /\ Free(r) /\ Counted
    /\ sessions' = {s \in sessions : s.token # token}
    /\ spent' = spent \union {token}
    /\ UNCHANGED <<row, subs, req, fresh, mailed, claims, expired, second, issued, reissued, undeleted,
                   account, payment>>

-----------------------------------------------------------------------------
(* UpdateNameHandler, UpdatePasswordHandler and DeleteAccountHandler; the  *)
(* user is the one of the access token, which AuthMiddleware validates     *)
(* without the database.                                                   *)

\* The user of an access token that is still good may be gone by now.
Authorized(u) == u \in claims

\* UpdateName changes a column that the model leaves out.
NameRead(r, u) ==
    /\ Authorized(u) /\ Free(r)
    /\ \/ /\ row.id = u
          /\ Begins(r, [at |-> "updateSave", seen |-> row, user |-> row])
       \/ /\ row.id # u
          /\ Answered
    /\ UNCHANGED <<tables, fresh, mailed, claims, expired, second, tokens, account, payment>>

\* UpdatePassword compares the current password with the row as read; neither looks
\* at the verification flag.
PasswordRead(r, u, current, pw) ==
    /\ Authorized(u) /\ Free(r)
    /\ \/ /\ row.id = u /\ row.pw = current
          /\ Begins(r, [at |-> "updateSave", seen |-> row, user |-> [row EXCEPT !.pw = pw]])
       \/ /\ row.id # u \/ row.pw # current
          /\ Answered
    /\ UNCHANGED <<tables, fresh, mailed, claims, expired, second, tokens, account, payment>>

\* Either saves the row as read with its change.
UpdateSave(r) ==
    /\ At(r, "updateSave") /\ Savable(req[r].user)
    /\ Written(r, req[r].user)
    /\ wanted' = IF req[r].user.pw = req[r].seen.pw THEN wanted ELSE req[r].user.pw
    /\ Ends(r)
    /\ UNCHANGED <<sessions, subs, started, fresh, mailed, claims, expired, second, tokens, accepted,
                   payment>>

\* The sessions first, then the user, in two statements.
DeleteSessions(r, u) ==
    /\ Authorized(u) /\ Free(r)
    /\ sessions' = {s \in sessions : s.user # u}
    /\ Begins(r, [at |-> "deleteUser", user |-> u])
    /\ UNCHANGED <<row, subs, fresh, mailed, claims, expired, second, tokens, account, payment>>

DeleteUser(r) ==
    /\ At(r, "deleteUser")
    /\ DeletesUser(req[r].user)
    /\ Ends(r)
    /\ UNCHANGED <<subs, started, fresh, mailed, claims, expired, second, tokens, account, payment>>

-----------------------------------------------------------------------------
(* HandleWebhook, which answers 200 whatever becomes of the event          *)

\* Every delivery of payment.success creates a row; the error of a Create that the
\* foreign key or the database refuses is not looked at.
PaymentSuccess(r, l) ==
    /\ Free(r) /\ Counted
    /\ \/ /\ row.id # 0
          /\ subs' = Append(subs, [lava |-> l, status |-> "active"])
          /\ muddled' = (muddled \/ paid[l] # "none" \/ \E q \in Requests : Hooked(q))
       \/ /\ UNCHANGED subs
          /\ muddled' = TRUE
    /\ paid' = [paid EXCEPT ![l] = "active"]
    /\ UNCHANGED <<row, sessions, req, fresh, mailed, claims, expired, second, tokens, account>>

\* The status that each of the other events leads to.
Outcome == [renewal |-> "active", failed |-> "expired", cancelled |-> "cancelled"]

\* The handlers of these events read one of the rows of the subscription: the first
\* by an identifier that is random.
HookRead(r, l, event) ==
    /\ Free(r)
    /\ \/ \E i \in DOMAIN subs :
          /\ subs[i].lava = l
          /\ Begins(r, [at |-> "hookSave", sub |-> i, event |-> event])
          /\ muddled' = (muddled \/ \E q \in Requests : Hooked(q))
          /\ paid' = [paid EXCEPT ![l] = Outcome[event]]
       \/ /\ \A i \in DOMAIN subs : subs[i].lava # l
          /\ Answered
          /\ UNCHANGED payment
    /\ UNCHANGED <<tables, fresh, mailed, claims, expired, second, tokens, account>>

\* Mutant of HookSave: the event leaves the status as it was.
HookSaveKeeps(r) ==
    /\ At(r, "hookSave")
    /\ Ends(r)
    /\ UNCHANGED <<tables, started, fresh, mailed, claims, expired, second, tokens, account, payment>>

\* They save it with the status of the event.
HookSave(r) ==
    /\ At(r, "hookSave")
    /\ subs' = [subs EXCEPT ![req[r].sub].status = Outcome[req[r].event]]
    /\ Ends(r)
    /\ UNCHANGED <<row, sessions, started, fresh, mailed, claims, expired, second, tokens, account,
                   payment>>

\* GetSubscriptionStatus: the newest row of the user.
SubscriptionStatus == IF subs = <<>> THEN "none" ELSE subs[Len(subs)].status

-----------------------------------------------------------------------------
(* Faults and time                                                         *)

\* The next statement of r fails, or the process exits before it: the handler ends
\* and nothing is undone.
Abandon(r) ==
    /\ req[r] # Idle
    /\ Ends(r)
    /\ muddled' = (muddled \/ Hooked(r))
    /\ UNCHANGED <<tables, started, fresh, mailed, claims, expired, second, tokens, account, paid>>

Expire ==
    /\ \/ /\ row.code # 0
          /\ expired' = [expired EXCEPT !.codes = @ \union {row.code}]
       \/ \E s \in sessions : expired' = [expired EXCEPT !.tokens = @ \union {s.token}]
    /\ UNCHANGED <<tables, req, started, fresh, mailed, claims, second, tokens, account, payment>>

Tick ==
    /\ second < MaxSecond
    /\ second' = second + 1
    /\ UNCHANGED <<tables, req, started, fresh, mailed, claims, expired, tokens, account, payment>>

Init ==
    /\ row = NoRow /\ sessions = {} /\ subs = <<>>
    /\ req = [r \in Requests |-> Idle]
    /\ started = 0
    /\ fresh = [user |-> 0, code |-> 0, session |-> 0]
    /\ mailed = {} /\ claims = {} /\ expired = [codes |-> {}, tokens |-> {}] /\ second = 0
    /\ issued = {} /\ reissued = {} /\ spent = {} /\ undeleted = {}
    /\ accepted = <<>> /\ wanted = 0 /\ stale = FALSE
    /\ paid = [l \in Lavas |-> "none"] /\ muddled = FALSE

Next ==
    \/ \E r \in Requests :
       \/ \E pw \in Passwords : RegisterRead(r, pw) \/ LoginRead(r, pw)
       \/ \E code \in mailed : VerifyRead(r, code)
       \/ \E t \in issued : RefreshRead(r, t) \/ Logout(r, t)
       \/ \E u \in 1..fresh.user :
          \/ NameRead(r, u)
          \/ \E current, pw \in Passwords : PasswordRead(r, u, current, pw)
          \/ DeleteSessions(r, u)
       \/ \E l \in Lavas : PaymentSuccess(r, l)
       \/ \E l \in Lavas, event \in DOMAIN Outcome : HookRead(r, l, event)
       \/ RegisterWrite(r) \/ RegisterMail(r) \/ VerifySave(r) \/ OpenSession(r)
       \/ RefreshUser(r) \/ RefreshDelete(r) \/ UpdateSave(r) \/ DeleteUser(r) \/ HookSave(r)
       \/ Abandon(r)
    \/ Expire
    \/ Tick

Spec == Init /\ [][Next]_vars

-----------------------------------------------------------------------------
(* Correctness                                                             *)

\* A verified account is lost, or falls back to unverified, only through
\* DeleteAccount or through a request that read the address before it was verified:
\* Register then writes, or deletes after a mail error, what somebody has verified
\* since, and an update saves the old flag.
VerifiedKept ==
    [][row.verified /\ ~(row'.verified /\ row'.id = row.id) =>
         \E r \in Requests :
            /\ req'[r] # req[r]
            /\ \/ At(r, "deleteUser")
               \/ "seen" \in DOMAIN req[r] /\ ~req[r].seen.verified]_vars

\* A refresh token is of no use once Refresh or Logout has been answered for it,
\* whatever ran at the same time, unless two sessions of one second were given the
\* same token or the unchecked deletion in Refresh failed.
SpentTokensGone ==
    \A s \in sessions :
        s.token \in spent => s.token \in reissued \/ s.token \in undeleted

\* As long as no handler has written over a change it had not seen, the address
\* behaves as if requests were handled one at a time, whichever of them were abandoned
\* half way: no verification code is accepted twice, and the account has the password
\* that was asked for last.
UnracedIsSerial ==
    ~stale => /\ IsInjective(accepted)
              /\ row.id # 0 => row.pw = wanted

\* The status a client is shown is the one of the last event of the subscription bought
\* last, as long as no event was lost, none was handled during another and
\* payment.success was not delivered twice: each delivery makes a row of its own, and
\* later events may go to the row that is not shown.
StatusFollowsEvents ==
    ~muddled /\ (\A r \in Requests : ~Hooked(r)) =>
        SubscriptionStatus = IF subs = <<>> THEN "none" ELSE paid[subs[Len(subs)].lava]
=============================================================================
