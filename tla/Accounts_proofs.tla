--------------------------- MODULE Accounts_proofs ---------------------------
(***************************************************************************)
(* The properties of Accounts for any number of handler goroutines,        *)
(* requests, passwords and subscriptions.                                  *)
(***************************************************************************)
EXTENDS Accounts, TLAPS

Rows == [id : Nat, pw : Passwords \cup {0}, verified : BOOLEAN, code : Nat]
Sessions == [sid : Nat, user : Nat, token : Nat \X Nat]
Statuses == {"active", "expired", "cancelled"}
Subs == [lava : Lavas, status : Statuses]
Counters == [user : Nat, code : Nat, session : Nat]
Events == {"renewal", "failed", "cancelled"}

\* What a goroutine keeps, by what it does next.
Savers == [at : {"registerWrite", "registerMail", "updateSave"}, seen : Rows, user : Rows]
Verifiers == [at : {"verifySave"}, seen : Rows, code : Nat, user : Rows]
Openers == [at : {"session"}, user : Nat, old : {<<>>} \cup (Nat \X Nat)]
Refreshers == [at : {"refreshUser", "refreshDelete"}, session : Sessions]
Deleters == [at : {"deleteUser"}, user : Nat]
Hooks == [at : {"hookSave"}, sub : Nat, event : Events]

States == {Idle} \cup Savers \cup Verifiers \cup Openers \cup Refreshers \cup Deleters \cup Hooks

TypeOK ==
    /\ row \in Rows
    /\ sessions \subseteq Sessions
    /\ subs \in Seq(Subs)
    /\ req \in [Requests -> States]
    /\ fresh \in Counters
    /\ second \in Nat
    /\ accepted \in Seq(Nat)
    /\ stale \in BOOLEAN /\ muddled \in BOOLEAN
    /\ paid \in [Lavas -> Statuses \cup {"none"}]

-----------------------------------------------------------------------------
(* Types *)

\* What a goroutine keeps follows from its label.
LEMMA Shape ==
    ASSUME NEW s \in States
    PROVE  /\ s.at = "idle" => s = Idle
           /\ s.at \in {"registerWrite", "registerMail", "updateSave"} => s \in Savers
           /\ s.at = "verifySave" => s \in Verifiers
           /\ s.at = "session" => s \in Openers
           /\ s.at \in {"refreshUser", "refreshDelete"} => s \in Refreshers
           /\ s.at = "deleteUser" => s \in Deleters
           /\ s.at = "hookSave" => s \in Hooks
  BY DEF States, Idle, Savers, Verifiers, Openers, Refreshers, Deleters, Hooks

LEMMA SeenFields ==
    ASSUME NEW s \in States, s.at \in {"registerWrite", "registerMail", "updateSave", "verifySave"}
    PROVE  "seen" \in DOMAIN s /\ s.seen \in Rows /\ s.user \in Rows
  BY Shape DEF Savers, Verifiers

\* A row with some columns changed.
LEMMA RowId ==
    ASSUME NEW u \in Rows, NEW i \in Nat
    PROVE  LET v == [u EXCEPT !.id = i]
           IN  v \in Rows /\ v.id = i /\ v.pw = u.pw /\ v.verified = u.verified /\ v.code = u.code
  BY DEF Rows

LEMMA RowPassword ==
    ASSUME NEW u \in Rows, NEW pw \in Passwords
    PROVE  LET v == [u EXCEPT !.pw = pw]
           IN  v \in Rows /\ v.id = u.id /\ v.pw = pw /\ v.verified = u.verified /\ v.code = u.code
  BY DEF Rows

LEMMA RowVerified ==
    ASSUME NEW u \in Rows
    PROVE  LET v == [u EXCEPT !.verified = TRUE, !.code = 0]
           IN  v \in Rows /\ v.id = u.id /\ v.pw = u.pw /\ v.verified /\ v.code = 0
  BY DEF Rows

LEMMA RowRestarted ==
    ASSUME NEW u \in Rows, NEW pw \in Passwords, fresh.code \in Nat
    PROVE  LET v == Restarted(u, pw)
           IN  v \in Rows /\ v.id = u.id /\ v.pw = pw /\ ~v.verified /\ v.code = fresh.code + 1
  <1>1. fresh.code + 1 \in Nat
    OBVIOUS
  <1> QED
    BY <1>1 DEF Rows, Restarted

\* fresh with one of its counters changed.
LEMMA FreshType ==
    ASSUME TypeOK
    PROVE  /\ fresh.user \in Nat /\ fresh.code \in Nat /\ fresh.session \in Nat
           /\ LET f == [fresh EXCEPT !.code = fresh.code + 1]
              IN  f \in Counters /\ f.user = fresh.user /\ f.code = fresh.code + 1
           /\ [fresh EXCEPT !.session = fresh.session + 1] \in Counters
           /\ \A n \in Nat : LET f == [fresh EXCEPT !.user = n]
                             IN  f \in Counters /\ f.code = fresh.code
  <1>1. fresh \in Counters
    BY DEF TypeOK
  <1>2. fresh.user \in Nat /\ fresh.code \in Nat /\ fresh.session \in Nat
    BY <1>1 DEF Counters
  <1> QED
    BY <1>1, <1>2 DEF Counters

LEMMA OutcomeType == DOMAIN Outcome = Events /\ \A e \in Events : Outcome[e] \in Statuses
  BY DEF Outcome, Events, Statuses

LEMMA GoesTo ==
    ASSUME TypeOK, NEW r \in Requests, NEW s, Goes(r, s)
    PROVE  /\ req'[r] = s
           /\ \A q \in Requests : q # r => req'[q] = req[q]
           /\ s \in States => req' \in [Requests -> States]
  BY DEF TypeOK, Goes

LEMMA InitType == Init => TypeOK
  <1> SUFFICES ASSUME Init PROVE TypeOK
    OBVIOUS
  <1>1. row \in Rows /\ fresh \in Counters
    BY DEF Init, NoRow, Rows, Counters
  <1>2. req \in [Requests -> States]
    BY DEF Init, States
  <1>3. subs \in Seq(Subs) /\ accepted \in Seq(Nat)
    BY DEF Init
  <1> QED
    BY <1>1, <1>2, <1>3 DEF Init, TypeOK

\* Save and Create.
LEMMA RegisterWriteType ==
    ASSUME TypeOK, NEW r \in Requests, RegisterWrite(r) PROVE TypeOK'
  <1> DEFINE u == req[r].user
             id == IF u.id = 0 THEN fresh.user + 1 ELSE u.id
             new == [u EXCEPT !.id = id]
  <1>1. u \in Rows /\ req[r].seen \in Rows
    BY SeenFields DEF TypeOK, RegisterWrite, At
  <1>2. id \in Nat /\ new \in Rows
    <2>1. id \in Nat
      BY <1>1, FreshType DEF Rows
    <2> HIDE DEF id, u
    <2> QED
      BY <1>1, <2>1, RowId
  <1>3. UNCHANGED <<sessions, subs, second, accepted, muddled, paid>>
    BY DEF RegisterWrite, payment
  <1>4. CASE Savable(u) /\ Written(r, new) /\ Goes(r, [at |-> "registerMail", seen |-> req[r].seen,
                                                      user |-> new])
             /\ fresh' = [fresh EXCEPT !.user = IF u.id = 0 THEN id ELSE @]
    <2>1. [at |-> "registerMail", seen |-> req[r].seen, user |-> new] \in States
      BY <1>1, <1>2 DEF States, Savers
    <2>2. fresh' \in Counters
      <3>1. fresh' = [fresh EXCEPT !.user = IF u.id = 0 THEN id ELSE fresh.user]
        BY <1>4
      <3> HIDE DEF u, id
      <3> QED
        BY <1>2, <3>1, FreshType
    <2> QED
      BY <1>2, <1>3, <1>4, <2>1, <2>2, GoesTo DEF TypeOK, Written
  <1>5. CASE Ends(r) /\ UNCHANGED <<row, stale, fresh>>
    BY <1>3, <1>5, GoesTo DEF TypeOK, Ends, States
  <1> QED
    BY <1>4, <1>5 DEF RegisterWrite

\* The handlers that save a row as read, with a change or two.
LEMMA SaveType ==
    ASSUME TypeOK, NEW r \in Requests, VerifySave(r) \/ UpdateSave(r) PROVE TypeOK'
  <1>1. req[r].user \in Rows
    BY SeenFields DEF TypeOK, VerifySave, UpdateSave, At
  <1>2. row' = req[r].user /\ stale' \in BOOLEAN
    BY DEF VerifySave, UpdateSave, Written
  <1>3. UNCHANGED <<sessions, subs, fresh, second, muddled, paid>>
    BY DEF VerifySave, UpdateSave, payment
  <1>4. CASE VerifySave(r)
    <2>1. req[r].code \in Nat
      BY <1>4, Shape DEF TypeOK, VerifySave, At, Verifiers
    <2>2. [at |-> "session", user |-> req[r].user.id, old |-> <<>>] \in States
      BY <1>1 DEF States, Openers, Rows
    <2>3. accepted' \in Seq(Nat)
      BY <1>4, <2>1 DEF TypeOK, VerifySave
    <2>4. req' \in [Requests -> States]
      BY <1>4, <2>2, GoesTo DEF VerifySave
    <2> QED
      BY <1>1, <1>2, <1>3, <2>3, <2>4 DEF TypeOK
  <1>5. CASE UpdateSave(r)
    <2>1. req' \in [Requests -> States]
      BY <1>5, GoesTo DEF UpdateSave, Ends, States
    <2> QED
      BY <1>1, <1>2, <1>3, <1>5, <2>1 DEF TypeOK, UpdateSave
  <1> QED
    BY <1>4, <1>5

\* The first steps of the requests that concern a row.
LEMMA ReadType ==
    ASSUME TypeOK, NEW r \in Requests,
           \/ \E pw \in Passwords : RegisterRead(r, pw) \/ LoginRead(r, pw)
           \/ \E code \in mailed : VerifyRead(r, code)
           \/ \E u \in 1..fresh.user :
                \/ NameRead(r, u)
                \/ \E current, pw \in Passwords : PasswordRead(r, u, current, pw)
    PROVE  TypeOK'
  <1>1. UNCHANGED <<row, sessions, subs, second, accepted, stale, muddled, paid>>
    BY DEF RegisterRead, LoginRead, VerifyRead, NameRead, PasswordRead, tables, account, payment
  <1>2. fresh' \in Counters
    <2>1. fresh' = fresh \/ fresh' = [fresh EXCEPT !.code = fresh.code + 1]
      BY DEF RegisterRead, LoginRead, VerifyRead, NameRead, PasswordRead
    <2> QED
      BY <2>1, FreshType DEF TypeOK
  <1>3. req' \in [Requests -> States]
    <2>1. ASSUME NEW s \in States, Goes(r, s) PROVE req' \in [Requests -> States]
      BY <2>1, GoesTo
    <2>2. CASE req' = req
      BY <2>2 DEF TypeOK
    <2>3. ASSUME NEW pw \in Passwords, RegisterRead(r, pw) PROVE req' \in [Requests -> States]
      <3>1. [at |-> "registerWrite", seen |-> row, user |-> Restarted(row, pw)] \in States
        <4>1. Restarted(row, pw) \in Rows
          BY RowRestarted, FreshType DEF TypeOK
        <4> QED
          BY <4>1 DEF TypeOK, States, Savers
      <3> QED
        BY <2>1, <2>2, <2>3, <3>1 DEF RegisterRead, Begins, Answered
    <2>4. ASSUME NEW pw \in Passwords, LoginRead(r, pw) PROVE req' \in [Requests -> States]
      <3>1. [at |-> "session", user |-> row.id, old |-> <<>>] \in States
        BY DEF TypeOK, States, Openers, Rows
      <3> QED
        BY <2>1, <2>2, <2>4, <3>1 DEF LoginRead, Begins, Answered
    <2>5. ASSUME NEW code \in mailed, VerifyRead(r, code) PROVE req' \in [Requests -> States]
      <3>1. ASSUME row.code = code
            PROVE  [at |-> "verifySave", seen |-> row, code |-> code,
                    user |-> [row EXCEPT !.verified = TRUE, !.code = 0]] \in States
        BY <3>1 DEF TypeOK, States, Verifiers, Rows
      <3> QED
        BY <2>1, <2>2, <2>5, <3>1 DEF VerifyRead, Begins, Answered
    <2>6. ASSUME NEW u \in 1..fresh.user, NameRead(r, u) PROVE req' \in [Requests -> States]
      <3>1. [at |-> "updateSave", seen |-> row, user |-> row] \in States
        BY DEF TypeOK, States, Savers
      <3> QED
        BY <2>1, <2>2, <2>6, <3>1 DEF NameRead, Begins, Answered
    <2>7. ASSUME NEW u \in 1..fresh.user, NEW current \in Passwords, NEW pw \in Passwords,
                 PasswordRead(r, u, current, pw)
          PROVE  req' \in [Requests -> States]
      <3>1. [at |-> "updateSave", seen |-> row, user |-> [row EXCEPT !.pw = pw]] \in States
        BY DEF TypeOK, States, Savers, Rows
      <3> QED
        BY <2>1, <2>2, <2>7, <3>1 DEF PasswordRead, Begins, Answered
    <2> QED
      BY <2>3, <2>4, <2>5, <2>6, <2>7
  <1> QED
    BY <1>1, <1>2, <1>3 DEF TypeOK

\* Sessions, and the deletion of a user.
LEMMA SessionType ==
    ASSUME TypeOK, NEW r \in Requests,
           \/ \E t \in issued : RefreshRead(r, t) \/ Logout(r, t)
           \/ \E u \in 1..fresh.user : DeleteSessions(r, u)
           \/ RegisterMail(r) \/ OpenSession(r) \/ RefreshUser(r) \/ RefreshDelete(r) \/ DeleteUser(r)
    PROVE  TypeOK'
  <1> USE DEF DeletesUser
  <1>1. UNCHANGED <<subs, accepted, stale, muddled, paid, second>>
    BY DEF RefreshRead, Logout, DeleteSessions, RegisterMail, OpenSession, RefreshUser, RefreshDelete,
           DeleteUser, tables, account, payment
  <1>2. row' \in Rows
    <2>1. row' = row \/ row' = NoRow
      BY DEF RefreshRead, Logout, DeleteSessions, RegisterMail, OpenSession, RefreshUser,
             RefreshDelete, DeleteUser, tables
    <2>2. NoRow \in Rows
      BY DEF NoRow, Rows
    <2> QED
      BY <2>1, <2>2 DEF TypeOK
  <1>3. /\ fresh' \in Counters
        /\ sessions' \subseteq Sessions
    <2>1. CASE OpenSession(r)
      <3>1. req[r].user \in Nat
        BY <2>1, Shape DEF TypeOK, OpenSession, At, Openers
      <3>2. [sid |-> fresh.session + 1, user |-> req[r].user, token |-> Token(req[r].user)]
              \in Sessions
        BY <3>1, FreshType DEF TypeOK, Sessions, Token
      <3>3. fresh' \in Counters
        BY <2>1, FreshType DEF OpenSession
      <3> QED
        BY <2>1, <3>2, <3>3 DEF TypeOK, OpenSession
    <2>2. CASE ~OpenSession(r)
      BY <2>2
      DEF TypeOK, RefreshRead, Logout, DeleteSessions, RegisterMail, RefreshUser, RefreshDelete,
          DeleteUser, tables
    <2> QED
      BY <2>1, <2>2
  <1>4. req' \in [Requests -> States]
    <2>1. ASSUME NEW s \in States, Goes(r, s) PROVE req' \in [Requests -> States]
      BY <2>1, GoesTo
    <2>2. CASE req' = req
      BY <2>2 DEF TypeOK
    <2>3. CASE Ends(r)
      BY <2>1, <2>3 DEF Ends, States
    <2>4. ASSUME NEW t, RefreshRead(r, t) PROVE req' \in [Requests -> States]
      <3>1. ASSUME NEW s \in sessions PROVE [at |-> "refreshUser", session |-> s] \in States
        BY DEF TypeOK, States, Refreshers
      <3> QED
        BY <2>1, <2>2, <2>4, <3>1 DEF RefreshRead, Begins, Answered
    <2>5. ASSUME NEW u \in 1..fresh.user, DeleteSessions(r, u) PROVE req' \in [Requests -> States]
      <3>1. [at |-> "deleteUser", user |-> u] \in States
        BY DEF TypeOK, States, Deleters
      <3> QED
        BY <2>1, <2>5, <3>1 DEF DeleteSessions, Begins
    <2>6. CASE RefreshUser(r) \/ RefreshDelete(r)
      <3>1. req[r] \in Refreshers
        BY <2>6, Shape DEF TypeOK, RefreshUser, RefreshDelete, At
      <3>2. [req[r] EXCEPT !.at = "refreshDelete"] \in States
        BY <3>1 DEF States, Refreshers
      <3>3. [at |-> "session", user |-> req[r].session.user, old |-> req[r].session.token] \in States
        BY <3>1 DEF States, Refreshers, Openers, Sessions
      <3> QED
        BY <2>1, <2>3, <2>6, <3>2, <3>3 DEF RefreshUser, RefreshDelete
    <2> QED
      BY <2>2, <2>3, <2>4, <2>5, <2>6 DEF Logout, RegisterMail, OpenSession, DeleteUser
  <1> QED
    BY <1>1, <1>2, <1>3, <1>4 DEF TypeOK

LEMMA HookType ==
    ASSUME TypeOK, NEW r \in Requests,
           \/ \E l \in Lavas : PaymentSuccess(r, l)
           \/ \E l \in Lavas, event \in DOMAIN Outcome : HookRead(r, l, event)
           \/ HookSave(r) \/ Abandon(r)
    PROVE  TypeOK'
  <1>1. UNCHANGED <<row, sessions, fresh, second, accepted, stale>>
    BY DEF PaymentSuccess, HookRead, HookSave, Abandon, tables, account
  <1>2. CASE \E l \in Lavas : PaymentSuccess(r, l)
    <2>1. PICK l \in Lavas : PaymentSuccess(r, l)
      BY <1>2
    <2>2. /\ subs' \in Seq(Subs)
          /\ paid' \in [Lavas -> Statuses \cup {"none"}]
      <3> DEFINE e == [lava |-> l, status |-> "active"]
      <3>1. e \in Subs
        BY DEF Subs, Statuses
      <3>2. subs' = subs \/ subs' = Append(subs, e)
        BY <2>1 DEF PaymentSuccess
      <3> HIDE DEF e
      <3>3. subs' \in Seq(Subs)
        BY <3>1, <3>2 DEF TypeOK
      <3> QED
        BY <2>1, <3>3 DEF TypeOK, PaymentSuccess, Statuses
    <2> QED
      BY <1>1, <2>1, <2>2 DEF TypeOK, PaymentSuccess
  <1>3. CASE \E l \in Lavas, event \in DOMAIN Outcome : HookRead(r, l, event)
    <2>1. PICK l \in Lavas, event \in Events : HookRead(r, l, event)
      BY <1>3, OutcomeType
    <2>2. UNCHANGED subs
      BY <2>1 DEF HookRead, tables
    <2>3. CASE Answered /\ UNCHANGED payment
      BY <1>1, <2>2, <2>3 DEF TypeOK, Answered, payment
    <2>4. ASSUME NEW i \in DOMAIN subs, Goes(r, [at |-> "hookSave", sub |-> i, event |-> event]),
                 paid' = [paid EXCEPT ![l] = Outcome[event]], muddled' \in BOOLEAN
          PROVE  TypeOK'
      <3>1. [at |-> "hookSave", sub |-> i, event |-> event] \in States
        BY DEF TypeOK, States, Hooks
      <3>2. paid' \in [Lavas -> Statuses \cup {"none"}]
        BY <2>4, OutcomeType DEF TypeOK
      <3> QED
        BY <1>1, <2>2, <2>4, <3>1, <3>2, GoesTo DEF TypeOK
    <2> QED
      BY <2>1, <2>3, <2>4 DEF HookRead, Begins
  <1>4. CASE HookSave(r)
    <2>1. req[r].sub \in Nat /\ req[r].event \in Events
      BY <1>4, Shape DEF TypeOK, HookSave, At, Hooks
    <2>2. Outcome[req[r].event] \in Statuses
      BY <2>1, OutcomeType
    <2>3. subs' \in Seq(Subs)
      <3>1. subs \in [1..Len(subs) -> Subs] /\ Len(subs) \in Nat
        BY DEF TypeOK
      <3>2. ASSUME NEW e \in Subs, NEW x \in Statuses PROVE [e EXCEPT !.status = x] \in Subs
        BY DEF Subs
      <3>3. subs' \in [1..Len(subs) -> Subs]
        BY <1>4, <2>2, <3>1, <3>2 DEF HookSave
      <3> QED
        BY <3>1, <3>3
    <2> QED
      BY <1>1, <1>4, <2>3, GoesTo DEF TypeOK, HookSave, Ends, States, payment
  <1>5. CASE Abandon(r)
    BY <1>1, <1>5, GoesTo DEF TypeOK, Abandon, Ends, States, tables
  <1> QED
    BY <1>2, <1>3, <1>4, <1>5

LEMMA NextType == TypeOK /\ [Next]_vars => TypeOK'
  <1> SUFFICES ASSUME TypeOK, [Next]_vars PROVE TypeOK'
    OBVIOUS
  <1>1. CASE Expire \/ Tick
    BY <1>1 DEF TypeOK, Expire, Tick, tables, account, payment
  <1>2. CASE UNCHANGED vars
    BY <1>2 DEF TypeOK, vars, tables, account, payment
  <1> QED
    BY <1>1, <1>2, RegisterWriteType, SaveType, ReadType, SessionType, HookType DEF Next

-----------------------------------------------------------------------------
(* Refresh tokens *)

Refreshing(r) == At(r, "refreshUser") \/ At(r, "refreshDelete")

\* Two sessions with one token mean that it was issued twice, also when one of them
\* is only known to a Refresh that has read it; and a Refresh that has deleted its
\* session left no other one with its token.
TokensInv ==
    /\ \A s \in sessions : s.token \in issued
    /\ spent \subseteq issued
    /\ \A s, t \in sessions : s.token = t.token /\ s # t => s.token \in reissued
    /\ \A r \in Requests : Refreshing(r) =>
         /\ req[r].session.token \in issued
         /\ \A s \in sessions :
              s.token = req[r].session.token /\ s # req[r].session => s.token \in reissued
    /\ \A r \in Requests : At(r, "session") /\ req[r].old # <<>> =>
         /\ req[r].old \in issued
         /\ \A s \in sessions : s.token = req[r].old => s.token \in reissued \cup undeleted
    /\ SpentTokensGone

\* Steps that create no session, give out no token and are not a Refresh's.
LEMMA TokensQuiet ==
    ASSUME TokensInv, sessions' \subseteq sessions, UNCHANGED tokens,
           \A q \in Requests : \/ req'[q] = req[q]
                               \/ /\ req'[q].at \notin {"refreshUser", "refreshDelete"}
                                  /\ req'[q].at = "session" => req'[q].old = <<>>
    PROVE  TokensInv'
  BY DEF TokensInv, SpentTokensGone, Refreshing, At, tokens

\* The same for a step of goroutine r.
LEMMA TokensGoes ==
    ASSUME TypeOK, TokensInv, sessions' \subseteq sessions, UNCHANGED tokens, NEW r \in Requests,
           NEW s, Goes(r, s), s.at \notin {"refreshUser", "refreshDelete"},
           s.at = "session" => s.old = <<>>
    PROVE  TokensInv'
  BY TokensQuiet, GoesTo

LEMMA TokensEnds ==
    ASSUME TypeOK, TokensInv, sessions' \subseteq sessions, UNCHANGED tokens, NEW r \in Requests,
           Ends(r)
    PROVE  TokensInv'
  BY TokensGoes DEF Ends, Idle

LEMMA TokensStays ==
    ASSUME TokensInv, sessions' \subseteq sessions, UNCHANGED tokens, UNCHANGED req
    PROVE  TokensInv'
  BY TokensQuiet

LEMMA TokensRows ==
    ASSUME TypeOK, TokensInv, NEW r \in Requests,
           \/ \E pw \in Passwords : RegisterRead(r, pw) \/ LoginRead(r, pw)
           \/ \E code \in mailed : VerifyRead(r, code)
           \/ \E u \in 1..fresh.user :
                \/ NameRead(r, u)
                \/ \E current, pw \in Passwords : PasswordRead(r, u, current, pw)
                \/ DeleteSessions(r, u)
           \/ RegisterWrite(r) \/ RegisterMail(r) \/ VerifySave(r) \/ UpdateSave(r) \/ DeleteUser(r)
    PROVE  TokensInv'
  <1>1. sessions' \subseteq sessions /\ UNCHANGED tokens
    BY DEF RegisterRead, LoginRead, VerifyRead, NameRead, PasswordRead, DeleteSessions, RegisterWrite,
           RegisterMail, VerifySave, UpdateSave, DeleteUser, DeletesUser, tables
  <1>2. ASSUME NEW s, Goes(r, s), s.at \notin {"refreshUser", "refreshDelete"},
               s.at = "session" => s.old = <<>>
        PROVE  TokensInv'
    BY <1>1, <1>2, TokensGoes
  <1>3. CASE UNCHANGED req
    BY <1>1, <1>3, TokensStays
  <1>4. CASE Ends(r)
    BY <1>1, <1>4, TokensEnds
  <1>5. CASE \E pw \in Passwords : RegisterRead(r, pw) \/ LoginRead(r, pw)
    BY <1>2, <1>3, <1>5 DEF RegisterRead, LoginRead, Answered, Begins
  <1>6. CASE \E code \in mailed : VerifyRead(r, code)
    BY <1>2, <1>3, <1>6 DEF VerifyRead, Answered, Begins
  <1>7. ASSUME NEW u \in 1..fresh.user,
               \/ NameRead(r, u)
               \/ \E current, pw \in Passwords : PasswordRead(r, u, current, pw)
               \/ DeleteSessions(r, u)
        PROVE  TokensInv'
    BY <1>2, <1>3, <1>7 DEF NameRead, PasswordRead, DeleteSessions, Answered, Begins
  <1>8. CASE RegisterWrite(r) \/ VerifySave(r)
    BY <1>2, <1>4, <1>8 DEF RegisterWrite, VerifySave
  <1>9. CASE RegisterMail(r) \/ UpdateSave(r) \/ DeleteUser(r)
    BY <1>4, <1>9 DEF RegisterMail, UpdateSave, DeleteUser
  <1> QED
    BY <1>5, <1>6, <1>7, <1>8, <1>9

LEMMA TokensHooks ==
    ASSUME TypeOK, TokensInv, NEW r \in Requests,
           \/ \E l \in Lavas : PaymentSuccess(r, l)
           \/ \E l \in Lavas, event \in DOMAIN Outcome : HookRead(r, l, event)
           \/ HookSave(r) \/ Abandon(r)
    PROVE  TokensInv'
  <1>1. sessions' \subseteq sessions /\ UNCHANGED tokens
    BY DEF PaymentSuccess, HookRead, HookSave, Abandon, tables
  <1>2. ASSUME NEW s, Goes(r, s), s.at = "hookSave" PROVE TokensInv'
    BY <1>1, <1>2, TokensGoes
  <1>3. CASE UNCHANGED req
    BY <1>1, <1>3, TokensStays
  <1>4. CASE HookSave(r) \/ Abandon(r)
    BY <1>1, <1>4, TokensEnds DEF HookSave, Abandon
  <1>5. ASSUME NEW l \in Lavas, NEW event \in DOMAIN Outcome, HookRead(r, l, event)
        PROVE  TokensInv'
    BY <1>2, <1>3, <1>5 DEF HookRead, Answered, Begins
  <1> QED
    BY <1>3, <1>4, <1>5 DEF PaymentSuccess

\* Refresh reads a session and its user.
LEMMA TokensRefreshRead ==
    ASSUME TypeOK, TokensInv, NEW r \in Requests, NEW t \in issued, RefreshRead(r, t)
    PROVE  TokensInv'
  <1>1. UNCHANGED tokens /\ sessions' \subseteq sessions
    BY DEF RefreshRead
  <1>2. CASE UNCHANGED req
    BY <1>1, <1>2, TokensStays
  <1>3. CASE \E s \in sessions : /\ Goes(r, [at |-> "refreshUser", session |-> s])
                                 /\ UNCHANGED sessions
    <2>1. PICK s \in sessions : Goes(r, [at |-> "refreshUser", session |-> s])
      BY <1>3
    <2>2. /\ req'[r].at = "refreshUser" /\ req'[r].session = s
          /\ \A q \in Requests : q # r => req'[q] = req[q]
      BY <2>1, GoesTo
    <2> QED
      BY <1>1, <1>3, <2>2 DEF TokensInv, SpentTokensGone, Refreshing, At, tokens
  <1> QED
    BY <1>2, <1>3 DEF RefreshRead, Begins, Answered

LEMMA TokensRefreshUser ==
    ASSUME TypeOK, TokensInv, NEW r \in Requests, RefreshUser(r)
    PROVE  TokensInv'
  <1>1. UNCHANGED tokens /\ UNCHANGED sessions
    BY DEF RefreshUser, tables
  <1>2. CASE Ends(r)
    BY <1>1, <1>2, TokensEnds
  <1>3. CASE Goes(r, [req[r] EXCEPT !.at = "refreshDelete"])
    <2>1. req[r] \in Refreshers /\ Refreshing(r)
      BY Shape DEF TypeOK, RefreshUser, Refreshing, At
    <2>2. /\ req'[r].at = "refreshDelete" /\ req'[r].session = req[r].session
          /\ \A q \in Requests : q # r => req'[q] = req[q]
      BY <1>3, <2>1, GoesTo DEF Refreshers
    <2> QED
      BY <1>1, <2>1, <2>2 DEF TokensInv, SpentTokensGone, Refreshing, At, tokens
  <1> QED
    BY <1>2, <1>3 DEF RefreshUser

\* It deletes the session, or fails to.
LEMMA TokensRefreshDelete ==
    ASSUME TypeOK, TokensInv, NEW r \in Requests, RefreshDelete(r)
    PROVE  TokensInv'
  <1> DEFINE s == req[r].session
  <1>1. Refreshing(r)
    BY DEF RefreshDelete, Refreshing
  <1>2. /\ req'[r].at = "session" /\ req'[r].old = s.token
        /\ \A q \in Requests : q # r => req'[q] = req[q]
    BY GoesTo DEF RefreshDelete
  <1>3. UNCHANGED <<issued, reissued, spent>> /\ undeleted \subseteq undeleted'
    BY DEF RefreshDelete
  <1>4. \/ sessions' = sessions \ {s}
        \/ sessions' = sessions /\ s.token \in undeleted'
    BY DEF RefreshDelete
  <1> HIDE DEF s
  <1>5. s.token \in issued /\ \A t \in sessions : t.token = s.token /\ t # s => t.token \in reissued
    BY <1>1 DEF TokensInv, s
  <1>6. \A t \in sessions' : t.token = s.token => t.token \in reissued' \cup undeleted'
    BY <1>3, <1>4, <1>5
  <1>7. sessions' \subseteq sessions
    BY <1>4
  <1> QED
    BY <1>2, <1>3, <1>5, <1>6, <1>7 DEF TokensInv, SpentTokensGone, Refreshing, At

LEMMA TokensOpenSession ==
    ASSUME TypeOK, TokensInv, NEW r \in Requests, OpenSession(r)
    PROVE  TokensInv'
  <1> DEFINE t == Token(req[r].user)
             n == [sid |-> fresh.session + 1, user |-> req[r].user, token |-> t]
  <1>1. /\ sessions' = sessions \cup {n} /\ n.token = t
        /\ issued' = issued \cup {t} /\ reissued' = reissued \cup ({t} \cap issued)
        /\ spent' = IF req[r].old = <<>> THEN spent ELSE spent \cup {req[r].old}
        /\ At(r, "session") /\ UNCHANGED undeleted
    BY DEF OpenSession
  <1>2. req'[r].at = "idle" /\ \A q \in Requests : q # r => req'[q] = req[q]
    BY GoesTo DEF OpenSession, Ends, Idle
  <1> HIDE DEF t, n
  <1>3. t \in issued => t \in reissued'
    BY <1>1
  <1>4. spent' \subseteq issued
    BY <1>1 DEF TokensInv
  <1>5. SpentTokensGone'
    <2> SUFFICES ASSUME NEW s \in sessions', s.token \in spent'
                 PROVE  s.token \in reissued' \/ s.token \in undeleted'
      BY DEF SpentTokensGone
    <2>1. CASE s = n
      BY <1>1, <1>3, <1>4, <2>1
    <2>2. CASE s \in sessions
      BY <1>1, <2>2 DEF TokensInv, SpentTokensGone
    <2> QED
      BY <1>1, <2>1, <2>2
  <1>6. \A s \in sessions' : s.token \in issued'
    BY <1>1 DEF TokensInv
  <1>7. \A s, v \in sessions' : s.token = v.token /\ s # v => s.token \in reissued'
    BY <1>1, <1>3 DEF TokensInv
  <1>8. ASSUME NEW q \in Requests, Refreshing(q)'
        PROVE  /\ req'[q].session.token \in issued'
               /\ \A s \in sessions' :
                    s.token = req'[q].session.token /\ s # req'[q].session => s.token \in reissued'
    <2>1. req'[q] = req[q] /\ Refreshing(q)
      BY <1>2, <1>8 DEF Refreshing, At
    <2> QED
      BY <1>1, <1>3, <2>1 DEF TokensInv
  <1>9. ASSUME NEW q \in Requests, At(q, "session")', req'[q].old # <<>>
        PROVE  /\ req'[q].old \in issued'
               /\ \A s \in sessions' :
                    s.token = req'[q].old => s.token \in reissued' \cup undeleted'
    <2>1. req'[q] = req[q] /\ At(q, "session")
      BY <1>2, <1>9 DEF At
    <2>2. /\ req[q].old \in issued
          /\ \A s \in sessions : s.token = req[q].old => s.token \in reissued \cup undeleted
      BY <1>9, <2>1 DEF TokensInv
    <2> QED
      BY <1>1, <1>3, <2>1, <2>2
  <1> QED
    BY <1>1, <1>4, <1>5, <1>6, <1>7, <1>8, <1>9 DEF TokensInv

LEMMA TokensLogout ==
    ASSUME TokensInv, NEW r \in Requests, NEW t \in issued, Logout(r, t)
    PROVE  TokensInv'
  BY DEF TokensInv, SpentTokensGone, Refreshing, At, Logout

LEMMA NextTokens == TypeOK /\ TokensInv /\ [Next]_vars => TokensInv'
  <1> SUFFICES ASSUME TypeOK, TokensInv, [Next]_vars PROVE TokensInv'
    OBVIOUS
  <1>1. CASE Expire \/ Tick \/ UNCHANGED vars
    BY <1>1, TokensStays DEF Expire, Tick, vars, tables
  <1> QED
    BY <1>1, TokensRows, TokensHooks, TokensRefreshRead, TokensRefreshUser, TokensRefreshDelete,
       TokensOpenSession, TokensLogout DEF Next

\* A refresh token that was spent opens no session any more.
THEOREM SpentTokens == Spec => []SpentTokensGone
  <1>1. Init => TypeOK /\ TokensInv
    BY InitType DEF Init, TokensInv, SpentTokensGone, Refreshing, At, Idle
  <1>2. TypeOK /\ TokensInv /\ [Next]_vars => TypeOK' /\ TokensInv'
    BY NextType, NextTokens
  <1>3. TokensInv => SpentTokensGone
    BY DEF TokensInv
  <1> QED
    BY <1>1, <1>2, <1>3, PTL DEF Spec

-----------------------------------------------------------------------------
(* The row of the address *)

\* A user that is not verified has a code.
RowOK(u) ==
    /\ u.id = 0 => ~u.verified
    /\ u.id # 0 /\ ~u.verified => u.code # 0

\* What a handler is about to write, compared with what it has read.
Prepared(s) ==
    /\ s.at = "registerWrite" => /\ ~s.seen.verified /\ ~s.user.verified
                                 /\ s.user.id = s.seen.id /\ s.user.code # 0
    /\ s.at = "registerMail" => ~s.seen.verified
    /\ s.at = "verifySave" => /\ s.seen.id # 0 /\ ~s.seen.verified
                              /\ s.seen.code = s.code /\ s.code # 0
                              /\ s.user.id = s.seen.id /\ s.user.pw = s.seen.pw
                              /\ s.user.verified /\ s.user.code = 0
    /\ s.at = "updateSave" => /\ RowOK(s.seen) /\ s.seen.id # 0
                              /\ s.user.id = s.seen.id /\ s.user.verified = s.seen.verified
                              /\ s.user.code = s.seen.code

RowsInv == RowOK(row) /\ \A r \in Requests : Prepared(req[r])

\* As long as nobody wrote over a change: no code is in two places, the codes
\* accepted so far, the row and the handlers of Register that will still write one.
SerialInv ==
    ~stale =>
        /\ IsInjective(accepted)
        /\ row.id # 0 => row.pw = wanted
        /\ row.code <= fresh.code
        /\ \A i \in DOMAIN accepted : accepted[i] <= fresh.code /\ accepted[i] # row.code
        /\ \A r \in Requests : At(r, "registerWrite") =>
             /\ req[r].user.code <= fresh.code
             /\ req[r].user.code # row.code
             /\ \A i \in DOMAIN accepted : accepted[i] # req[r].user.code
             /\ \A q \in Requests : At(q, "registerWrite") /\ q # r =>
                  req[q].user.code # req[r].user.code

\* Codes are never zero, so a row without one has none of those.
AcceptedInv == \A i \in DOMAIN accepted : accepted[i] # 0

AddressInv == RowsInv /\ SerialInv /\ AcceptedInv

\* Steps that leave the row alone or delete it, give out no code and prepare no
\* registration.
LEMMA AddressQuiet ==
    ASSUME TypeOK, AddressInv, row' \in {row, NoRow}, UNCHANGED <<accepted, wanted, stale>>,
           fresh'.code = fresh.code,
           \A q \in Requests : \/ req'[q] = req[q]
                               \/ Prepared(req'[q]) /\ req'[q].at # "registerWrite"
    PROVE  AddressInv'
  <1>1. RowsInv'
    BY DEF AddressInv, RowsInv, RowOK, NoRow
  <1>2. \A q \in Requests : At(q, "registerWrite")' => req'[q] = req[q] /\ req[q].user.code # 0
    BY DEF AddressInv, RowsInv, Prepared, At
  <1>3. row' = row \/ (row'.id = 0 /\ row'.code = 0)
    BY DEF NoRow
  <1>4. fresh.code \in Nat
    BY FreshType
  <1>5. SerialInv'
    <2> SUFFICES ASSUME ~stale' PROVE SerialInv'
      BY DEF SerialInv
    <2> QED
      BY <1>2, <1>3, <1>4 DEF AddressInv, SerialInv, AcceptedInv, At
  <1> QED
    BY <1>1, <1>5 DEF AddressInv, AcceptedInv

LEMMA AddressGoes ==
    ASSUME TypeOK, AddressInv, row' \in {row, NoRow}, UNCHANGED <<accepted, wanted, stale>>,
           fresh'.code = fresh.code, NEW r \in Requests, NEW s, Goes(r, s), Prepared(s),
           s.at # "registerWrite"
    PROVE  AddressInv'
  BY AddressQuiet, GoesTo

LEMMA AddressStays ==
    ASSUME TypeOK, AddressInv, row' \in {row, NoRow}, UNCHANGED <<accepted, wanted, stale>>,
           fresh'.code = fresh.code, UNCHANGED req
    PROVE  AddressInv'
  BY AddressQuiet

LEMMA AddressEnds ==
    ASSUME TypeOK, AddressInv, row' \in {row, NoRow}, UNCHANGED <<accepted, wanted, stale>>,
           fresh'.code = fresh.code, NEW r \in Requests, Ends(r)
    PROVE  AddressInv'
  <1>1. Prepared(Idle) /\ Idle.at # "registerWrite"
    BY DEF Prepared, Idle
  <1> QED
    BY <1>1, AddressGoes DEF Ends

\* Register prepares a code that was never used.
LEMMA AddressRegisterRead ==
    ASSUME TypeOK, AddressInv, NEW r \in Requests, NEW pw \in Passwords, RegisterRead(r, pw)
    PROVE  AddressInv'
  <1>1. UNCHANGED <<row, accepted, wanted, stale>>
    BY DEF RegisterRead, tables, account
  <1>2. CASE Answered /\ UNCHANGED fresh
    BY <1>1, <1>2, AddressStays DEF Answered
  <1>3. CASE /\ row.id = 0 \/ ~row.verified
             /\ fresh' = [fresh EXCEPT !.code = @ + 1]
             /\ Goes(r, [at |-> "registerWrite", seen |-> row, user |-> Restarted(row, pw)])
    <2> DEFINE new == Restarted(row, pw)
    <2>1. /\ req'[r].at = "registerWrite" /\ req'[r].seen = row /\ req'[r].user = new
          /\ \A q \in Requests : q # r => req'[q] = req[q]
      BY <1>3, GoesTo
    <2>2. new.id = row.id /\ ~new.verified /\ new.code = fresh.code + 1
      BY RowRestarted, FreshType DEF TypeOK
    <2>3. fresh.code \in Nat /\ fresh'.code = fresh.code + 1
      <3>1. fresh' = [fresh EXCEPT !.code = fresh.code + 1]
        BY <1>3
      <3> QED
        BY <3>1, FreshType
    <2> HIDE DEF new
    <2>4. ~row.verified
      BY <1>3 DEF AddressInv, RowsInv, RowOK
    <2>5. Prepared(req'[r])
      BY <2>1, <2>2, <2>3, <2>4 DEF Prepared
    <2>6. RowsInv'
      BY <1>1, <2>1, <2>5 DEF AddressInv, RowsInv
    <2>7. ASSUME ~stale' PROVE SerialInv'
      <3>1. row.code \in Nat /\ \A i \in DOMAIN accepted : accepted[i] \in Nat
        BY DEF TypeOK, Rows
      <3>2. \A q \in Requests : At(q, "registerWrite") => req[q].user.code \in Nat
        BY SeenFields DEF TypeOK, At, Rows
      <3> QED
        BY <1>1, <2>1, <2>2, <2>3, <2>7, <3>1, <3>2 DEF AddressInv, SerialInv, At
    <2>8. SerialInv'
      BY <2>7 DEF SerialInv
    <2> QED
      BY <1>1, <2>6, <2>8 DEF AddressInv, AcceptedInv
  <1> QED
    BY <1>2, <1>3 DEF RegisterRead, Begins

\* Save or Create of a registration.
LEMMA AddressRegisterWrite ==
    ASSUME TypeOK, AddressInv, NEW r \in Requests, RegisterWrite(r)
    PROVE  AddressInv'
  <1> DEFINE u == req[r].user
             id == IF u.id = 0 THEN fresh.user + 1 ELSE u.id
             new == [u EXCEPT !.id = id]
  <1>1. At(r, "registerWrite") /\ u \in Rows /\ req[r].seen \in Rows
    BY SeenFields DEF TypeOK, RegisterWrite, At
  <1>2. CASE Ends(r) /\ UNCHANGED <<row, wanted, stale, fresh>>
    BY <1>2, AddressEnds DEF RegisterWrite
  <1>3. CASE /\ Written(r, new)
             /\ wanted' = u.pw
             /\ fresh' = [fresh EXCEPT !.user = IF u.id = 0 THEN id ELSE @]
             /\ Goes(r, [at |-> "registerMail", seen |-> req[r].seen, user |-> new])
    <2>1. id \in Nat \ {0}
      BY <1>1, FreshType DEF Rows
    <2>2. fresh.code \in Nat /\ fresh'.code = fresh.code
      <3>1. fresh' = [fresh EXCEPT !.user = IF u.id = 0 THEN id ELSE fresh.user]
        BY <1>3
      <3> HIDE DEF u, id
      <3> QED
        BY <2>1, <3>1, FreshType
    <2>3. /\ req'[r].at = "registerMail" /\ req'[r].seen = req[r].seen
          /\ \A q \in Requests : q # r => req'[q] = req[q]
      BY <1>3, GoesTo
    <2>4. row' = new /\ (~stale' => ~stale /\ row = req[r].seen) /\ accepted' = accepted /\ wanted' = u.pw
      BY <1>3 DEF Written, RegisterWrite
    <2>5. new.id = id /\ new.pw = u.pw /\ new.verified = u.verified /\ new.code = u.code
      <3> HIDE DEF id, u
      <3> QED
        BY <1>1, <2>1, RowId
    <2> HIDE DEF new, id
    <2>6. ~req[r].seen.verified /\ ~u.verified /\ u.code # 0
      BY <1>1 DEF AddressInv, RowsInv, Prepared, At
    <2> HIDE DEF u
    <2>7. RowsInv'
      BY <2>1, <2>3, <2>4, <2>5, <2>6 DEF AddressInv, RowsInv, RowOK, Prepared
    <2>8. ASSUME ~stale' PROVE SerialInv'
      <3>1. /\ ~stale
            /\ u.code <= fresh.code
            /\ \A i \in DOMAIN accepted : accepted[i] # u.code
            /\ \A q \in Requests : At(q, "registerWrite") /\ q # r => req[q].user.code # u.code
        BY <1>1, <2>4, <2>8 DEF AddressInv, SerialInv, u
      <3>2. \A q \in Requests : At(q, "registerWrite")' => q # r /\ At(q, "registerWrite") /\ req'[q] = req[q]
        BY <2>3 DEF At
      <3> QED
        BY <2>2, <2>4, <2>5, <2>8, <3>1, <3>2 DEF AddressInv, SerialInv
    <2>9. SerialInv'
      BY <2>8 DEF SerialInv
    <2> QED
      BY <2>4, <2>7, <2>9 DEF AddressInv, AcceptedInv
  <1> QED
    BY <1>2, <1>3 DEF RegisterWrite

\* A code that is accepted leaves the row.
LEMMA AddressVerifySave ==
    ASSUME TypeOK, AddressInv, NEW r \in Requests, VerifySave(r)
    PROVE  AddressInv'
  <1> DEFINE u == req[r].user
             code == req[r].code
             seen == req[r].seen
  <1>1. At(r, "verifySave") /\ u \in Rows /\ code \in Nat /\ code # 0
    <2>1. req[r] \in Verifiers
      BY Shape DEF TypeOK, VerifySave, At
    <2> QED
      BY <2>1 DEF VerifySave, At, Verifiers, AddressInv, RowsInv, Prepared
  <1>2. /\ row' = u /\ accepted' = Append(accepted, code) /\ UNCHANGED <<wanted, fresh>>
        /\ ~stale' => ~stale /\ row = seen
    BY DEF VerifySave, Written
  <1>3. req'[r].at = "session" /\ \A q \in Requests : q # r => req'[q] = req[q]
    BY GoesTo DEF VerifySave
  <1>4. /\ seen.id # 0 /\ seen.code = code /\ u.pw = seen.pw
        /\ u.id # 0 /\ u.verified /\ u.code = 0
    BY <1>1 DEF AddressInv, RowsInv, Prepared, At
  <1> HIDE DEF u, code, seen
  <1>5. RowsInv'
    BY <1>2, <1>3, <1>4 DEF AddressInv, RowsInv, RowOK, Prepared
  <1>6. accepted \in Seq(Nat) /\ fresh.code \in Nat
    BY FreshType DEF TypeOK
  <1>7. /\ DOMAIN accepted' = 1 .. Len(accepted) + 1 /\ DOMAIN accepted = 1 .. Len(accepted)
        /\ accepted'[Len(accepted) + 1] = code
        /\ \A i \in DOMAIN accepted : accepted'[i] = accepted[i]
        /\ Len(accepted) \in Nat
    BY <1>1, <1>2, <1>6
  <1>8. \A i \in DOMAIN accepted' : i \in DOMAIN accepted \/ i = Len(accepted) + 1
    BY <1>7
  <1>9. AcceptedInv'
    BY <1>1, <1>7, <1>8 DEF AddressInv, AcceptedInv
  <1>10. ASSUME ~stale' PROVE SerialInv'
    <2>1. ~stale /\ row = seen /\ SerialInv
      BY <1>2, <1>10 DEF AddressInv
    <2>2. code <= fresh.code /\ \A i \in DOMAIN accepted : accepted[i] # code
      BY <1>4, <2>1 DEF SerialInv
    <2>3. IsInjective(accepted')
      BY <1>7, <1>8, <2>1, <2>2 DEF SerialInv, IsInjective
    <2>4. row'.pw = wanted' /\ row'.code = 0
      BY <1>2, <1>4, <2>1 DEF SerialInv
    <2>5. \A i \in DOMAIN accepted' : accepted'[i] <= fresh'.code /\ accepted'[i] # row'.code
      <3>1. \A i \in DOMAIN accepted' : accepted'[i] <= fresh'.code
        BY <1>2, <1>7, <1>8, <2>1, <2>2 DEF SerialInv
      <3> QED
        BY <3>1, <1>9, <2>4 DEF AcceptedInv
    <2>6. ASSUME NEW q \in Requests, At(q, "registerWrite")'
          PROVE  /\ req'[q].user.code <= fresh'.code
                 /\ req'[q].user.code # row'.code
                 /\ \A i \in DOMAIN accepted' : accepted'[i] # req'[q].user.code
                 /\ \A p \in Requests : At(p, "registerWrite")' /\ p # q =>
                      req'[p].user.code # req'[q].user.code
      <3>1. q # r /\ req'[q] = req[q] /\ At(q, "registerWrite")
        BY <1>3, <2>6 DEF At
      <3>2. \A p \in Requests : At(p, "registerWrite")' => req'[p] = req[p] /\ At(p, "registerWrite")
        BY <1>3 DEF At
      <3>3. req[q].user.code # 0
        BY <3>1 DEF AddressInv, RowsInv, Prepared, At
      <3>4. req[q].user.code # code
        BY <1>4, <2>1, <3>1 DEF SerialInv
      <3>5. \A i \in DOMAIN accepted' : accepted'[i] # req[q].user.code
        BY <1>7, <1>8, <2>1, <3>1, <3>4 DEF SerialInv
      <3> QED
        BY <1>2, <2>1, <2>4, <3>1, <3>2, <3>3, <3>5 DEF SerialInv
    <2>7. row'.code <= fresh'.code
      BY <1>2, <1>6, <2>4
    <2> QED
      BY <2>3, <2>4, <2>5, <2>6, <2>7 DEF SerialInv
  <1>11. SerialInv'
    BY <1>10 DEF SerialInv
  <1> QED
    BY <1>5, <1>9, <1>11 DEF AddressInv

LEMMA AddressUpdateSave ==
    ASSUME TypeOK, AddressInv, NEW r \in Requests, UpdateSave(r)
    PROVE  AddressInv'
  <1> DEFINE u == req[r].user
             seen == req[r].seen
  <1>1. At(r, "updateSave")
    BY DEF UpdateSave
  <1>2. /\ row' = u /\ UNCHANGED <<accepted, fresh>>
        /\ ~stale' => ~stale /\ row = seen
        /\ wanted' = IF u.pw = seen.pw THEN wanted ELSE u.pw
    BY DEF UpdateSave, Written
  <1>3. req'[r].at = "idle" /\ \A q \in Requests : q # r => req'[q] = req[q]
    BY GoesTo DEF UpdateSave, Ends, Idle
  <1>4. RowOK(seen) /\ seen.id # 0 /\ u.id = seen.id /\ u.verified = seen.verified /\ u.code = seen.code
    BY <1>1 DEF AddressInv, RowsInv, Prepared, At
  <1> HIDE DEF u, seen
  <1>5. RowsInv'
    BY <1>2, <1>3, <1>4 DEF AddressInv, RowsInv, RowOK, Prepared
  <1>6. ASSUME ~stale' PROVE SerialInv'
    <2>1. \A q \in Requests : At(q, "registerWrite")' => req'[q] = req[q] /\ At(q, "registerWrite")
      BY <1>3 DEF At
    <2> QED
      BY <1>2, <1>4, <1>6, <2>1 DEF AddressInv, SerialInv
  <1>7. SerialInv'
    BY <1>6 DEF SerialInv
  <1> QED
    BY <1>2, <1>5, <1>7 DEF AddressInv, AcceptedInv

\* The requests that only read a row, or delete it.
LEMMA AddressReads ==
    ASSUME TypeOK, AddressInv, NEW r \in Requests,
           \/ \E pw \in Passwords : LoginRead(r, pw)
           \/ \E code \in mailed : VerifyRead(r, code)
           \/ \E u \in 1..fresh.user :
                \/ NameRead(r, u)
                \/ \E current, pw \in Passwords : PasswordRead(r, u, current, pw)
                \/ DeleteSessions(r, u)
    PROVE  AddressInv'
  <1>1. UNCHANGED <<row, fresh, accepted, wanted, stale>>
    BY DEF LoginRead, VerifyRead, NameRead, PasswordRead, DeleteSessions, tables, account
  <1>2. ASSUME NEW s, Goes(r, s), Prepared(s), s.at # "registerWrite" PROVE AddressInv'
    BY <1>1, <1>2, AddressGoes
  <1>3. CASE Answered
    BY <1>1, <1>3, AddressStays DEF Answered
  <1>4. row \in Rows /\ RowOK(row)
    BY DEF TypeOK, AddressInv, RowsInv
  <1>5. ASSUME NEW pw \in Passwords, LoginRead(r, pw) PROVE AddressInv'
    <2>1. LET s == [at |-> "session", user |-> row.id, old |-> <<>>]
          IN  Prepared(s) /\ s.at # "registerWrite"
      BY DEF Prepared
    <2> QED
      BY <1>2, <1>3, <1>5, <2>1 DEF LoginRead, Begins
  <1>6. ASSUME NEW code \in mailed, VerifyRead(r, code) PROVE AddressInv'
    <2> DEFINE u == [row EXCEPT !.verified = TRUE, !.code = 0]
               s == [at |-> "verifySave", seen |-> row, code |-> code, user |-> u]
    <2>1. u.id = row.id /\ u.pw = row.pw /\ u.verified /\ u.code = 0
      BY <1>4, RowVerified
    <2> HIDE DEF u
    <2>2. ASSUME row.id # 0, ~row.verified, row.code = code, Goes(r, s) PROVE AddressInv'
      <3>1. Prepared(s) /\ s.at # "registerWrite"
        BY <1>4, <2>1, <2>2 DEF Prepared, RowOK
      <3> QED
        BY <1>2, <2>2, <3>1
    <2> QED
      BY <1>3, <1>6, <2>2 DEF VerifyRead, Begins, u
  <1>7. ASSUME NEW u \in Nat, u # 0, NameRead(r, u) PROVE AddressInv'
    <2>1. ASSUME row.id = u
          PROVE  LET s == [at |-> "updateSave", seen |-> row, user |-> row]
                 IN  Prepared(s) /\ s.at # "registerWrite"
      BY <1>4, <1>7, <2>1 DEF Prepared
    <2> QED
      BY <1>2, <1>3, <1>7, <2>1 DEF NameRead, Begins
  <1>8. ASSUME NEW u \in Nat, u # 0, NEW current \in Passwords, NEW pw \in Passwords,
               PasswordRead(r, u, current, pw)
        PROVE  AddressInv'
    <2> DEFINE v == [row EXCEPT !.pw = pw]
               s == [at |-> "updateSave", seen |-> row, user |-> v]
    <2>1. v.id = row.id /\ v.verified = row.verified /\ v.code = row.code
      BY <1>4, RowPassword
    <2> HIDE DEF v
    <2>2. ASSUME row.id = u, Goes(r, s) PROVE AddressInv'
      <3>1. Prepared(s) /\ s.at # "registerWrite"
        BY <1>4, <1>8, <2>1, <2>2 DEF Prepared
      <3> QED
        BY <1>2, <2>2, <3>1
    <2> QED
      BY <1>3, <1>8, <2>2 DEF PasswordRead, Begins, v
  <1>9. ASSUME NEW u \in Nat, DeleteSessions(r, u) PROVE AddressInv'
    <2>1. LET s == [at |-> "deleteUser", user |-> u] IN Prepared(s) /\ s.at # "registerWrite"
      BY DEF Prepared
    <2> QED
      BY <1>2, <1>9, <2>1 DEF DeleteSessions, Begins
  <1>10. \A u \in 1..fresh.user : u \in Nat /\ u # 0
    BY FreshType
  <1> QED
    BY <1>5, <1>6, <1>7, <1>8, <1>9, <1>10

\* The requests that have nothing to do with the row, or delete it.
LEMMA AddressOthers ==
    ASSUME TypeOK, AddressInv, NEW r \in Requests,
           \/ \E t \in issued : RefreshRead(r, t) \/ Logout(r, t)
           \/ \E l \in Lavas : PaymentSuccess(r, l)
           \/ \E l \in Lavas, event \in DOMAIN Outcome : HookRead(r, l, event)
           \/ RegisterMail(r) \/ OpenSession(r) \/ RefreshUser(r) \/ RefreshDelete(r) \/ DeleteUser(r)
           \/ HookSave(r) \/ Abandon(r)
    PROVE  AddressInv'
  <1>1. row' \in {row, NoRow} /\ UNCHANGED <<accepted, wanted, stale>>
    BY DEF RefreshRead, Logout, PaymentSuccess, HookRead, RegisterMail, OpenSession, RefreshUser,
           RefreshDelete, DeleteUser, HookSave, Abandon, DeletesUser, tables, account
  <1>2. fresh'.code = fresh.code
    <2>1. fresh' = fresh \/ fresh' = [fresh EXCEPT !.session = fresh.session + 1]
      BY DEF RefreshRead, Logout, PaymentSuccess, HookRead, RegisterMail, OpenSession, RefreshUser,
             RefreshDelete, DeleteUser, HookSave, Abandon
    <2> QED
      BY <2>1 DEF TypeOK, Counters
  <1>3. ASSUME NEW s, Goes(r, s), Prepared(s), s.at # "registerWrite" PROVE AddressInv'
    BY <1>1, <1>2, <1>3, AddressGoes
  <1>4. CASE UNCHANGED req
    BY <1>1, <1>2, <1>4, AddressStays
  <1>5. CASE Ends(r)
    BY <1>1, <1>2, <1>5, AddressEnds
  <1>6. ASSUME NEW s, Goes(r, s),
               s.at \notin {"registerWrite", "registerMail", "verifySave", "updateSave"}
        PROVE  AddressInv'
    BY <1>3, <1>6 DEF Prepared
  <1>7. ASSUME NEW t, RefreshRead(r, t) PROVE AddressInv'
    BY <1>4, <1>6, <1>7 DEF RefreshRead, Begins, Answered
  <1>8. ASSUME NEW l, NEW event, HookRead(r, l, event) PROVE AddressInv'
    BY <1>4, <1>6, <1>8 DEF HookRead, Begins, Answered
  <1>9. CASE RefreshUser(r)
    <2>1. [req[r] EXCEPT !.at = "refreshDelete"].at = "refreshDelete"
      <3>1. req[r] \in Refreshers
        BY <1>9, Shape DEF TypeOK, RefreshUser, At
      <3> QED
        BY <3>1 DEF Refreshers
    <2> QED
      BY <1>5, <1>6, <1>9, <2>1 DEF RefreshUser
  <1>10. CASE RefreshDelete(r)
    BY <1>6, <1>10 DEF RefreshDelete
  <1> QED
    BY <1>4, <1>5, <1>7, <1>8, <1>9, <1>10
    DEF Logout, PaymentSuccess, RegisterMail, OpenSession, DeleteUser, HookSave, Abandon

LEMMA NextAddress == TypeOK /\ AddressInv /\ [Next]_vars => AddressInv'
  <1> SUFFICES ASSUME TypeOK, AddressInv, [Next]_vars PROVE AddressInv'
    OBVIOUS
  <1>1. CASE Expire \/ Tick \/ UNCHANGED vars
    BY <1>1, AddressStays DEF Expire, Tick, vars, tables, account
  <1> QED
    BY <1>1, AddressRegisterRead, AddressRegisterWrite, AddressVerifySave, AddressUpdateSave,
       AddressReads, AddressOthers DEF Next

LEMMA InitAddress == Init => AddressInv
  <1> SUFFICES ASSUME Init PROVE AddressInv
    OBVIOUS
  <1>1. accepted = <<>> /\ DOMAIN accepted = {}
    BY DEF Init
  <1>2. row.id = 0 /\ row.code = 0 /\ ~row.verified /\ fresh.code = 0
    BY DEF Init, NoRow
  <1>3. \A r \in Requests : req[r] = Idle
    BY DEF Init
  <1>4. RowsInv
    BY <1>2, <1>3 DEF RowsInv, RowOK, Prepared, Idle
  <1>5. SerialInv
    BY <1>1, <1>2, <1>3 DEF SerialInv, IsInjective, At, Idle
  <1> QED
    BY <1>1, <1>4, <1>5 DEF AddressInv, AcceptedInv

\* As long as no handler has written over a change it had not seen, no verification
\* code is accepted twice and the account has the password asked for last.
THEOREM Serial == Spec => []UnracedIsSerial
  <1>1. Init => TypeOK /\ AddressInv
    BY InitType, InitAddress
  <1>2. TypeOK /\ AddressInv /\ [Next]_vars => TypeOK' /\ AddressInv'
    BY NextType, NextAddress
  <1>3. AddressInv => UnracedIsSerial
    BY DEF AddressInv, SerialInv, UnracedIsSerial
  <1> QED
    BY <1>1, <1>2, <1>3, PTL DEF Spec

\* The steps after which a verified row is not verified, or not there.
LEMMA VerifiedStep ==
    ASSUME TypeOK, AddressInv, [Next]_vars, row.verified, ~(row'.verified /\ row'.id = row.id)
    PROVE  \E r \in Requests :
             /\ req'[r] # req[r]
             /\ \/ At(r, "deleteUser")
                \/ "seen" \in DOMAIN req[r] /\ ~req[r].seen.verified
  <1>1. row' # row /\ row.id # 0
    BY DEF AddressInv, RowsInv, RowOK
  <1>2. PICK r \in Requests : \/ RegisterWrite(r) \/ RegisterMail(r) \/ VerifySave(r)
                              \/ UpdateSave(r) \/ DeleteUser(r)
    <2>1. ASSUME NEW r \in Requests,
                 \/ \E pw \in Passwords : RegisterRead(r, pw) \/ LoginRead(r, pw)
                 \/ \E code \in mailed : VerifyRead(r, code)
                 \/ \E t \in issued : RefreshRead(r, t) \/ Logout(r, t)
          PROVE  row' = row
      BY <2>1 DEF RegisterRead, LoginRead, VerifyRead, RefreshRead, Logout, tables
    <2>2. ASSUME NEW r \in Requests, NEW u \in 1..fresh.user,
                 \/ NameRead(r, u)
                 \/ \E current, pw \in Passwords : PasswordRead(r, u, current, pw)
                 \/ DeleteSessions(r, u)
          PROVE  row' = row
      BY <2>2 DEF NameRead, PasswordRead, DeleteSessions, tables
    <2>3. ASSUME NEW r \in Requests,
                 \/ \E l \in Lavas : PaymentSuccess(r, l)
                 \/ \E l \in Lavas, event \in DOMAIN Outcome : HookRead(r, l, event)
          PROVE  row' = row
      BY <2>3 DEF PaymentSuccess, HookRead, tables
    <2>4. ASSUME NEW r \in Requests,
                 OpenSession(r) \/ RefreshUser(r) \/ RefreshDelete(r) \/ HookSave(r) \/ Abandon(r)
          PROVE  row' = row
      BY <2>4 DEF OpenSession, RefreshUser, RefreshDelete, HookSave, Abandon, tables
    <2>5. Expire \/ Tick \/ UNCHANGED vars => row' = row
      BY DEF Expire, Tick, vars, tables
    <2> QED
      BY <1>1, <2>1, <2>2, <2>3, <2>4, <2>5 DEF Next
  <1>3. req'[r] # req[r]
    <2>1. ASSUME NEW s, Goes(r, s), s.at # req[r].at PROVE req'[r] # req[r]
      BY <2>1, GoesTo
    <2> QED
      BY <1>2, <2>1
      DEF RegisterWrite, RegisterMail, VerifySave, UpdateSave, DeleteUser, Ends, Idle, At
  <1>4. CASE At(r, "deleteUser")
    BY <1>3, <1>4
  <1>5. CASE At(r, "registerWrite") \/ At(r, "registerMail")
    BY <1>3, <1>5, SeenFields DEF TypeOK, AddressInv, RowsInv, Prepared, At
  <1>6. CASE VerifySave(r)
    BY <1>1, <1>6 DEF VerifySave, At, Savable, Written, AddressInv, RowsInv, Prepared
  <1>7. CASE UpdateSave(r)
    <2>1. At(r, "updateSave") /\ row' = req[r].user /\ row.id \in {0, req[r].user.id}
      BY <1>7 DEF UpdateSave, Savable, Written
    <2>2. req[r].user.verified = req[r].seen.verified
      BY <2>1 DEF At, AddressInv, RowsInv, Prepared
    <2>3. ~req[r].seen.verified
      BY <1>1, <2>1, <2>2 DEF TypeOK, Rows
    <2>4. "seen" \in DOMAIN req[r]
      BY <2>1, SeenFields DEF TypeOK, At
    <2> QED
      BY <1>3, <2>3, <2>4
  <1> QED
    BY <1>2, <1>4, <1>5, <1>6, <1>7 DEF RegisterWrite, RegisterMail, DeleteUser

\* A verified account is lost only through DeleteAccount or a request that read the
\* address before it was verified.
THEOREM KeepsVerified == Spec => VerifiedKept
  <1>1. Init => TypeOK /\ AddressInv
    BY InitType, InitAddress
  <1>2. TypeOK /\ AddressInv /\ [Next]_vars => TypeOK' /\ AddressInv'
    BY NextType, NextAddress
  <1>3. TypeOK /\ AddressInv /\ [Next]_vars =>
          [row.verified /\ ~(row'.verified /\ row'.id = row.id) =>
             \E r \in Requests :
               /\ req'[r] # req[r]
               /\ \/ At(r, "deleteUser")
                  \/ "seen" \in DOMAIN req[r] /\ ~req[r].seen.verified]_vars
    BY VerifiedStep
  <1> QED
    BY <1>1, <1>2, <1>3, PTL DEF Spec, VerifiedKept

-----------------------------------------------------------------------------
(* Subscriptions *)

\* As long as every event came once and alone: one webhook at most is between its
\* read and its save, every subscription has one row, and the rows show the last
\* events but for the one that this webhook is about to write.
HooksInv ==
    ~muddled =>
        /\ \A r, q \in Requests : Hooked(r) /\ Hooked(q) => r = q
        /\ \A i, j \in DOMAIN subs : subs[i].lava = subs[j].lava => i = j
        /\ \A i \in DOMAIN subs : paid[subs[i].lava] # "none"
        /\ \A r \in Requests : Hooked(r) =>
             /\ req[r].sub \in DOMAIN subs
             /\ paid[subs[req[r].sub].lava] = Outcome[req[r].event]
        /\ \A i \in DOMAIN subs : \/ subs[i].status = paid[subs[i].lava]
                                  \/ \E r \in Requests : Hooked(r) /\ req[r].sub = i

\* Steps that are no webhook's.
LEMMA HooksQuiet ==
    ASSUME HooksInv, UNCHANGED <<subs, paid, muddled>>,
           \A q \in Requests : \/ req'[q] = req[q]
                               \/ req[q].at # "hookSave" /\ req'[q].at # "hookSave"
    PROVE  HooksInv'
  <1>1. \A q \in Requests : Hooked(q)' <=> Hooked(q)
    BY DEF Hooked, At
  <1>2. \A q \in Requests : Hooked(q) => req'[q] = req[q]
    BY DEF Hooked, At
  <1> QED
    BY <1>1, <1>2 DEF HooksInv

LEMMA HooksGoes ==
    ASSUME TypeOK, HooksInv, UNCHANGED <<subs, paid, muddled>>, NEW r \in Requests, ~Hooked(r),
           NEW s, Goes(r, s), s.at # "hookSave"
    PROVE  HooksInv'
  BY HooksQuiet, GoesTo DEF Hooked, At

LEMMA HooksOthers ==
    ASSUME TypeOK, HooksInv, NEW r \in Requests,
           \/ \E pw \in Passwords : RegisterRead(r, pw) \/ LoginRead(r, pw)
           \/ \E code \in mailed : VerifyRead(r, code)
           \/ \E t \in issued : RefreshRead(r, t) \/ Logout(r, t)
           \/ \E u \in 1..fresh.user :
                \/ NameRead(r, u)
                \/ \E current, pw \in Passwords : PasswordRead(r, u, current, pw)
                \/ DeleteSessions(r, u)
           \/ RegisterWrite(r) \/ RegisterMail(r) \/ VerifySave(r) \/ OpenSession(r)
           \/ RefreshUser(r) \/ RefreshDelete(r) \/ UpdateSave(r) \/ DeleteUser(r)
    PROVE  HooksInv'
  <1>1. UNCHANGED <<subs, paid, muddled>>
    BY DEF RegisterRead, LoginRead, VerifyRead, RefreshRead, Logout, NameRead, PasswordRead,
           DeleteSessions, RegisterWrite, RegisterMail, VerifySave, OpenSession, RefreshUser,
           RefreshDelete, UpdateSave, DeleteUser, tables, payment
  <1>2. ~Hooked(r)
    <2>1. CASE Free(r)
      BY <2>1 DEF Free, Idle, Hooked, At
    <2>2. CASE req[r].at \in {"registerWrite", "registerMail", "verifySave", "session", "refreshUser",
                             "refreshDelete", "updateSave", "deleteUser"}
      BY <2>2 DEF Hooked, At
    <2> QED
      BY <2>1, <2>2
      DEF RegisterRead, LoginRead, VerifyRead, RefreshRead, Logout, NameRead, PasswordRead,
          DeleteSessions, RegisterWrite, RegisterMail, VerifySave, OpenSession, RefreshUser,
          RefreshDelete, UpdateSave, DeleteUser, At
  <1>3. ASSUME NEW s, Goes(r, s), s.at # "hookSave" PROVE HooksInv'
    BY <1>1, <1>2, <1>3, HooksGoes
  <1>4. CASE UNCHANGED req
    BY <1>1, <1>4, HooksQuiet
  <1>5. CASE Ends(r)
    BY <1>3, <1>5 DEF Ends, Idle
  <1>6. CASE \E pw \in Passwords : RegisterRead(r, pw) \/ LoginRead(r, pw)
    BY <1>3, <1>4, <1>6 DEF RegisterRead, LoginRead, Answered, Begins
  <1>7. CASE \E code \in mailed : VerifyRead(r, code)
    BY <1>3, <1>4, <1>7 DEF VerifyRead, Answered, Begins
  <1>8. CASE \E t \in issued : RefreshRead(r, t) \/ Logout(r, t)
    BY <1>3, <1>4, <1>8 DEF RefreshRead, Logout, Answered, Begins
  <1>9. ASSUME NEW u \in 1..fresh.user,
               \/ NameRead(r, u)
               \/ \E current, pw \in Passwords : PasswordRead(r, u, current, pw)
               \/ DeleteSessions(r, u)
        PROVE  HooksInv'
    BY <1>3, <1>4, <1>9 DEF NameRead, PasswordRead, DeleteSessions, Answered, Begins
  <1>10. CASE RefreshUser(r)
    <2>1. [req[r] EXCEPT !.at = "refreshDelete"].at # "hookSave"
      <3>1. req[r] \in Refreshers
        BY <1>10, Shape DEF TypeOK, RefreshUser, At
      <3> QED
        BY <3>1 DEF Refreshers
    <2> QED
      BY <1>3, <1>5, <1>10, <2>1 DEF RefreshUser
  <1>11. CASE RegisterWrite(r) \/ VerifySave(r) \/ RefreshDelete(r)
    BY <1>3, <1>5, <1>11 DEF RegisterWrite, VerifySave, RefreshDelete
  <1> QED
    BY <1>5, <1>6, <1>7, <1>8, <1>9, <1>10, <1>11
    DEF RegisterMail, OpenSession, UpdateSave, DeleteUser

\* A subscription is bought.
LEMMA HooksPaymentSuccess ==
    ASSUME TypeOK, HooksInv, NEW r \in Requests, NEW l \in Lavas, PaymentSuccess(r, l)
    PROVE  HooksInv'
  <1> SUFFICES ASSUME ~muddled' PROVE HooksInv'
    BY DEF HooksInv
  <1> DEFINE e == [lava |-> l, status |-> "active"]
             n == Len(subs) + 1
  <1>1. /\ ~muddled /\ paid[l] = "none" /\ \A q \in Requests : ~Hooked(q)
        /\ subs' = Append(subs, e) /\ paid' = [paid EXCEPT ![l] = "active"] /\ UNCHANGED req
    BY DEF PaymentSuccess
  <1>2. e \in Subs /\ e.lava = l /\ e.status = "active"
    BY DEF Subs, Statuses
  <1> HIDE DEF e
  <1>3. /\ DOMAIN subs' = DOMAIN subs \cup {n} /\ n \notin DOMAIN subs /\ subs'[n] = e
        /\ \A i \in DOMAIN subs : subs'[i] = subs[i]
    BY <1>1, <1>2 DEF TypeOK
  <1>4. paid'[l] = "active" /\ \A m \in Lavas : m # l => paid'[m] = paid[m]
    BY <1>1 DEF TypeOK
  <1>5. \A i \in DOMAIN subs : subs[i].lava \in Lavas /\ subs[i].lava # l
    <2>1. \A i \in DOMAIN subs : subs[i] \in Subs
      BY DEF TypeOK
    <2> QED
      BY <1>1, <2>1 DEF HooksInv, Subs
  <1>6. \A q \in Requests : ~Hooked(q)'
    BY <1>1 DEF Hooked, At
  <1> HIDE DEF n
  <1>7. \A i \in DOMAIN subs : subs[i].status = paid[subs[i].lava]
    BY <1>1 DEF HooksInv
  <1>8. \A i, j \in DOMAIN subs' : subs'[i].lava = subs'[j].lava => i = j
    BY <1>1, <1>2, <1>3, <1>5 DEF HooksInv
  <1>9. \A i \in DOMAIN subs' : subs'[i].status = paid'[subs'[i].lava] /\ paid'[subs'[i].lava] # "none"
    BY <1>1, <1>2, <1>3, <1>4, <1>5, <1>7 DEF HooksInv
  <1> QED
    BY <1>6, <1>8, <1>9 DEF HooksInv

\* A later event finds the row of the subscription.
LEMMA HooksHookRead ==
    ASSUME TypeOK, HooksInv, NEW r \in Requests, NEW l \in Lavas, NEW event \in DOMAIN Outcome,
           HookRead(r, l, event)
    PROVE  HooksInv'
  <1>1. UNCHANGED subs
    BY DEF HookRead, tables
  <1>2. CASE Answered /\ UNCHANGED payment
    BY <1>1, <1>2, HooksQuiet DEF Answered, payment
  <1>3. ASSUME NEW i \in DOMAIN subs, subs[i].lava = l,
               Goes(r, [at |-> "hookSave", sub |-> i, event |-> event]),
               muddled' = (muddled \/ \E q \in Requests : Hooked(q)),
               paid' = [paid EXCEPT ![l] = Outcome[event]]
        PROVE  HooksInv'
    <2> SUFFICES ASSUME ~muddled' PROVE HooksInv'
      BY DEF HooksInv
    <2>1. ~muddled /\ \A q \in Requests : ~Hooked(q)
      BY <1>3
    <2>2. /\ req'[r].at = "hookSave" /\ req'[r].sub = i /\ req'[r].event = event
          /\ \A q \in Requests : q # r => req'[q] = req[q]
      BY <1>3, GoesTo
    <2>3. Hooked(r)' /\ \A q \in Requests : Hooked(q)' => q = r
      BY <2>1, <2>2 DEF Hooked, At
    <2>4. paid'[l] = Outcome[event] /\ \A m \in Lavas : m # l => paid'[m] = paid[m]
      BY <1>3 DEF TypeOK
    <2>5. Outcome[event] # "none"
      BY OutcomeType DEF Statuses
    <2>6. \A j \in DOMAIN subs : subs[j].lava \in Lavas /\ (j # i => subs[j].lava # l)
      <3>1. \A j \in DOMAIN subs : subs[j] \in Subs
        BY DEF TypeOK
      <3> QED
        BY <1>3, <2>1, <3>1 DEF HooksInv, Subs
    <2>7. \A j \in DOMAIN subs : subs[j].status = paid[subs[j].lava] /\ paid[subs[j].lava] # "none"
      BY <2>1 DEF HooksInv
    <2>8. \A j \in DOMAIN subs : paid'[subs[j].lava] # "none"
      BY <2>4, <2>5, <2>6, <2>7
    <2>9. \A j \in DOMAIN subs : j # i => subs[j].status = paid'[subs[j].lava]
      BY <2>4, <2>6, <2>7
    <2>10. \A j, k \in DOMAIN subs : subs[j].lava = subs[k].lava => j = k
      BY <2>1 DEF HooksInv
    <2> QED
      BY <1>1, <1>3, <2>2, <2>3, <2>4, <2>8, <2>9, <2>10 DEF HooksInv
  <1> QED
    BY <1>2, <1>3 DEF HookRead, Begins

\* It is saved with the status of the event.
LEMMA HooksHookSave ==
    ASSUME TypeOK, HooksInv, NEW r \in Requests, HookSave(r)
    PROVE  HooksInv'
  <1> SUFFICES ASSUME ~muddled' PROVE HooksInv'
    BY DEF HooksInv
  <1> DEFINE i == req[r].sub
             x == Outcome[req[r].event]
  <1>1. /\ Hooked(r) /\ ~muddled /\ UNCHANGED <<paid, muddled>>
        /\ subs' = [subs EXCEPT ![i].status = x]
    BY DEF HookSave, Hooked, payment
  <1>2. i \in DOMAIN subs /\ paid[subs[i].lava] = x /\ \A q \in Requests : Hooked(q) => q = r
    BY <1>1 DEF HooksInv
  <1>3. req'[r].at = "idle" /\ \A q \in Requests : q # r => req'[q] = req[q]
    BY GoesTo DEF HookSave, Ends, Idle
  <1>4. \A q \in Requests : ~Hooked(q)'
    BY <1>2, <1>3 DEF Hooked, At
  <1> HIDE DEF i, x
  <1>5. /\ DOMAIN subs' = DOMAIN subs
        /\ subs'[i].lava = subs[i].lava /\ subs'[i].status = x
        /\ \A j \in DOMAIN subs : j # i => subs'[j] = subs[j]
    <2>1. \A j \in DOMAIN subs : subs[j] \in Subs
      BY DEF TypeOK
    <2>2. subs'[i] = [subs[i] EXCEPT !.status = x]
      BY <1>1, <1>2
    <2> QED
      BY <1>1, <1>2, <2>1, <2>2 DEF Subs
  <1>6. \A j \in DOMAIN subs : j # i => subs[j].status = paid[subs[j].lava]
    BY <1>1, <1>2 DEF HooksInv, i
  <1>7. \A j \in DOMAIN subs : subs'[j].lava = subs[j].lava /\ subs'[j].status = paid[subs[j].lava]
    BY <1>2, <1>5, <1>6
  <1> QED
    BY <1>1, <1>4, <1>5, <1>7 DEF HooksInv

LEMMA HooksAbandon ==
    ASSUME TypeOK, HooksInv, NEW r \in Requests, Abandon(r)
    PROVE  HooksInv'
  <1>1. CASE Hooked(r)
    BY <1>1 DEF Abandon, HooksInv
  <1>2. CASE ~Hooked(r)
    <2>1. UNCHANGED <<subs, paid>> /\ muddled' = muddled
      BY <1>2 DEF Abandon, tables, TypeOK
    <2> QED
      BY <1>2, <2>1, HooksGoes DEF Abandon, Ends, Idle
  <1> QED
    BY <1>1, <1>2

LEMMA NextHooks == TypeOK /\ HooksInv /\ [Next]_vars => HooksInv'
  <1> SUFFICES ASSUME TypeOK, HooksInv, [Next]_vars PROVE HooksInv'
    OBVIOUS
  <1>1. CASE Expire \/ Tick \/ UNCHANGED vars
    BY <1>1, HooksQuiet DEF Expire, Tick, vars, tables, payment
  <1> QED
    BY <1>1, HooksOthers, HooksPaymentSuccess, HooksHookRead, HooksHookSave, HooksAbandon DEF Next

\* As long as no webhook was lost, repeated or handled during another, the status shown
\* is the one of the last event of the subscription bought last.
THEOREM StatusShown == Spec => []StatusFollowsEvents
  <1>1. Init => TypeOK /\ HooksInv
    <2> SUFFICES ASSUME Init PROVE HooksInv
      BY InitType
    <2>1. DOMAIN subs = {} /\ \A r \in Requests : ~Hooked(r)
      BY DEF Init, Hooked, At, Idle
    <2> QED
      BY <2>1 DEF HooksInv
  <1>2. TypeOK /\ HooksInv /\ [Next]_vars => TypeOK' /\ HooksInv'
    BY NextType, NextHooks
  <1>3. TypeOK /\ HooksInv => StatusFollowsEvents
    <2> SUFFICES ASSUME TypeOK, HooksInv, ~muddled, \A r \in Requests : ~Hooked(r), subs # <<>>
                 PROVE  subs[Len(subs)].status = paid[subs[Len(subs)].lava]
      BY DEF StatusFollowsEvents, SubscriptionStatus
    <2>1. Len(subs) \in DOMAIN subs
      BY DEF TypeOK
    <2> QED
      BY <2>1 DEF HooksInv
  <1> QED
    BY <1>1, <1>2, <1>3, PTL DEF Spec
=============================================================================
