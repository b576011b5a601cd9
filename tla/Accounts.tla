------------------------------- MODULE Accounts -------------------------------
(***************************************************************************)
(* Users, their sessions and the requests that meet on them: logging in,   *)
(* renewing, logging out, reaping, and an administrator who edits or       *)
(* deletes the account meanwhile (api/auth.go, api/handlers_users.go,      *)
(* session, user).  A statement on either store is a step; a guarded       *)
(* transaction is one.                                                     *)
(***************************************************************************)
EXTENDS Integers, FiniteSets

CONSTANTS
  Users, Logins,          \* a login makes at most one session, known by it
  SessionTTL, RenewAfter,
  defaultLoginRate, LoginWindow,
  DayMax, MaxUserEdits    \* bounds: the last instant, edits

ASSUME AccountAssumption ==
  /\ IsFiniteSet(Users) /\ 1 \in Users
  /\ {SessionTTL, RenewAfter, defaultLoginRate, LoginWindow, MaxUserEdits} \subseteq Nat
  /\ DayMax \in Nat \ {0}

VARIABLES
  day,        \* the time
  users,      \* the users table
  sessions,   \* the sessions table, by login
  login,      \* handleLogin, by login
  request,    \* by login: a request with its cookie that is about to renew
  edit,       \* handleUpdateUser or handleDeleteUser; one at a time
  edits,
  visitor,    \* the login bucket of the one address all come from
  gone        \* sessions that were ended for good

accountVars == <<day, users, sessions, login, request, edit, edits, visitor, gone>>

NoUser == [there |-> FALSE, role |-> "user", disabled |-> FALSE, password |-> 0]
\* A deleted account's number is not given out again.
Deleted == [NoUser EXCEPT !.role = "deleted"]
NoSession == [there |-> FALSE, user |-> 0, role |-> "user", password |-> 0, expires |-> 0]
NoLogin == [at |-> "off", user |-> 0, seen |-> NoUser]
NoEdit == [at |-> "off", user |-> 0, patch |-> NoUser, relevant |-> FALSE]

\* EnsureBootstrapAdmin, or the first switch to forms (EnsureFormsReady), has
\* made the first administrator.
EnsureBootstrapAdmin == [NoUser EXCEPT !.there = TRUE, !.role = "admin"]

AccountInit ==
  /\ day = 1
  /\ users = [u \in Users |-> IF u = 1 THEN EnsureBootstrapAdmin ELSE NoUser]
  /\ sessions = [l \in Logins |-> NoSession]
  /\ login = [l \in Logins |-> NoLogin]
  /\ request = [l \in Logins |-> FALSE]
  /\ edit = NoEdit /\ edits = 0
  /\ visitor = [count |-> 0, resetAt |-> 0] /\ gone = {}

isActiveAdmin(u) == u.there /\ u.role = "admin" /\ ~u.disabled
countActiveAdmins(us) == Cardinality({u \in Users : isActiveAdmin(us[u])})

----------------------------------------------------------------------------
\* The limiter's window opens with its first request; more than the rate in one
\* window are refused.
Counted == IF visitor.resetAt = 0 \/ day > visitor.resetAt
           THEN [count |-> 1, resetAt |-> day + LoginWindow]
           ELSE [visitor EXCEPT !.count = IF @ <= defaultLoginRate THEN @ + 1 ELSE @]
allow == Counted.count <= defaultLoginRate

\* handleLogin: the account is read and the password checked against it.
LoginRead(l, u) ==
  /\ login[l].at = "off" /\ ~sessions[l].there /\ l \notin gone
  /\ visitor' = Counted
  /\ \/ /\ allow
        /\ users[u].there /\ ~users[u].disabled
        /\ login' = [login EXCEPT ![l] = [at |-> "create", user |-> u, seen |-> users[u]]]
     \/ ~allow /\ UNCHANGED login
  /\ UNCHANGED <<day, users, sessions, request, edit, edits, gone>>

LoginCreate(l) ==
  /\ login[l].at = "create"
  /\ sessions' = [sessions EXCEPT ![l] =
       [there |-> TRUE, user |-> login[l].user, role |-> login[l].seen.role,
        password |-> login[l].seen.password, expires |-> day + SessionTTL]]
  /\ login' = [login EXCEPT ![l].at = "check"]
  /\ UNCHANGED <<day, users, request, edit, edits, visitor, gone>>

\* Mutant: the account is not read again.
LoginCheckTrusting(l) ==
  /\ login[l].at = "check"
  /\ login' = [login EXCEPT ![l] = [NoLogin EXCEPT !.at = "done"]]
  /\ UNCHANGED <<day, users, sessions, request, edit, edits, visitor, gone>>

\* The account is read again: the session goes if it changed in between.
LoginCheck(l) ==
  /\ login[l].at = "check"
  /\ LET now == users[login[l].user]
         same == now.there /\ ~now.disabled /\ now.role = login[l].seen.role
                 /\ now.password = login[l].seen.password
     IN IF same
        THEN /\ login' = [login EXCEPT ![l] = [NoLogin EXCEPT !.at = "done"]]
             /\ UNCHANGED <<sessions, gone>>
        ELSE /\ login' = [login EXCEPT ![l] = [NoLogin EXCEPT !.at = "done"]]
             /\ sessions' = [sessions EXCEPT ![l] = NoSession]
             /\ gone' = gone \cup {l}
  /\ UNCHANGED <<day, users, request, edit, edits, visitor>>

----------------------------------------------------------------------------
\* sessionIdentity: a valid session serves the request; one past half its life is
\* renewed, in a statement of its own.
Validate(l) ==
  /\ login[l].at = "done" /\ sessions[l].there /\ ~request[l]
  /\ IF day >= sessions[l].expires
     THEN /\ sessions' = [sessions EXCEPT ![l] = NoSession]
          /\ gone' = gone \cup {l} /\ UNCHANGED request
     ELSE /\ sessions[l].expires - day < RenewAfter
          /\ request' = [request EXCEPT ![l] = TRUE] /\ UNCHANGED <<sessions, gone>>
  /\ UNCHANGED <<day, users, login, edit, edits, visitor>>

\* Touch: the row is moved forward if it is still there.
Renew(l) ==
  /\ request[l]
  /\ request' = [request EXCEPT ![l] = FALSE]
  /\ sessions' = IF sessions[l].there /\ sessions[l].expires < day + SessionTTL
                 THEN [sessions EXCEPT ![l].expires = day + SessionTTL] ELSE sessions
  /\ UNCHANGED <<day, users, login, edit, edits, visitor, gone>>

handleLogout(l) ==
  /\ login[l].at = "done" /\ sessions[l].there
  /\ sessions' = [sessions EXCEPT ![l] = NoSession]
  /\ gone' = gone \cup {l}
  /\ UNCHANGED <<day, users, login, request, edit, edits, visitor>>

Expired == {l \in Logins : sessions[l].there /\ sessions[l].expires <= day}
Prune ==
  /\ Expired # {}
  /\ sessions' = [l \in Logins |-> IF l \in Expired THEN NoSession ELSE sessions[l]]
  /\ gone' = gone \cup Expired
  /\ UNCHANGED <<day, users, login, request, edit, edits, visitor>>

----------------------------------------------------------------------------
handleCreateUser(u, role) ==
  /\ users[u] = NoUser /\ edits < MaxUserEdits
  /\ users' = [users EXCEPT ![u] = [NoUser EXCEPT !.there = TRUE, !.role = role]]
  /\ edits' = edits + 1
  /\ UNCHANGED <<day, sessions, login, request, edit, visitor, gone>>

\* handleUpdateUser reads the account, to tell whether the patch matters ...
Patches(u) == {[u EXCEPT !.role = "admin"], [u EXCEPT !.role = "user"], [u EXCEPT !.disabled = ~@],
               [u EXCEPT !.password = @ + 1]}
handleUpdateUser(u) ==
  /\ edit.at = "off" /\ edits < MaxUserEdits /\ users[u].there
  /\ \E p \in Patches(users[u]) :
       edit' = [at |-> "update", user |-> u, patch |-> p, relevant |-> p # users[u]]
  /\ edits' = edits + 1
  /\ UNCHANGED <<day, users, sessions, login, request, visitor, gone>>

\* ... and changes it unless that takes the last active admin.
UpdateUserGuarded ==
  /\ edit.at = "update"
  /\ LET next == [users EXCEPT ![edit.user] = edit.patch]
     IN IF isActiveAdmin(users[edit.user]) /\ ~isActiveAdmin(edit.patch) /\ countActiveAdmins(users) <= 1
        THEN edit' = NoEdit /\ UNCHANGED users
        ELSE users' = next /\ edit' = IF edit.relevant THEN [edit EXCEPT !.at = "purge"] ELSE NoEdit
  /\ UNCHANGED <<day, sessions, login, request, edits, visitor, gone>>

handleDeleteUserUncounted(u) ==
  /\ edit.at = "off" /\ edits < MaxUserEdits /\ users[u].there
  /\ users' = [users EXCEPT ![u] = Deleted]
  /\ edit' = [NoEdit EXCEPT !.at = "purge", !.user = u]
  /\ edits' = edits + 1
  /\ UNCHANGED <<day, sessions, login, request, visitor, gone>>

handleDeleteUser(u) ==
  /\ edit.at = "off" /\ edits < MaxUserEdits /\ users[u].there
  /\ ~(isActiveAdmin(users[u]) /\ countActiveAdmins(users) <= 1)
  /\ users' = [users EXCEPT ![u] = Deleted]
  /\ edit' = [NoEdit EXCEPT !.at = "purge", !.user = u]
  /\ edits' = edits + 1
  /\ UNCHANGED <<day, sessions, login, request, visitor, gone>>

\* The account's sessions and event streams end after it has changed.
invalidateUserSessions ==
  /\ edit.at = "purge"
  /\ sessions' = [l \in Logins |-> IF sessions[l].user = edit.user THEN NoSession ELSE sessions[l]]
  /\ gone' = gone \cup {l \in Logins : sessions[l].there /\ sessions[l].user = edit.user}
  /\ edit' = NoEdit
  /\ UNCHANGED <<day, users, login, request, edits, visitor>>

DayPasses ==
  /\ day < DayMax /\ day' = day + 1
  /\ UNCHANGED <<users, sessions, login, request, edit, edits, visitor, gone>>

AccountNext ==
  \/ \E l \in Logins :
       \/ \E u \in Users : LoginRead(l, u)
       \/ LoginCreate(l) \/ LoginCheck(l) \/ Validate(l) \/ Renew(l) \/ handleLogout(l)
  \/ \E u \in Users :
       \/ \E r \in {"admin", "user"} : handleCreateUser(u, r)
       \/ handleUpdateUser(u) \/ handleDeleteUser(u)
  \/ UpdateUserGuarded \/ invalidateUserSessions \/ Prune \/ DayPasses

AccountTypeOK ==
  /\ countActiveAdmins(users) >= 1
  /\ \A l \in Logins : sessions[l].there => sessions[l].expires <= DayMax + SessionTTL
  /\ visitor.count <= defaultLoginRate + 1

----------------------------------------------------------------------------
\* A session that a login has handed out speaks for the account as it is now -
\* there, enabled, with that role and password - as soon as the edit that changed
\* the account has ended its sessions, whichever way the two interleaved; and a
\* session that was ended does not come back with a late renewal.
SessionsSound ==
  \A l \in Logins :
    /\ sessions[l].there => l \notin gone
    /\ (sessions[l].there /\ login[l].at = "done" /\ ~(edit.at = "purge" /\ edit.user = sessions[l].user)) =>
         LET u == users[sessions[l].user]
         IN u.there /\ ~u.disabled /\ u.role = sessions[l].role /\ u.password = sessions[l].password
=============================================================================
