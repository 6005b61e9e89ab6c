---------------------------- MODULE LoginSessions ----------------------------
(***************************************************************************)
(* The sessions of one user (auth.service.ts, auth-token-cleanup.service,  *)
(* strategies/jwt.strategy.ts, remove of employee.service.ts).             *)
(*                                                                         *)
(* A login inserts a row of user_tokens.  refreshToken reads the row, then *)
(* the user, the tenant and the employee, and later rotates it in one      *)
(* transaction: the row is revoked and a new one inserted.  logout,        *)
(* logoutAll and the nightly purge are single statements.  A refresh token *)
(* verifies for the seven days its row lives, so that the branch for an    *)
(* expired row is never taken.                                             *)
(***************************************************************************)
EXTENDS Integers, FiniteSets

CONSTANTS
  Calls,    \* logins and refreshes in progress
  Tokens,   \* ids of rows of user_tokens
  None      \* no id

ASSUME NoneAssumption == None \notin Tokens

VARIABLES
  row,      \* user_tokens: status, age, and the login a row descends from
  call,     \* progress of each call
  closed,   \* the tenant is suspended or deleted
  removed,  \* the employee is soft-deleted
  forked,   \* history: logins of which a row was being refreshed twice,
  ended,    \* of which an active row was logged out,
  endedAll  \* of which every row was revoked

sessionVars == <<row, call, closed, removed, forked, ended, endedAll>>

-----------------------------------------------------------------------------
Row      == [st : {"absent", "active", "revoked", "purged"}, age : {"fresh", "expired", "old"},
             root : Tokens \union {None}, late : BOOLEAN]
Progress == [pc : {"idle", "employee", "issue", "look", "rotate"}, tok : Tokens \union {None}, late : BOOLEAN]

Unissued == [st |-> "absent", age |-> "fresh", root |-> None, late |-> FALSE]
NoCall   == [pc |-> "idle", tok |-> None, late |-> FALSE]

At(c, pc) == call[c].pc = pc
To(c, pc) == call' = [call EXCEPT ![c].pc = pc]
Done(c)   == call' = [call EXCEPT ![c] = NoCall]

Is(t, st) == row[t].st = st
Active    == {t \in Tokens : Is(t, "active")}
Unused    == {t \in Tokens : Is(t, "absent")}
Roots(S)  == {row[t].root : t \in S}
Fresh(t)  == row[t].age = "fresh"

Revoke(S) == row' = [t \in Tokens |-> IF t \in S THEN [row[t] EXCEPT !.st = "revoked"] ELSE row[t]]

\* History: these logins end now; a refresh that has read a row of them is late.
Overtake(roots) ==
  call' = [c \in Calls |-> IF call[c].tok # None /\ row[call[c].tok].root \in roots
                          THEN [call[c] EXCEPT !.late = TRUE] ELSE call[c]]

Issue(t, root, late) == [st |-> "active", age |-> "fresh", root |-> root, late |-> late]

\* validateSession: the row exists and is not revoked, and the tenant is open.
Usable(t) == Is(t, "active") /\ ~closed

-----------------------------------------------------------------------------
(* validateUser and googleLogin: the tenant, later the employee, the row *)

LoginRead(c) ==
  /\ At(c, "idle") /\ ~closed
  /\ To(c, "employee")
  /\ UNCHANGED <<row, closed, removed, forked, ended, endedAll>>

LoginEmployee(c) ==
  /\ At(c, "employee")
  /\ To(c, IF removed THEN "idle" ELSE "issue")
  /\ UNCHANGED <<row, closed, removed, forked, ended, endedAll>>

LoginIssue(c) ==
  /\ At(c, "issue")
  /\ \E t \in Unused : row' = [row EXCEPT ![t] = Issue(t, t, FALSE)]
  /\ Done(c)
  /\ UNCHANGED <<closed, removed, forked, ended, endedAll>>

-----------------------------------------------------------------------------
(* refreshToken *)

\* Mutant: a replayed token ends its own session only.
MutReplay(c, t) ==
  /\ At(c, "idle")
  /\ Is(t, "revoked") /\ Fresh(t)
  /\ Revoke({s \in Active : row[s].root = t})
  /\ Overtake(Roots(Active))
  /\ endedAll' = endedAll \union Roots(Active)
  /\ UNCHANGED <<closed, removed, forked, ended>>

\* A revoked row that is presented again ends every session of the user.
Replay(c, t) ==
  /\ At(c, "idle")
  /\ Is(t, "revoked") /\ Fresh(t)
  /\ Revoke(Active)
  /\ Overtake(Roots(Active))
  /\ endedAll' = endedAll \union Roots(Active)
  /\ UNCHANGED <<closed, removed, forked, ended>>

RefreshRead(c, t) ==
  /\ At(c, "idle")
  /\ Is(t, "active") /\ Fresh(t)
  /\ call' = [call EXCEPT ![c] = [pc |-> "look", tok |-> t, late |-> FALSE]]
  /\ forked' = IF \E d \in Calls : call[d].tok = t THEN forked \union {row[t].root} ELSE forked
  /\ UNCHANGED <<row, closed, removed, ended, endedAll>>

RefreshLook(c) ==
  /\ At(c, "look")
  /\ IF closed \/ removed THEN Done(c) ELSE To(c, "rotate")
  /\ UNCHANGED <<row, closed, removed, forked, ended, endedAll>>

\* Mutant: the consumed row stays as it is.
MutRotate(c) ==
  LET t == call[c].tok IN
  /\ At(c, "rotate")
  /\ \E new \in Unused : row' = [row EXCEPT ![new] = Issue(new, row[t].root, row[t].late \/ call[c].late)]
  /\ Done(c)
  /\ UNCHANGED <<closed, removed, forked, ended, endedAll>>

\* The row is not looked at again, and may have been purged.
Rotate(c) ==
  LET t == call[c].tok IN
  /\ At(c, "rotate")
  /\ \E new \in Unused :
       row' = [row EXCEPT ![t].st = IF @ = "purged" THEN @ ELSE "revoked",
                          ![new] = Issue(new, row[t].root, row[t].late \/ call[c].late)]
  /\ Done(c)
  /\ UNCHANGED <<closed, removed, forked, ended, endedAll>>

-----------------------------------------------------------------------------
(* logout and logoutAll *)

\* Logging out with a row that is revoked already, or gone, is no error and
\* changes nothing.
Logout(t) ==
  /\ Is(t, "active")
  /\ Revoke({t})
  /\ Overtake({row[t].root})
  /\ ended' = ended \union {row[t].root}
  /\ UNCHANGED <<closed, removed, forked, endedAll>>

LogoutAll ==
  /\ Active # {}
  /\ Revoke(Active)
  /\ Overtake(Roots(Active))
  /\ endedAll' = endedAll \union Roots(Active)
  /\ UNCHANGED <<closed, removed, forked, ended>>

-----------------------------------------------------------------------------
(* Seven days, thirty days, the purge; the tenant and the employee *)

Grow(t) ==
  /\ ~Is(t, "absent") /\ ~Is(t, "purged") /\ row[t].age # "old"
  /\ row' = [row EXCEPT ![t].age = IF @ = "fresh" THEN "expired" ELSE "old"]
  /\ UNCHANGED <<call, closed, removed, forked, ended, endedAll>>

\* Mutant: the age of a row taken for its status.
MutPurge ==
  LET stale == {t \in Tokens : row[t].age = "old" /\ ~Is(t, "purged")} IN
  /\ stale # {}
  /\ row' = [t \in Tokens |-> IF t \in stale THEN [row[t] EXCEPT !.st = "expired"] ELSE row[t]]
  /\ UNCHANGED <<call, closed, removed, forked, ended, endedAll>>

\* purgeStaleTokens: expired or revoked, and older than 30 days.
Purge ==
  LET stale == {t \in Tokens : row[t].age = "old" /\ ~Is(t, "purged")} IN
  /\ stale # {}
  /\ row' = [t \in Tokens |-> IF t \in stale THEN [row[t] EXCEPT !.st = "purged"] ELSE row[t]]
  /\ UNCHANGED <<call, closed, removed, forked, ended, endedAll>>

Suspend == closed' = ~closed /\ UNCHANGED <<row, call, removed, forked, ended, endedAll>>

Remove == ~removed /\ removed' = TRUE /\ UNCHANGED <<row, call, closed, forked, ended, endedAll>>

-----------------------------------------------------------------------------
SessionInit ==
  /\ row = [t \in Tokens |-> Unissued]
  /\ call = [c \in Calls |-> NoCall]
  /\ closed = FALSE /\ removed = FALSE
  /\ forked = {} /\ ended = {} /\ endedAll = {}

SessionNext ==
  \/ \E c \in Calls : LoginRead(c) \/ LoginEmployee(c) \/ LoginIssue(c) \/ RefreshLook(c) \/ Rotate(c)
  \/ \E c \in Calls, t \in Tokens : RefreshRead(c, t) \/ Replay(c, t)
  \/ \E t \in Tokens : Logout(t) \/ Grow(t)
  \/ LogoutAll \/ Purge \/ Suspend \/ Remove

Spec == SessionInit /\ [][SessionNext]_sessionVars

-----------------------------------------------------------------------------
(* Properties *)

TypeOK ==
  /\ row \in [Tokens -> Row] /\ call \in [Calls -> Progress]
  /\ closed \in BOOLEAN /\ removed \in BOOLEAN
  /\ forked \subseteq Tokens /\ ended \subseteq Tokens /\ endedAll \subseteq Tokens

\* Rotation: a login has at most one session that a request may use, unless
\* one of its rows was refreshed twice at the same time.
OneSessionPerLogin ==
  \A t, u \in Tokens :
    Usable(t) /\ Usable(u) /\ t # u => row[t].root # row[u].root \/ row[t].root \in forked

\* A login that ended stays ended, however its row was rotated: a session is
\* usable after logoutAll or a replay only if it comes from a refresh that had
\* read its row before, and after logout only then or if the login was forked.
EndedStaysEnded ==
  \A t \in Tokens : Usable(t) =>
    /\ row[t].root \in endedAll => row[t].late
    /\ row[t].root \in ended => row[t].late \/ row[t].root \in forked
=============================================================================
