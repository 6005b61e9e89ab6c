----------------------- MODULE LoginSessions_proofs -----------------------
(***************************************************************************)
(* Proofs about LoginSessions for every number of calls and rows.          *)
(***************************************************************************)
EXTENDS LoginSessions, TLAPS

(* The strengthening: a row is live while a request may use it or a refresh *)
(* that has read it may still rotate it.                                    *)

Holds(c, t) == call[c].tok = t
Live(t)     == Is(t, "active") \/ \E c \in Calls : Holds(c, t)

\* A refresh holds a row that was issued, no other call holds one.
CallsOK ==
  \A c \in Calls : IF call[c].pc \in {"look", "rotate"}
                   THEN call[c].tok \in Tokens /\ ~Is(call[c].tok, "absent")
                   ELSE call[c].tok = None

\* An issued row descends from an issued row.
RowsOK ==
  \A t \in Tokens : IF Is(t, "absent") THEN Fresh(t)
                    ELSE row[t].root \in Tokens /\ ~Is(row[t].root, "absent")

HistoryOK == \A t \in forked \union ended \union endedAll : t \in Tokens /\ ~Is(t, "absent")

\* Two live rows of a login, or two refreshes of one row, are a fork.
ForksNoted ==
  /\ \A t, u \in Tokens :
       Live(t) /\ Live(u) /\ t # u /\ row[t].root = row[u].root => row[t].root \in forked
  /\ \A c, d \in Calls : c # d /\ call[c].tok = call[d].tok /\ call[c].tok # None
                         => row[call[c].tok].root \in forked

\* What is left of a login that ended was read before its end.
EndsNoted(t, late) ==
  /\ row[t].root \in endedAll => late
  /\ row[t].root \in ended => late \/ row[t].root \in forked

LateNoted ==
  /\ \A t \in Tokens : Is(t, "active") => EndsNoted(t, row[t].late)
  /\ \A c \in Calls : call[c].tok # None =>
       EndsNoted(call[c].tok, row[call[c].tok].late \/ call[c].late)

IInv == TypeOK /\ CallsOK /\ RowsOK /\ HistoryOK /\ ForksNoted /\ LateNoted

-----------------------------------------------------------------------------
(* What the operators of the model do *)

\* Revoke changes the status of the rows it is given, and nothing else.
LEMMA RevokeRows ==
  ASSUME TypeOK, NEW S, Revoke(S)
  PROVE  /\ row' \in [Tokens -> Row]
         /\ \A t \in Tokens : /\ row'[t].root = row[t].root
                              /\ row'[t].late = row[t].late
                              /\ row'[t].age = row[t].age
                              /\ row'[t].st = IF t \in S THEN "revoked" ELSE row[t].st
  BY DEF TypeOK, Row, Progress, Revoke

\* A row that is issued has the login and the mark it is given.
LEMMA IssueFields ==
  ASSUME NEW t, NEW root, NEW late
  PROVE  Issue(t, root, late).root = root /\ Issue(t, root, late).late = late
  BY DEF Issue

\* Overtake marks the calls that hold a row of the logins, and only marks.
LEMMA OvertakeCalls ==
  ASSUME TypeOK, NEW roots, Overtake(roots)
  PROVE  /\ call' \in [Calls -> Progress]
         /\ \A c \in Calls : /\ call'[c].pc = call[c].pc
                             /\ call'[c].tok = call[c].tok
                             /\ call[c].late => call'[c].late
                             /\ call[c].tok # None /\ row[call[c].tok].root \in roots => call'[c].late
  BY ZenonT(60) DEF TypeOK, Row, Progress, Overtake

\* A step of a call on its way keeps the rows it holds.
LEMMA StepKeeps ==
  ASSUME IInv, NEW c \in Calls,
         call' \in [Calls -> Progress],
         call'[c].pc \in {"look", "rotate"} => call[c].pc \in {"look", "rotate"},
         call'[c].tok = IF call'[c].pc \in {"look", "rotate"} THEN call[c].tok ELSE None,
         call'[c].tok # None => call'[c].late = call[c].late,
         \A d \in Calls : d # c => call'[d] = call[d],
         UNCHANGED <<row, closed, removed, forked, ended, endedAll>>
  PROVE  IInv'
  <1> USE DEF IInv, TypeOK, Row, Progress
  <1>1. TypeOK'
    OBVIOUS
  <1>2. CallsOK'
    BY DEF CallsOK, Is
  <1>3. RowsOK' /\ HistoryOK'
    BY DEF RowsOK, Fresh, HistoryOK, Is
  <1>4. ForksNoted'
    <2>1. \A d \in Calls : call'[d].tok \in {call[d].tok, None}
      OBVIOUS
    <2>2. \A t \in Tokens : Live(t)' => Live(t)
      BY <2>1, NoneAssumption DEF Live, Holds, Is
    <2>3. QED
      BY <2>1, <2>2 DEF ForksNoted
  <1>5. LateNoted'
    BY DEF LateNoted, EndsNoted, Is, CallsOK
  <1>6. QED
    BY <1>1, <1>2, <1>3, <1>4, <1>5

-----------------------------------------------------------------------------
(* The steps that change a row *)

\* A login opens a session of its own.
LEMMA IssueStep == ASSUME IInv, NEW c \in Calls, LoginIssue(c) PROVE IInv'
  <1> USE DEF IInv
  <1>1. PICK n \in Unused : row' = [row EXCEPT ![n] = Issue(n, n, FALSE)]
    BY DEF LoginIssue
  <1>2. /\ n \in Tokens /\ Is(n, "absent")
        /\ call[c].tok = None
        /\ call' = [call EXCEPT ![c] = NoCall]
        /\ UNCHANGED <<closed, removed, forked, ended, endedAll>>
    BY DEF Unused, LoginIssue, Done, At, CallsOK
  <1>3. TypeOK'
    BY <1>1, <1>2 DEF TypeOK, Row, Progress, Issue, NoCall
  <1>4. /\ \A d \in Calls : call'[d].tok = call[d].tok /\ call'[d].tok # n
        /\ \A d \in Calls : d # c => call'[d] = call[d]
    BY <1>2, NoneAssumption DEF TypeOK, Row, Progress, NoCall, CallsOK, Is
  <1>5. /\ row'[n] = Issue(n, n, FALSE)
        /\ \A t \in Tokens : t # n => row'[t] = row[t]
    BY <1>1, <1>2 DEF TypeOK, Row, Progress
  <1>6. CallsOK'
    BY <1>2, <1>4, <1>5 DEF CallsOK, Is, TypeOK, Row, Progress, NoCall
  <1>7. RowsOK' /\ HistoryOK'
    BY <1>2, <1>5 DEF RowsOK, Fresh, HistoryOK, Is, Issue
  <1>8. \A t \in Tokens : t # n /\ Live(t)' => Live(t) /\ row'[t].root # n
    BY <1>2, <1>4, <1>5, NoneAssumption DEF Live, Holds, Is, RowsOK, CallsOK
  <1>9. ForksNoted'
    <2>1. \A t \in Tokens, u \in Tokens :
            Live(t)' /\ Live(u)' /\ t # u /\ row'[t].root = row'[u].root => t # n /\ u # n
      BY <1>5, <1>8 DEF Issue
    <2>2. \A d, e \in Calls : d # e /\ call'[d].tok = call'[e].tok /\ call'[d].tok # None
                              => row'[call'[d].tok].root \in forked'
      BY <1>2, <1>4, <1>5 DEF ForksNoted, TypeOK, Row, Progress
    <2>3. QED
      BY <1>2, <1>5, <1>8, <2>1, <2>2 DEF ForksNoted
  <1>10. LateNoted'
    BY <1>2, <1>4, <1>5 DEF LateNoted, EndsNoted, HistoryOK, Is, Issue, TypeOK, Row, Progress
  <1>11. QED
    BY <1>3, <1>6, <1>7, <1>9, <1>10

\* A refresh that reads a row another one holds is a fork.
LEMMA RefreshStep == ASSUME IInv, NEW c \in Calls, NEW t \in Tokens, RefreshRead(c, t) PROVE IInv'
  <1> USE DEF IInv
  <1>1. /\ Is(t, "active") /\ call[c].tok = None
        /\ call' = [call EXCEPT ![c] = [pc |-> "look", tok |-> t, late |-> FALSE]]
        /\ UNCHANGED <<row, closed, removed, ended, endedAll>>
    BY DEF RefreshRead, At, CallsOK
  <1>2. /\ row[t].root \in Tokens /\ ~Is(row[t].root, "absent")
        /\ forked \subseteq forked' /\ forked' \subseteq forked \union {row[t].root}
        /\ \A d \in Calls : call[d].tok = t => row[t].root \in forked'
    BY <1>1 DEF RefreshRead, RowsOK, Is
  <1>3. /\ call'[c] = [pc |-> "look", tok |-> t, late |-> FALSE]
        /\ \A d \in Calls : d # c => call'[d] = call[d]
    BY <1>1 DEF TypeOK, Row, Progress
  <1>4. TypeOK'
    BY <1>1, <1>2 DEF TypeOK, Row, Progress
  <1>5. CallsOK' /\ RowsOK' /\ HistoryOK'
    BY <1>1, <1>2, <1>3 DEF CallsOK, RowsOK, Fresh, HistoryOK, Is
  <1>6. ForksNoted'
    <2>1. \A u \in Tokens : Live(u)' => Live(u)
      BY <1>1, <1>3 DEF Live, Holds, Is
    <2>2. \A d, e \in Calls : d # e /\ call'[d].tok = call'[e].tok /\ call'[d].tok # None
                              => row'[call'[d].tok].root \in forked'
      BY <1>1, <1>2, <1>3 DEF ForksNoted
    <2>3. QED
      BY <1>1, <1>2, <2>1, <2>2 DEF ForksNoted
  <1>7. LateNoted'
    <2>1. EndsNoted(t, row[t].late)
      BY <1>1 DEF LateNoted
    <2>2. QED
      BY <1>1, <1>2, <1>3, <2>1 DEF LateNoted, EndsNoted, Is
  <1>8. QED
    BY <1>4, <1>5, <1>6, <1>7

\* What Replay and LogoutAll share.
LEMMA EndAllStep ==
  ASSUME IInv, Revoke(Active), Overtake(Roots(Active)),
         endedAll' = endedAll \union Roots(Active), UNCHANGED <<closed, removed, forked, ended>>
  PROVE  IInv'
  <1> USE DEF IInv
  <1>1. /\ \A t \in Tokens : /\ row'[t].root = row[t].root
                             /\ row'[t].late = row[t].late
                             /\ row'[t].age = row[t].age
                             /\ ~Is(t, "active")'
                             /\ Is(t, "absent")' <=> Is(t, "absent")
    BY RevokeRows DEF Active, Is
  <1>2. \A c \in Calls : /\ call'[c].pc = call[c].pc
                         /\ call'[c].tok = call[c].tok
                         /\ call[c].late => call'[c].late
                         /\ call[c].tok # None /\ row[call[c].tok].root \in Roots(Active) => call'[c].late
    BY OvertakeCalls
  <1>3. \A r \in Roots(Active) : r \in Tokens /\ ~Is(r, "absent")
    BY DEF Roots, Active, RowsOK, Is
  <1>4. TypeOK'
    BY RevokeRows, OvertakeCalls, <1>3 DEF TypeOK, Row, Progress
  <1>5. CallsOK' /\ RowsOK' /\ HistoryOK'
    BY <1>1, <1>2, <1>3 DEF CallsOK, RowsOK, Fresh, HistoryOK, TypeOK, Row, Progress
  <1>6. ForksNoted'
    <2>1. \A t \in Tokens : Live(t)' => Live(t)
      BY <1>1, <1>2 DEF Live, Holds
    <2>2. \A d, e \in Calls : d # e /\ call'[d].tok = call'[e].tok /\ call'[d].tok # None
                              => row'[call'[d].tok].root \in forked'
      BY <1>1, <1>2 DEF ForksNoted, TypeOK, Row, Progress
    <2>3. QED
      BY <1>1, <2>1, <2>2 DEF ForksNoted
  <1>7. LateNoted'
    BY <1>1, <1>2 DEF LateNoted, EndsNoted, TypeOK, Row, Progress
  <1>8. QED
    BY <1>4, <1>5, <1>6, <1>7

\* A logout leaves no usable row of its login but those a fork made.
LEMMA LogoutStep == ASSUME IInv, NEW t \in Tokens, Logout(t) PROVE IInv'
  <1> USE DEF IInv
  <1>1. /\ Is(t, "active") /\ Revoke({t}) /\ Overtake({row[t].root})
        /\ ended' = ended \union {row[t].root}
        /\ UNCHANGED <<closed, removed, forked, endedAll>>
    BY DEF Logout
  <1>2. \A u \in Tokens : /\ row'[u].root = row[u].root
                          /\ row'[u].late = row[u].late
                          /\ row'[u].age = row[u].age
                          /\ Is(u, "active")' => Is(u, "active") /\ u # t
                          /\ Is(u, "absent")' <=> Is(u, "absent")
    BY <1>1, RevokeRows DEF Is
  <1>3. \A c \in Calls : /\ call'[c].pc = call[c].pc
                         /\ call'[c].tok = call[c].tok
                         /\ call[c].late => call'[c].late
                         /\ call[c].tok # None /\ row[call[c].tok].root = row[t].root => call'[c].late
    BY <1>1, OvertakeCalls
  <1>4. row[t].root \in Tokens /\ ~Is(row[t].root, "absent")
    BY <1>1 DEF RowsOK, Fresh, Is
  <1>5. TypeOK'
    BY <1>1, <1>4, RevokeRows, OvertakeCalls DEF TypeOK, Row, Progress
  <1>6. CallsOK' /\ RowsOK' /\ HistoryOK'
    BY <1>1, <1>2, <1>3, <1>4 DEF CallsOK, RowsOK, Fresh, HistoryOK, TypeOK, Row, Progress
  <1>7. ForksNoted'
    <2>1. \A u \in Tokens : Live(u)' => Live(u)
      BY <1>2, <1>3 DEF Live, Holds
    <2>2. \A d, e \in Calls : d # e /\ call'[d].tok = call'[e].tok /\ call'[d].tok # None
                              => row'[call'[d].tok].root \in forked'
      BY <1>1, <1>2, <1>3 DEF ForksNoted, TypeOK, Row, Progress
    <2>3. QED
      BY <1>1, <1>2, <2>1, <2>2 DEF ForksNoted
  <1>8. LateNoted'
    <2>1. \A u \in Tokens : Is(u, "active")' => EndsNoted(u, row[u].late)'
      <3>1. \A u \in Tokens : Is(u, "active")' /\ row[u].root = row[t].root => row[u].root \in forked
        BY <1>1, <1>2 DEF ForksNoted, Live
      <3>2. QED
        BY <1>1, <1>2, <3>1 DEF LateNoted, EndsNoted
    <2>2. \A c \in Calls : call'[c].tok # None =>
            EndsNoted(call[c].tok, row[call[c].tok].late \/ call[c].late)'
      BY <1>1, <1>2, <1>3 DEF LateNoted, EndsNoted, TypeOK, Row, Progress
    <2>3. QED
      BY <2>1, <2>2 DEF LateNoted
  <1>9. QED
    BY <1>5, <1>6, <1>7, <1>8

\* The row a rotation issues takes the place of the one it consumes.
LEMMA RotateStep == ASSUME IInv, NEW c \in Calls, Rotate(c) PROVE IInv'
  <1> USE DEF IInv
  <1>1. PICK t \in Tokens : /\ t = call[c].tok /\ ~Is(t, "absent")
                            /\ call' = [call EXCEPT ![c] = NoCall]
                            /\ UNCHANGED <<closed, removed, forked, ended, endedAll>>
    BY DEF Rotate, At, Done, CallsOK
  <1>2. PICK n \in Unused :
          row' = [row EXCEPT ![t].st = IF @ = "purged" THEN @ ELSE "revoked",
                             ![n] = Issue(n, row[t].root, row[t].late \/ call[c].late)]
    BY <1>1 DEF Rotate
  <1>3. /\ n \in Tokens /\ Is(n, "absent") /\ n # t
        /\ row[t].root \in Tokens /\ ~Is(row[t].root, "absent")
    BY <1>1 DEF Unused, RowsOK, Is
  <1>4. TypeOK'
    BY <1>1, <1>2, <1>3, SMTT(30) DEF TypeOK, Row, Progress, Issue, NoCall
  <1>5. /\ row'[n] = Issue(n, row[t].root, row[t].late \/ call[c].late)
        /\ row'[t].st \in {"purged", "revoked"} /\ row'[t].root = row[t].root /\ row'[t].late = row[t].late
        /\ \A u \in Tokens : u # n /\ u # t => row'[u] = row[u]
    BY <1>1, <1>2, <1>3, ZenonT(60) DEF TypeOK, Row, Progress
  <1>6. /\ call'[c] = NoCall
        /\ \A d \in Calls : d # c => call'[d] = call[d]
        /\ \A d \in Calls : call[d].tok # n
    BY <1>1, <1>3, NoneAssumption DEF TypeOK, Row, Progress, CallsOK, Is
  <1>7. CallsOK'
    BY <1>3, <1>5, <1>6 DEF CallsOK, Is, NoCall
  <1>8. RowsOK' /\ HistoryOK'
    BY <1>1, <1>3, <1>5 DEF RowsOK, Fresh, HistoryOK, Is, Issue
  <1>9. ForksNoted'
    <2>1. \A u \in Tokens : u # n /\ u # t /\ Live(u)' => Live(u)
      BY <1>5, <1>6, NoneAssumption DEF Live, Holds, Is, NoCall
    <2>2. Live(t) /\ (Live(t)' => row[t].root \in forked)
      BY <1>1, <1>5, <1>6, NoneAssumption DEF Live, Holds, Is, NoCall, ForksNoted
    <2>3. \A u \in Tokens : u # n /\ Live(u)' /\ row[u].root = row[t].root => row[t].root \in forked
      BY <1>1, <2>1, <2>2 DEF ForksNoted
    <2>4. \A u, v \in Tokens :
            Live(u)' /\ Live(v)' /\ u # v /\ row'[u].root = row'[v].root => row'[u].root \in forked'
      <3>1. \A u \in Tokens : row'[u].root = IF u = n THEN row[t].root ELSE row[u].root
        BY <1>5 DEF Issue
      <3>2. \A u \in Tokens : u # n /\ Live(u)' => Live(u)
        BY <2>1, <2>2
      <3>3. QED
        BY <1>1, <2>3, <3>1, <3>2 DEF ForksNoted
    <2>5. \A d, e \in Calls : d # e /\ call'[d].tok = call'[e].tok /\ call'[d].tok # None
                              => row'[call'[d].tok].root \in forked'
      BY <1>1, <1>5, <1>6 DEF ForksNoted, NoCall, TypeOK, Row, Progress
    <2>6. QED
      BY <2>4, <2>5 DEF ForksNoted
  <1>10. LateNoted'
    <2>1. EndsNoted(t, row[t].late \/ call[c].late)
      BY <1>1, NoneAssumption DEF LateNoted
    <2>2. EndsNoted(n, row[n].late)'
      <3>1. /\ row'[n].root = row[t].root
            /\ row'[n].late = (row[t].late \/ call[c].late)
        BY <1>5, IssueFields
      <3>2. QED
        BY <1>1, <2>1, <3>1 DEF EndsNoted
    <2>3. \A u \in Tokens : Is(u, "active")' => EndsNoted(u, row[u].late)'
      BY <1>1, <1>5, <2>2 DEF LateNoted, EndsNoted, Is
    <2>4. \A d \in Calls : call'[d].tok # None =>
            EndsNoted(call[d].tok, row[call[d].tok].late \/ call[d].late)'
      BY <1>1, <1>5, <1>6 DEF LateNoted, EndsNoted, NoCall, TypeOK, Row, Progress
    <2>5. QED
      BY <2>3, <2>4 DEF LateNoted
  <1>11. QED
    BY <1>4, <1>7, <1>8, <1>9, <1>10

\* Growing old and the purge activate no row.
LEMMA AgeStep ==
  ASSUME IInv,
         row' \in [Tokens -> Row],
         \A t \in Tokens : /\ row'[t].root = row[t].root
                           /\ row'[t].late = row[t].late
                           /\ row'[t].st \in {row[t].st, "purged"}
                           /\ row[t].st = "absent" => row'[t] = row[t],
         UNCHANGED <<call, closed, removed, forked, ended, endedAll>>
  PROVE  IInv'
  <1> USE DEF IInv
  <1>1. TypeOK'
    BY DEF TypeOK, Row, Progress
  <1>2. CallsOK' /\ RowsOK' /\ HistoryOK'
    BY DEF CallsOK, RowsOK, Fresh, HistoryOK, Is, TypeOK, Row, Progress
  <1>3. \A t \in Tokens : (Is(t, "active")' => Is(t, "active")) /\ (Live(t)' => Live(t))
    BY DEF Live, Holds, Is
  <1>4. ForksNoted'
    BY <1>3 DEF ForksNoted, TypeOK, Row, Progress
  <1>5. LateNoted'
    BY <1>3 DEF LateNoted, EndsNoted, TypeOK, Row, Progress
  <1>6. QED
    BY <1>1, <1>2, <1>4, <1>5

-----------------------------------------------------------------------------
(* The theorems *)

\* Every step keeps the strengthening.
LEMMA Inductive == IInv /\ [SessionNext]_sessionVars => IInv'
  <1> SUFFICES ASSUME IInv, [SessionNext]_sessionVars
               PROVE  IInv'
    OBVIOUS
  <1>1. ASSUME NEW c \in Calls, LoginRead(c) \/ LoginEmployee(c) \/ RefreshLook(c)
        PROVE  IInv'
    <2>1. call[c].pc = "idle" \/ call[c].pc = "employee" => call[c].tok = None
      BY DEF IInv, CallsOK
    <2>2. call' \in [Calls -> Progress]
      <3>1. \/ call' = [call EXCEPT ![c] = NoCall]
            \/ \E pc \in {"idle", "employee", "issue", "rotate"} : call' = [call EXCEPT ![c].pc = pc]
        BY <1>1 DEF LoginRead, LoginEmployee, RefreshLook, To, Done
      <3>2. CASE call' = [call EXCEPT ![c] = NoCall]
        BY <3>2 DEF IInv, TypeOK, Row, Progress, NoCall
      <3>3. ASSUME NEW pc \in {"idle", "employee", "issue", "rotate"}, call' = [call EXCEPT ![c].pc = pc]
            PROVE  call' \in [Calls -> Progress]
        BY <3>3 DEF IInv, TypeOK, Row, Progress
      <3>4. QED
        BY <3>1, <3>2, <3>3
    <2>3. \A d \in Calls : d # c => call'[d] = call[d]
      BY <1>1 DEF LoginRead, LoginEmployee, RefreshLook, To, Done, IInv, TypeOK, Row, Progress
    <2>4. \/ call'[c] = NoCall
          \/ /\ call'[c].tok = call[c].tok /\ call'[c].late = call[c].late
             /\ \/ call'[c].pc \in {"employee", "idle", "issue"} /\ call[c].pc \in {"employee", "idle"}
                \/ call'[c].pc = "rotate" /\ call[c].pc = "look"
      BY <1>1 DEF LoginRead, LoginEmployee, RefreshLook, At, To, Done, IInv, TypeOK, Row, Progress
    <2>5. UNCHANGED <<row, closed, removed, forked, ended, endedAll>>
      BY <1>1 DEF LoginRead, LoginEmployee, RefreshLook
    <2>6. /\ call'[c].pc \in {"look", "rotate"} => call[c].pc \in {"look", "rotate"}
          /\ call'[c].tok = IF call'[c].pc \in {"look", "rotate"} THEN call[c].tok ELSE None
          /\ call'[c].tok # None => call'[c].late = call[c].late
      <3>1. CASE call'[c] = NoCall
        BY <3>1 DEF NoCall
      <3>2. CASE call'[c] # NoCall
        BY <2>1, <2>4, <3>2
      <3>3. QED
        BY <3>1, <3>2
    <2>7. QED
      BY <2>2, <2>3, <2>5, <2>6, StepKeeps
  <1>2. ASSUME NEW c \in Calls, LoginIssue(c)
        PROVE  IInv'
    BY <1>2, IssueStep
  <1>3. ASSUME NEW c \in Calls, Rotate(c)
        PROVE  IInv'
    BY <1>3, RotateStep
  <1>4. ASSUME NEW c \in Calls, NEW t \in Tokens, RefreshRead(c, t)
        PROVE  IInv'
    BY <1>4, RefreshStep
  <1>5. ASSUME NEW c \in Calls, NEW t \in Tokens, Replay(c, t)
        PROVE  IInv'
    BY <1>5, EndAllStep DEF Replay
  <1>6. CASE LogoutAll
    BY <1>6, EndAllStep DEF LogoutAll
  <1>7. ASSUME NEW t \in Tokens, Logout(t)
        PROVE  IInv'
    BY <1>7, LogoutStep
  <1>8. ASSUME NEW t \in Tokens, Grow(t)
        PROVE  IInv'
    BY <1>8, AgeStep DEF Grow, Is, IInv, TypeOK, Row, Progress
  <1>9. CASE Purge
    <2> USE DEF IInv
    <2>1. \A t \in Tokens : row'[t] = row[t] \/ row'[t] = [row[t] EXCEPT !.st = "purged"]
      BY <1>9 DEF Purge
    <2>2. /\ row' \in [Tokens -> Row]
          /\ UNCHANGED <<call, closed, removed, forked, ended, endedAll>>
      BY <1>9 DEF Purge, TypeOK, Row, Progress
    <2>3. \A t \in Tokens : Is(t, "absent") => row[t].age = "fresh"
      BY DEF RowsOK, Fresh
    <2>4. QED
      BY <1>9, <2>1, <2>2, <2>3, AgeStep DEF Purge, Is, TypeOK, Row, Progress
  <1>10. CASE Suspend \/ Remove \/ UNCHANGED sessionVars
    <2> USE DEF IInv
    <2>1. TypeOK' /\ UNCHANGED <<row, call, forked, ended, endedAll>>
      BY <1>10 DEF TypeOK, Row, Progress, Suspend, Remove, sessionVars
    <2>2. QED
      BY <2>1 DEF CallsOK, RowsOK, Fresh, HistoryOK, ForksNoted, LateNoted, EndsNoted, Live, Holds, Is
  <1>11. QED
    BY <1>1, <1>2, <1>3, <1>4, <1>5, <1>6, <1>7, <1>8, <1>9, <1>10 DEF SessionNext

\* The strengthening holds throughout.
LEMMA Invariance == Spec => []IInv
  <1>1. SessionInit => IInv
    <2> SUFFICES ASSUME SessionInit PROVE IInv
      OBVIOUS
    <2>1. TypeOK /\ (\A t \in Tokens : row[t] = Unissued) /\ (\A c \in Calls : call[c] = NoCall)
      BY DEF SessionInit, TypeOK, Row, Progress, Unissued, NoCall
    <2>2. CallsOK /\ RowsOK /\ HistoryOK
      BY <2>1 DEF CallsOK, RowsOK, HistoryOK, SessionInit, Is, Fresh, Unissued, NoCall
    <2>3. ForksNoted
      BY <2>1, NoneAssumption DEF ForksNoted, Live, Holds, Is, Unissued, NoCall
    <2>4. LateNoted
      BY <2>1 DEF LateNoted, Is, Unissued, NoCall
    <2>5. QED
      BY <2>1, <2>2, <2>3, <2>4 DEF IInv
  <1>2. QED
    BY <1>1, Inductive, PTL DEF Spec

\* Every variable of the sessions keeps its type.
THEOREM SessionTypes == Spec => []TypeOK
  <1>1. IInv => TypeOK
    BY DEF IInv
  <1>2. QED
    BY <1>1, Invariance, PTL

\* Rotation, refreshToken: whatever the number of refreshes, logouts and
\* purges on the way, a login has one usable session unless it was forked.
THEOREM OneSession == Spec => []OneSessionPerLogin
  <1>1. IInv => OneSessionPerLogin
    BY DEF IInv, ForksNoted, OneSessionPerLogin, Usable, Live
  <1>2. QED
    BY <1>1, Invariance, PTL

\* logout, logoutAll and the replay of a token: only a refresh that had read
\* its row before, or a fork, leaves a session of a login that ended.
THEOREM LogoutHolds == Spec => []EndedStaysEnded
  <1>1. IInv => EndedStaysEnded
    BY DEF IInv, LateNoted, EndsNoted, EndedStaysEnded, Usable
  <1>2. QED
    BY <1>1, Invariance, PTL
=============================================================================
