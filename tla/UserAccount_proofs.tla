------------------------- MODULE UserAccount_proofs -------------------------
(***************************************************************************)
(* Proofs about UserAccount for every number of concurrent calls, every    *)
(* limit of attempts and every bound.                                      *)
(***************************************************************************)
EXTENDS UserAccount, FiniteSetTheorems, TLAPS

(* The strengthening.  Whatever overlaps, what a call remembers of the      *)
(* counter and the lock was justified by the wrong passwords so far, and a  *)
(* wrong password that is still to be counted is one of tries.  While       *)
(* nothing overlaps, what the one call in progress remembers is still true. *)

RowsOK ==
  /\ user \in User
  /\ emp \in [invite : Statuses, old : BOOLEAN]
  /\ call \in [Calls -> CallRecord]
  /\ misses \in Nat /\ tries \in 0 .. MaxMisses
  /\ upsets \in 0 .. MaxUpsets /\ overlaps \in 0 .. MaxOverlaps

Justified(u) == u.attempts <= tries /\ (u.locked => tries >= MaxAttempts)

CallOK(c) ==
  /\ Justified(call[c].user)
  /\ At(c, "count") => call[c].user.attempts + 1 <= tries

Counting  == {c \in Calls : At(c, "count")}
Accounted == IsFiniteSet(Counting) /\ misses + Cardinality(Counting) <= tries

\* What the call in progress remembers is what the rows hold.
Current(c) ==
  LET u == call[c].user IN
  /\ At(c, "count") => u.attempts = user.attempts
  /\ At(c, "resend") \/ At(c, "edit") =>
       /\ u.attempts = user.attempts /\ (u.locked => user.locked)
       /\ u.pwd = user.pwd /\ u.first = user.first /\ u.verified = user.verified
  /\ At(c, "edit") => u.link = user.link
  /\ At(c, "edit") \/ At(c, "edited") => call[c].invite = emp.invite
  /\ At(c, "resend") \/ At(c, "resent") => emp.invite = "expired"
  /\ At(c, "expire") => emp.invite = "sent"

Alone ==
  /\ \A c, d \in Calls : ~At(c, "idle") /\ ~At(d, "idle") => c = d
  /\ \A c \in Calls : Current(c)

IInv ==
  /\ RowsOK /\ Accounted
  /\ Justified(user) /\ \A c \in Calls : CallOK(c)
  /\ overlaps = 0 => Alone
  /\ UnracedCount

-----------------------------------------------------------------------------
(* Lemmas *)

\* Rows that a call may remember before it reads any.
LEMMA NewUserType == ASSUME RowsOK PROVE NewUser \in User /\ Justified(NewUser)
  BY BoundsAssumption, AttemptsAssumption DEF RowsOK, NewUser, User, Links, Justified

\* A call that begins overlaps with any that is in progress.
LEMMA BeginCall ==
  ASSUME RowsOK, NEW c \in Calls, NEW pc \in PCs, NEW u \in User, NEW password \in BOOLEAN,
         Begin(c, pc, u, password)
  PROVE  /\ call' \in [Calls -> CallRecord]
         /\ At(c, "idle")
         /\ call'[c] = [pc |-> pc, user |-> u, password |-> password, invite |-> "absent"]
         /\ \A d \in Calls : d # c => call'[d] = call[d]
         /\ overlaps' \in 0 .. MaxOverlaps
         /\ overlaps' = 0 => overlaps = 0 /\ \A d \in Calls : At(d, "idle")
  <1>1. Holding(pc, u, password, "absent") \in CallRecord
    BY DEF Holding, CallRecord, Statuses
  <1>2. QED
    BY <1>1, BoundsAssumption DEF RowsOK, Begin, Overlap, Busy, At, Holding

\* A call that begins with what it has read.
LEMMA BeginStep ==
  ASSUME IInv, NEW c \in Calls, NEW pc \in PCs, NEW u \in User, NEW password \in BOOLEAN,
         Begin(c, pc, u, password), pc \notin {"count", "edit", "edited"}, Justified(u),
         pc = "resend" => /\ u.attempts = user.attempts /\ (u.locked => user.locked)
                          /\ u.pwd = user.pwd /\ u.first = user.first /\ u.verified = user.verified,
         pc \in {"resend", "resent"} => emp.invite = "expired",
         pc = "expire" => emp.invite = "sent",
         UNCHANGED <<user, emp, history>>
  PROVE  IInv'
  <1> USE DEF history
  <1>0. RowsOK
    BY DEF IInv
  <1>1. /\ call' \in [Calls -> CallRecord]
        /\ At(c, "idle")
        /\ call'[c] = [pc |-> pc, user |-> u, password |-> password, invite |-> "absent"]
        /\ \A d \in Calls : d # c => call'[d] = call[d]
        /\ overlaps' \in 0 .. MaxOverlaps
        /\ overlaps' = 0 => overlaps = 0 /\ \A d \in Calls : At(d, "idle")
    BY <1>0, BeginCall
  <1>2. RowsOK'
    BY <1>0, <1>1 DEF RowsOK
  <1>3. Accounted'
    <2>1. Counting' = Counting
      BY <1>1 DEF Counting, At
    <2>2. QED
      BY <2>1 DEF IInv, Accounted
  <1>4. Justified(user)' /\ \A d \in Calls : CallOK(d)'
    <2>1. Justified(user)' /\ \A d \in Calls : d # c => CallOK(d)'
      BY <1>1 DEF IInv, CallOK, Justified, At
    <2>2. CallOK(c)'
      BY <1>1 DEF CallOK, Justified, At
    <2>3. QED
      BY <2>1, <2>2
  <1>5. overlaps' = 0 => Alone'
    <2>1. ASSUME overlaps' = 0 PROVE Current(c)' /\ \A d \in Calls : d # c => At(d, "idle")'
      BY <1>1, <2>1 DEF Current, At
    <2>2. ASSUME overlaps' = 0, NEW d \in Calls, d # c PROVE Current(d)'
      BY <2>1, <2>2 DEF Current, At
    <2>3. QED
      BY <2>1, <2>2 DEF Alone
  <1>6. UnracedCount'
    BY <1>1 DEF IInv, UnracedCount, raced
  <1>7. QED
    BY <1>2, <1>3, <1>4, <1>5, <1>6 DEF IInv

\* A wrong password is tried before it is counted.
LEMMA WrongStep == ASSUME IInv, NEW c \in Calls, WrongPassword(c) PROVE IInv'
  <1>1. RowsOK
    BY DEF IInv
  <1>2. /\ Begin(c, "count", Counter, TRUE) /\ tries' = tries + 1 /\ tries < MaxMisses
        /\ UNCHANGED <<user, emp, misses, upsets>>
    BY DEF WrongPassword
  <1>3. /\ Counter \in User /\ Counter.attempts = user.attempts /\ ~Counter.locked
        /\ "count" \in PCs /\ TRUE \in BOOLEAN
    BY <1>1, NewUserType DEF Counter, RowsOK, User, NewUser, PCs
  <1>4. /\ call' \in [Calls -> CallRecord]
        /\ At(c, "idle")
        /\ call'[c] = [pc |-> "count", user |-> Counter, password |-> TRUE, invite |-> "absent"]
        /\ \A d \in Calls : d # c => call'[d] = call[d]
        /\ overlaps' \in 0 .. MaxOverlaps
        /\ overlaps' = 0 => overlaps = 0 /\ \A d \in Calls : At(d, "idle")
    BY <1>1, <1>2, <1>3, BeginCall
  <1>5. RowsOK'
    BY <1>1, <1>2, <1>4, BoundsAssumption DEF RowsOK
  <1>6. Accounted'
    <2>1. Counting' = Counting \union {c} /\ c \notin Counting
      BY <1>4 DEF Counting, At
    <2>2. IsFiniteSet(Counting') /\ Cardinality(Counting') = Cardinality(Counting) + 1
      BY <2>1, FS_AddElement DEF IInv, Accounted
    <2>3. Cardinality(Counting) \in Nat
      BY FS_CardinalityType DEF IInv, Accounted
    <2>4. QED
      BY <1>1, <1>2, <2>2, <2>3 DEF IInv, Accounted, RowsOK
  <1>7. Justified(user)'
    BY <1>1, <1>2, AttemptsAssumption DEF IInv, Justified, RowsOK, User
  <1>8. \A d \in Calls : CallOK(d)'
    <2>1. \A d \in Calls : d # c => CallOK(d)'
      BY <1>1, <1>2, <1>4, AttemptsAssumption DEF IInv, CallOK, Justified, At, RowsOK, CallRecord, User
    <2>2. CallOK(c)'
      BY <1>1, <1>2, <1>3, <1>4 DEF IInv, CallOK, Justified, At, RowsOK, User
    <2>3. QED
      BY <2>1, <2>2
  <1>9. overlaps' = 0 => Alone'
    BY <1>2, <1>3, <1>4 DEF IInv, Alone, Current, At
  <1>10. UnracedCount'
    BY <1>2, <1>4 DEF IInv, UnracedCount, raced
  <1>11. QED
    BY <1>5, <1>6, <1>7, <1>8, <1>9, <1>10 DEF IInv

\* A call in progress writes and goes on or ends.
LEMMA GoStep ==
  ASSUME IInv, NEW c \in Calls, ~At(c, "idle"), ~At(c, "count"),
         call' \in [Calls -> CallRecord],
         \A d \in Calls : d # c => call'[d] = call[d],
         call'[c].user \in {call[c].user, NewUser},
         call'[c].pc \notin {"count", "resend", "expire", "edit"},
         overlaps = 0 /\ call'[c].pc = "resent" => emp'.invite = "expired",
         overlaps = 0 /\ call'[c].pc = "edited" => call'[c].invite = emp'.invite,
         user' \in User, emp' \in [invite : Statuses, old : BOOLEAN], Justified(user'),
         misses' \in 0 .. misses, upsets' \in 0 .. MaxUpsets,
         overlaps = 0 => user'.attempts = misses' /\ (user'.locked => misses' >= MaxAttempts),
         UNCHANGED <<tries, overlaps>>
  PROVE  IInv'
  <1>1. RowsOK
    BY DEF IInv
  <1>2. RowsOK'
    BY <1>1 DEF RowsOK
  <1>3. Accounted'
    <2>1. Counting' = Counting
      BY DEF Counting, At
    <2>2. Cardinality(Counting) \in Nat
      BY FS_CardinalityType DEF IInv, Accounted
    <2>3. QED
      BY <1>1, <2>1, <2>2 DEF IInv, Accounted, RowsOK
  <1>4. Justified(user)' /\ \A d \in Calls : CallOK(d)'
    BY <1>1, NewUserType DEF IInv, CallOK, Justified, At
  <1>5. overlaps' = 0 => Alone'
    <2>1. ASSUME overlaps' = 0 PROVE Current(c)' /\ \A d \in Calls : d # c => At(d, "idle")'
      BY <2>1 DEF IInv, Alone, Current, At
    <2>2. ASSUME overlaps' = 0, NEW d \in Calls, d # c PROVE Current(d)'
      BY <2>1, <2>2 DEF Current, At
    <2>3. QED
      BY <2>1, <2>2 DEF Alone
  <1>6. UnracedCount'
    BY <1>1, BoundsAssumption DEF UnracedCount, raced, RowsOK
  <1>7. QED
    BY <1>2, <1>3, <1>4, <1>5, <1>6 DEF IInv

\* The wrong password is counted on top of what was read.
LEMMA CountStep == ASSUME IInv, NEW c \in Calls, Count(c) PROVE IInv'
  <1> DEFINE attempts == call[c].user.attempts + 1
  <1>1. RowsOK /\ CallOK(c) /\ At(c, "count")
    BY DEF IInv, Count
  <1>2. attempts \in 0 .. MaxMisses /\ attempts <= tries
    BY <1>1, BoundsAssumption DEF RowsOK, CallRecord, User, CallOK
  <1>3. /\ user' = [user EXCEPT !.attempts = attempts, !.locked = @ \/ attempts >= MaxAttempts]
        /\ call' = [call EXCEPT ![c] = NoCall] /\ misses' = misses + 1
        /\ UNCHANGED <<emp, tries, upsets, overlaps>>
    BY DEF Count, Done, GoOn, NoCall
  <1>4. user' \in User
    BY <1>1, <1>2, <1>3 DEF RowsOK, User
  <1>5. NoCall \in CallRecord /\ NoCall.pc = "idle" /\ NoCall.user = NewUser
    BY <1>1, NewUserType DEF NoCall, Holding, PCs, CallRecord, Statuses
  <1>6. /\ call' \in [Calls -> CallRecord]
        /\ call'[c] = NoCall /\ \A d \in Calls : d # c => call'[d] = call[d]
    BY <1>1, <1>3, <1>5 DEF RowsOK
  <1>7. RowsOK'
    BY <1>1, <1>3, <1>4, <1>6 DEF RowsOK
  <1>8. Accounted'
    <2>1. Counting' = Counting \ {c} /\ c \in Counting
      BY <1>1, <1>5, <1>6 DEF Counting, At
    <2>2. IsFiniteSet(Counting') /\ Cardinality(Counting') = Cardinality(Counting) - 1
      BY <2>1, FS_RemoveElement DEF IInv, Accounted
    <2>3. Cardinality(Counting) \in Nat
      BY FS_CardinalityType DEF IInv, Accounted
    <2>4. QED
      BY <1>1, <1>3, <2>2, <2>3 DEF IInv, Accounted, RowsOK
  <1>9. /\ user'.attempts = attempts /\ (user'.locked => user.locked \/ attempts >= MaxAttempts)
    BY <1>1, <1>3 DEF RowsOK, User
  <1>10. Justified(user)'
    <2>1. Justified(user)
      BY DEF IInv
    <2>2. QED
      BY <1>1, <1>2, <1>3, <1>9, <2>1, AttemptsAssumption DEF Justified, RowsOK
  <1>11. \A d \in Calls : CallOK(d)'
    BY <1>1, <1>3, <1>5, <1>6, NewUserType DEF IInv, CallOK, Justified, At
  <1>12. overlaps' = 0 => Alone'
    <2>1. ASSUME overlaps' = 0 PROVE \A d \in Calls : At(d, "idle")'
      BY <1>1, <1>3, <1>5, <1>6, <2>1 DEF IInv, Alone, At
    <2>2. QED
      BY <2>1 DEF Alone, Current, At
  <1>13. UnracedCount'
    <2>1. ASSUME overlaps = 0 PROVE user'.attempts = misses' /\ (user'.locked => misses' >= MaxAttempts)
      <3>1. attempts = misses + 1 /\ (user.locked => misses >= MaxAttempts)
        BY <1>1, <2>1 DEF IInv, Alone, Current, UnracedCount, raced
      <3>2. QED
        BY <1>1, <1>3, <1>9, <3>1, AttemptsAssumption DEF RowsOK
    <2>2. QED
      BY <1>1, <1>3, <2>1, BoundsAssumption DEF UnracedCount, raced, RowsOK
  <1>14. QED
    BY <1>7, <1>8, <1>10, <1>11, <1>12, <1>13 DEF IInv

\* Rows are written back as an edit has read them.
LEMMA EditStep ==
  ASSUME IInv, NEW c \in Calls, EditUser(c) \/ EditProfile(c) \/ SkipUser(c) \/ EditEmployee(c) \/ EditFails(c)
  PROVE  IInv'
  <1>1. RowsOK /\ CallOK(c) /\ Justified(user) /\ (overlaps = 0 => Current(c))
    BY DEF IInv, Alone
  <1>2. NoCall \in CallRecord /\ NoCall.pc = "idle" /\ NoCall.user = NewUser
    BY <1>1, NewUserType DEF NoCall, Holding, PCs, CallRecord, Statuses
  <1>3. overlaps = 0 => user.attempts = misses /\ (user.locked => misses >= MaxAttempts)
    BY DEF IInv, UnracedCount, raced
  <1>4. misses \in 0 .. misses /\ upsets \in 0 .. MaxUpsets
    BY <1>1 DEF RowsOK
  <1>5. ASSUME ThenEmployee(c) \/ Done(c)
        PROVE  /\ call' \in [Calls -> CallRecord] /\ \A d \in Calls : d # c => call'[d] = call[d]
               /\ call'[c].user = NewUser /\ call'[c].pc \in {"edited", "idle"}
               /\ call'[c].pc = "edited" => call'[c].invite = call[c].invite
    <2>1. Holding("edited", NewUser, FALSE, call[c].invite) \in CallRecord
      BY <1>1, NewUserType DEF Holding, RowsOK, CallRecord, PCs
    <2>2. CASE ThenEmployee(c)
      BY <1>1, <2>1, <2>2 DEF ThenEmployee, RowsOK, Holding
    <2>3. CASE Done(c)
      BY <1>1, <1>2, <2>3 DEF Done, GoOn, NoCall, RowsOK
    <2>4. QED
      BY <1>5, <2>2, <2>3
  <1>6. CASE EditUser(c) \/ EditProfile(c)
    <2> DEFINE row == call[c].user
    <2>1. /\ At(c, "edit") /\ (ThenEmployee(c) \/ Done(c))
          /\ UNCHANGED <<emp, misses, tries, overlaps>> /\ (UNCHANGED upsets \/ Upset)
          /\ \E old \in BOOLEAN, pwd \in {row.pwd, "own", "temp"} :
               user' = [row EXCEPT !.linkOld = old, !.pwd = pwd]
      BY <1>6 DEF EditUser, EditProfile, WriteBack
    <2>2. row \in User
      BY <1>1 DEF RowsOK, CallRecord
    <2>3. user' \in User /\ user'.attempts = row.attempts /\ user'.locked = row.locked
      BY <2>1, <2>2 DEF User
    <2>4. Justified(user')
      BY <1>1, <2>3 DEF CallOK, Justified
    <2>5. upsets' \in 0 .. MaxUpsets
      BY <1>4, <2>1, BoundsAssumption DEF Upset
    <2>6. overlaps = 0 => /\ user'.attempts = misses' /\ (user'.locked => misses' >= MaxAttempts)
                          /\ call[c].invite = emp'.invite
      BY <1>1, <1>3, <2>1, <2>3 DEF Current
    <2> HIDE DEF row
    <2>7. QED
      BY <1>1, <1>4, <1>5, <2>1, <2>3, <2>4, <2>5, <2>6, GoStep DEF RowsOK, At
  <1>7. CASE SkipUser(c)
    <2>1. At(c, "edit") /\ ThenEmployee(c) /\ UNCHANGED <<user, emp, history, overlaps>>
      BY <1>7 DEF SkipUser
    <2>2. overlaps = 0 => call[c].invite = emp'.invite
      BY <1>1, <2>1 DEF Current
    <2>3. QED
      BY <1>1, <1>3, <1>4, <1>5, <2>1, <2>2, GoStep DEF RowsOK, At, history
  <1>8. CASE EditEmployee(c)
    <2>1. /\ At(c, "edited") /\ Done(c) /\ UNCHANGED <<user, history, overlaps>>
          /\ emp' = [emp EXCEPT !.invite = call[c].invite]
      BY <1>8 DEF EditEmployee
    <2>2. emp' \in [invite : Statuses, old : BOOLEAN]
      BY <1>1, <2>1 DEF RowsOK, CallRecord
    <2>3. call'[c].pc = "idle"
      BY <1>1, <1>2, <2>1 DEF Done, GoOn, NoCall, RowsOK
    <2>4. QED
      BY <1>1, <1>3, <1>4, <1>5, <2>1, <2>2, <2>3, GoStep DEF RowsOK, At, history
  <1>9. CASE EditFails(c)
    <2>1. /\ ~At(c, "idle") /\ ~At(c, "count")
          /\ Done(c) /\ UNCHANGED <<user, emp, history, overlaps>>
      BY <1>9 DEF EditFails, At
    <2>2. call'[c].pc = "idle"
      BY <1>1, <1>2, <2>1 DEF Done, GoOn, NoCall, RowsOK
    <2>3. QED
      BY <1>1, <1>3, <1>4, <1>5, <2>1, <2>2, GoStep DEF RowsOK, history
  <1>10. QED
    BY <1>6, <1>7, <1>8, <1>9

\* A save of a call in progress that leaves the counter alone.
LEMMA WriteStep ==
  ASSUME IInv, NEW c \in Calls, Step(c), ~Count(c)
  PROVE  IInv'
  <1>1. RowsOK /\ CallOK(c) /\ Justified(user) /\ (overlaps = 0 => Current(c))
    BY DEF IInv, Alone
  <1>2. NoCall \in CallRecord /\ NoCall.pc = "idle" /\ NoCall.user = NewUser
    BY <1>1, NewUserType DEF NoCall, Holding, PCs, CallRecord, Statuses
  <1> DEFINE Next1(pc) == /\ call' \in [Calls -> CallRecord]
                          /\ \A d \in Calls : d # c => call'[d] = call[d]
                          /\ call'[c].user \in {call[c].user, NewUser}
                          /\ call'[c].pc \in {pc, "idle"}
  <1>3. \A pc \in PCs : GoOn(c, pc) => Next1(pc)
    <2>1. \A pc \in PCs : Holding(pc, NewUser, FALSE, "absent") \in CallRecord
      BY <1>1, NewUserType DEF Holding, CallRecord, Statuses
    <2>2. QED
      BY <1>1, <2>1 DEF GoOn, RowsOK, Holding
  <1>4. overlaps = 0 => user.attempts = misses /\ (user.locked => misses >= MaxAttempts)
    BY DEF IInv, UnracedCount, raced
  <1>5. misses \in 0 .. misses /\ upsets \in 0 .. MaxUpsets
    BY <1>1 DEF RowsOK
  <1>6. CASE Clear(c)
    <2>1. user' = [user EXCEPT !.attempts = 0, !.locked = FALSE] /\ misses' = 0
          /\ UNCHANGED <<emp, tries, upsets, overlaps>> /\ At(c, "clear")
          /\ call' = [call EXCEPT ![c].pc = "admit"]
      BY <1>6 DEF Clear
    <2>2. user' \in User /\ Justified(user') /\ user'.attempts = 0 /\ ~user'.locked
      <3>1. user' \in User
        <4>1. user \in User /\ 0 \in 0 .. MaxMisses
          BY <1>1, BoundsAssumption DEF RowsOK
        <4>2. [user EXCEPT !.attempts = 0] \in User
          BY <4>1 DEF User
        <4>3. user' = [[user EXCEPT !.attempts = 0] EXCEPT !.locked = FALSE]
          BY <2>1, <4>1 DEF User
        <4>4. QED
          BY <4>2, <4>3 DEF User
      <3>2. user'.attempts = 0 /\ ~user'.locked
        BY <1>1, <2>1 DEF RowsOK, User
      <3>3. QED
        BY <1>1, <3>1, <3>2 DEF RowsOK, Justified
    <2>3. Next1("admit")
      BY <1>1, <2>1 DEF RowsOK, CallRecord, PCs
    <2>4. QED
      BY <1>1, <1>5, <2>1, <2>2, <2>3, GoStep DEF RowsOK, At
  <1>7. CASE First(c) \/ SetLink(c) \/ ResetWrite(c) \/ VerifyWrite(c) \/ ReverifyWrite(c)
    <2>1. UNCHANGED <<emp, history, overlaps>> /\ ~At(c, "idle") /\ ~At(c, "count")
      BY <1>7 DEF First, SetLink, ResetWrite, VerifyWrite, ReverifyWrite, At
    <2>2. user' \in User /\ user'.attempts = user.attempts /\ user'.locked = user.locked
      BY <1>1, <1>7 DEF First, SetLink, ResetWrite, VerifyWrite, ReverifyWrite, RowsOK, User, Links
    <2>3. Next1("join")
      <3>1. GoOn(c, "join") \/ GoOn(c, "idle")
        BY <1>7 DEF First, SetLink, ResetWrite, VerifyWrite, ReverifyWrite, Done
      <3>2. QED
        BY <1>3, <3>1 DEF PCs
    <2>4. Justified(user')
      BY <1>1, <2>2 DEF Justified
    <2>5. QED
      BY <1>1, <1>4, <1>5, <2>1, <2>2, <2>3, <2>4, GoStep DEF RowsOK, history
  <1>8. CASE Admit(c) \/ JoinRead(c)
    <2>1. UNCHANGED <<user, emp, history, overlaps>> /\ ~At(c, "idle") /\ ~At(c, "count")
      BY <1>8 DEF Admit, JoinRead, At
    <2>2. \E pc \in {"first", "join", "joinSave"} : Next1(pc)
      <3>1. GoOn(c, "first") \/ GoOn(c, "join") \/ GoOn(c, "joinSave") \/ GoOn(c, "idle")
        BY <1>8 DEF Admit, JoinRead, Done
      <3>2. Next1("first") \/ Next1("join") \/ Next1("joinSave")
        BY <1>3, <3>1 DEF PCs
      <3>3. QED
        BY <3>2
    <2>3. QED
      BY <1>1, <1>4, <1>5, <2>1, <2>2, GoStep DEF RowsOK, history
  <1>9. CASE JoinSave(c) \/ Expire(c) \/ ResendEmployee(c)
    <2>1. UNCHANGED <<user, misses, tries, overlaps>> /\ ~At(c, "idle") /\ ~At(c, "count") /\ Next1("idle")
      BY <1>3, <1>9 DEF Done, JoinSave, Expire, ResendEmployee, At, history, PCs
    <2>2. emp' \in [invite : Statuses, old : BOOLEAN]
      BY <1>1, <1>9 DEF JoinSave, Expire, ResendEmployee, RowsOK, Statuses
    <2>3. upsets' \in 0 .. MaxUpsets
      BY <1>1, <1>9, BoundsAssumption DEF JoinSave, Expire, ResendEmployee, RowsOK, Upset, history
    <2>4. QED
      BY <1>1, <1>4, <1>5, <2>1, <2>2, <2>3, GoStep DEF RowsOK
  <1>10. CASE ResendUser(c)
    <2>1. /\ user' = [call[c].user EXCEPT !.link = "resent", !.linkOld = FALSE]
          /\ GoOn(c, "resent")
          /\ At(c, "resend") /\ UNCHANGED <<emp, history, overlaps>>
      BY <1>10 DEF ResendUser
    <2>2. user' \in User /\ user'.attempts = call[c].user.attempts /\ user'.locked = call[c].user.locked
      BY <1>1, <2>1 DEF RowsOK, CallRecord, User, Links
    <2>3. Justified(user')
      BY <1>1, <2>2 DEF CallOK, Justified
    <2>4. Next1("resent")
      BY <1>3, <2>1 DEF PCs
    <2>5. overlaps = 0 => /\ user'.attempts = misses' /\ (user'.locked => misses' >= MaxAttempts)
                          /\ emp'.invite = "expired"
      BY <1>1, <1>4, <2>1, <2>2 DEF Current, history
    <2>6. QED
      BY <1>1, <1>5, <2>1, <2>2, <2>3, <2>4, <2>5, GoStep DEF RowsOK, history, At
  <1>11. CASE EditUser(c) \/ EditProfile(c) \/ SkipUser(c) \/ EditEmployee(c) \/ EditFails(c)
    BY <1>11, EditStep
  <1>12. QED
    BY <1>6, <1>7, <1>8, <1>9, <1>10, <1>11 DEF Step

\* What passes with time is remembered by nobody as still there.
LEMMA TimeStep ==
  ASSUME IInv,
         user' \in User, user'.attempts = user.attempts, user'.locked => user.locked,
         user'.pwd = user.pwd, user'.first = user.first, user'.verified = user.verified,
         call' \in [Calls -> CallRecord],
         \A c \in Calls : /\ call'[c].pc = call[c].pc
                          /\ call'[c].user.attempts = call[c].user.attempts
                          /\ call'[c].user.locked => call[c].user.locked /\ (user.locked => user'.locked)
                          /\ call'[c].user.pwd = call[c].user.pwd
                          /\ call'[c].user.first = call[c].user.first
                          /\ call'[c].user.verified = call[c].user.verified
                          /\ call'[c].user.link = call[c].user.link
                          /\ call'[c].invite = call[c].invite,
         user'.link = user.link,
         emp' \in [invite : Statuses, old : BOOLEAN], emp'.invite = emp.invite,
         UNCHANGED <<history, overlaps>>
  PROVE  IInv'
  <1> USE DEF history
  <1>1. RowsOK
    BY DEF IInv
  <1>2. RowsOK'
    BY <1>1 DEF RowsOK
  <1>3. Accounted'
    <2>1. Counting' = Counting
      BY DEF Counting, At
    <2>2. QED
      BY <2>1 DEF IInv, Accounted
  <1>4. Justified(user)' /\ \A c \in Calls : CallOK(c)'
    BY DEF IInv, CallOK, Justified, At
  <1>5. overlaps' = 0 => Alone'
    <2>1. ASSUME overlaps = 0, NEW c \in Calls PROVE Current(c)'
      BY <2>1 DEF IInv, Alone, Current, At
    <2>2. ASSUME overlaps = 0, NEW c \in Calls, NEW d \in Calls, ~At(c, "idle")', ~At(d, "idle")' PROVE c = d
      BY <2>2 DEF IInv, Alone, At
    <2>3. QED
      BY <2>1, <2>2 DEF Alone
  <1>6. UnracedCount'
    BY DEF IInv, UnracedCount, raced
  <1>7. QED
    BY <1>2, <1>3, <1>4, <1>5, <1>6 DEF IInv

\* Time passes, and an administrator sets the invite status.
LEMMA TickStep ==
  ASSUME IInv, Tick \/ SetStatus
  PROVE  IInv'
  <1>1. RowsOK
    BY DEF IInv
  <1>2. CASE LockEnds
    <2>1. /\ user' = [user EXCEPT !.locked = FALSE]
          /\ call' = [c \in Calls |-> [call[c] EXCEPT !.user.locked = FALSE]]
          /\ UNCHANGED <<emp, history, overlaps>>
      BY <1>2 DEF LockEnds, Lapse
    <2>2. /\ user' \in User /\ user'.attempts = user.attempts /\ ~user'.locked
          /\ user'.pwd = user.pwd /\ user'.first = user.first /\ user'.verified = user.verified
          /\ user'.link = user.link
      BY <1>1, <2>1 DEF RowsOK, User
    <2>3. call' \in [Calls -> CallRecord]
      <3>1. \A u \in User : [u EXCEPT !.locked = FALSE] \in User
        BY DEF User
      <3>2. \A c \in Calls : [call[c] EXCEPT !.user.locked = FALSE] \in CallRecord
        BY <1>1, <3>1 DEF RowsOK, CallRecord
      <3>3. QED
        BY <2>1, <3>2
    <2>4. \A c \in Calls : /\ call'[c].pc = call[c].pc
                           /\ call'[c].user.attempts = call[c].user.attempts
                           /\ ~call'[c].user.locked
                           /\ call'[c].user.pwd = call[c].user.pwd
                           /\ call'[c].user.first = call[c].user.first
                           /\ call'[c].user.verified = call[c].user.verified
                           /\ call'[c].user.link = call[c].user.link
                           /\ call'[c].invite = call[c].invite
      BY <1>1, <2>1 DEF RowsOK, CallRecord, User
    <2>5. emp' \in [invite : Statuses, old : BOOLEAN] /\ emp'.invite = emp.invite
      BY <1>1, <2>1 DEF RowsOK
    <2>6. QED
      BY <2>1, <2>2, <2>3, <2>4, <2>5, TimeStep
  <1>3. CASE CodeExpires
    <2>1. /\ user' = [user EXCEPT !.code = FALSE]
          /\ call' = [c \in Calls |-> [call[c] EXCEPT !.user.code = FALSE]]
          /\ UNCHANGED <<emp, history, overlaps>>
      BY <1>3 DEF CodeExpires, Lapse
    <2>2. /\ user' \in User /\ user'.attempts = user.attempts /\ user'.locked = user.locked
          /\ user'.pwd = user.pwd /\ user'.first = user.first /\ user'.verified = user.verified
          /\ user'.link = user.link
      BY <1>1, <2>1 DEF RowsOK, User
    <2>3. call' \in [Calls -> CallRecord]
      <3>1. \A u \in User : [u EXCEPT !.code = FALSE] \in User
        BY DEF User
      <3>2. \A c \in Calls : [call[c] EXCEPT !.user.code = FALSE] \in CallRecord
        BY <1>1, <3>1 DEF RowsOK, CallRecord
      <3>3. QED
        BY <2>1, <3>2
    <2>4. \A c \in Calls : /\ call'[c].pc = call[c].pc
                           /\ call'[c].user.attempts = call[c].user.attempts
                           /\ call'[c].user.locked = call[c].user.locked
                           /\ call'[c].user.pwd = call[c].user.pwd
                           /\ call'[c].user.first = call[c].user.first
                           /\ call'[c].user.verified = call[c].user.verified
                           /\ call'[c].user.link = call[c].user.link
                           /\ call'[c].invite = call[c].invite
      BY <1>1, <2>1 DEF RowsOK, CallRecord, User
    <2>5. emp' \in [invite : Statuses, old : BOOLEAN] /\ emp'.invite = emp.invite
      BY <1>1, <2>1 DEF RowsOK
    <2>6. QED
      BY <2>1, <2>2, <2>3, <2>4, <2>5, TimeStep
  <1>4. CASE LinkExpires
    <2>1. user' = [user EXCEPT !.linkOld = TRUE] /\ UNCHANGED <<emp, call, history, overlaps>>
      BY <1>4 DEF LinkExpires
    <2>2. QED
      BY <1>1, <2>1, TimeStep DEF RowsOK, User
  <1>5. CASE EmployeeAges
    <2>1. /\ user' = [user EXCEPT !.linkOld = @ \/ user.link = "invite"]
          /\ emp' = [emp EXCEPT !.old = TRUE] /\ UNCHANGED <<call, history, overlaps>>
      BY <1>5 DEF EmployeeAges
    <2>2. QED
      BY <1>1, <2>1, TimeStep DEF RowsOK, User
  <1>6. CASE SetStatus
    <2>1. /\ emp' \in [invite : Statuses, old : BOOLEAN]
          /\ upsets' \in 0 .. MaxUpsets /\ overlaps' \in 0 .. MaxOverlaps
          /\ UNCHANGED <<user, call, misses, tries>>
      BY <1>1, <1>6, BoundsAssumption DEF SetStatus, Upset, Overlap, RowsOK, Statuses
    <2>2. RowsOK'
      BY <1>1, <2>1 DEF RowsOK
    <2>3. Accounted'
      BY <2>1 DEF IInv, Accounted, Counting, At
    <2>4. Justified(user)' /\ \A c \in Calls : CallOK(c)'
      BY <2>1 DEF IInv, CallOK, Justified, At
    <2>5. overlaps' = 0 => overlaps = 0 /\ \A c \in Calls : At(c, "idle")
      BY <1>1, <1>6, BoundsAssumption DEF SetStatus, Overlap, Busy, RowsOK
    <2>6. overlaps' = 0 => Alone'
      BY <2>1, <2>5 DEF Alone, Current, At
    <2>7. UnracedCount'
      BY <1>1, <2>1, <2>5 DEF IInv, UnracedCount, raced, RowsOK
    <2>8. QED
      BY <2>2, <2>3, <2>4, <2>6, <2>7 DEF IInv
  <1>7. QED
    BY <1>2, <1>3, <1>4, <1>5, <1>6 DEF Tick

\* An edit reads both rows.
LEMMA ReadStep == ASSUME IInv, NEW c \in Calls, EditRead(c) PROVE IInv'
  <1>1. RowsOK /\ Justified(user)
    BY DEF IInv
  <1>2. Holding("edit", user, FALSE, emp.invite) \in CallRecord
    BY <1>1 DEF Holding, RowsOK, CallRecord, PCs
  <1>3. UNCHANGED <<user, emp, misses, tries, upsets>> /\ At(c, "idle")
    BY DEF EditRead, history
  <1>4. /\ call' \in [Calls -> CallRecord]
        /\ call'[c] = [pc |-> "edit", user |-> user, password |-> FALSE, invite |-> emp.invite]
        /\ \A d \in Calls : d # c => call'[d] = call[d]
        /\ overlaps' \in 0 .. MaxOverlaps
        /\ overlaps' = 0 => overlaps = 0 /\ \A d \in Calls : At(d, "idle")
    BY <1>1, <1>2, BoundsAssumption DEF EditRead, RowsOK, Overlap, Busy, At, Holding
  <1>5. RowsOK'
    BY <1>1, <1>3, <1>4 DEF RowsOK
  <1>6. Accounted'
    <2>1. Counting' = Counting
      BY <1>3, <1>4 DEF Counting, At
    <2>2. QED
      BY <1>3, <2>1 DEF IInv, Accounted
  <1>7. Justified(user)' /\ \A d \in Calls : CallOK(d)'
    BY <1>1, <1>3, <1>4 DEF IInv, CallOK, Justified, At
  <1>8. overlaps' = 0 => Alone'
    <2>1. ASSUME overlaps' = 0 PROVE Current(c)' /\ \A d \in Calls : d # c => At(d, "idle")'
      BY <1>3, <1>4, <2>1 DEF Current, At
    <2>2. ASSUME overlaps' = 0, NEW d \in Calls, d # c PROVE Current(d)'
      BY <2>1, <2>2 DEF Current, At
    <2>3. QED
      BY <2>1, <2>2 DEF Alone
  <1>9. UnracedCount'
    BY <1>3, <1>4 DEF IInv, UnracedCount, raced
  <1>10. QED
    BY <1>5, <1>6, <1>7, <1>8, <1>9 DEF IInv

\* The ways a call begins.
LEMMA StartStep == ASSUME IInv, NEW c \in Calls, Start(c) PROVE IInv'
  <1>1. RowsOK /\ Justified(user)
    BY DEF IInv
  <1>2. NewUser \in User /\ Justified(NewUser)
    BY <1>1, NewUserType
  <1>3. Counter \in User /\ Justified(Counter)
    BY <1>1, <1>2 DEF Counter, RowsOK, User, Justified, NewUser
  <1>4. CASE RightPassword(c) \/ Google(c)
    <2>1. \E pc \in {"clear", "admit"}, password \in BOOLEAN : Begin(c, pc, Counter, password)
      BY <1>4 DEF RightPassword, Google
    <2>2. UNCHANGED <<user, emp, history>>
      BY <1>4 DEF RightPassword, Google
    <2>3. QED
      BY <1>1, <1>3, <2>1, <2>2, BeginStep DEF PCs
  <1>5. CASE Forgot(c) \/ ResetRead(c) \/ VerifyRead(c) \/ ReverifyRead(c)
    <2>1. \E pc \in {"link", "setPwd", "verify", "reverify"}, password \in BOOLEAN : Begin(c, pc, NewUser, password)
      BY <1>5 DEF Forgot, ResetRead, VerifyRead, ReverifyRead
    <2>2. UNCHANGED <<user, emp, history>>
      BY <1>5 DEF Forgot, ResetRead, VerifyRead, ReverifyRead
    <2>3. QED
      BY <1>1, <1>2, <2>1, <2>2, BeginStep DEF PCs
  <1>6. CASE SweepRead(c) \/ ListRead(c)
    <2>1. Begin(c, "expire", NewUser, FALSE) /\ emp.invite = "sent" /\ UNCHANGED <<user, emp, history>>
      BY <1>6 DEF SweepRead, ListRead
    <2>2. QED
      BY <1>1, <1>2, <2>1, BeginStep DEF PCs
  <1>7. CASE ResendRead(c)
    <2> DEFINE u == [user EXCEPT !.link = "none", !.linkOld = FALSE]
    <2>1. Begin(c, "resend", u, FALSE) /\ emp.invite = "expired" /\ UNCHANGED <<user, emp, history>>
      BY <1>7 DEF ResendRead
    <2>2. /\ u \in User /\ u.attempts = user.attempts /\ u.locked = user.locked
          /\ u.pwd = user.pwd /\ u.first = user.first /\ u.verified = user.verified
      BY <1>1 DEF RowsOK, User, Links
    <2>3. Justified(u)
      BY <1>1, <2>2 DEF Justified
    <2> HIDE DEF u
    <2>4. QED
      BY <1>1, <2>1, <2>2, <2>3, BeginStep DEF PCs
  <1>8. CASE EditRead(c)
    BY <1>8, ReadStep
  <1>9. QED
    BY <1>4, <1>5, <1>6, <1>7, <1>8, WrongStep DEF Start

-----------------------------------------------------------------------------
(* The theorems *)

\* Every step keeps the strengthening.
LEMMA Inductive == IInv /\ [Next]_vars => IInv'
  <1> SUFFICES ASSUME IInv, [Next]_vars
               PROVE  IInv'
    OBVIOUS
  <1>1. CASE UNCHANGED vars
    BY <1>1 DEF vars, IInv, RowsOK, Accounted, Counting, Justified, CallOK, Alone, Current,
                UnracedCount, raced, At
  <1>2. QED
    BY <1>1, StartStep, CountStep, WriteStep, TickStep DEF Next

\* The strengthening holds throughout.
LEMMA Invariance == Spec => []IInv
  <1>1. Init => IInv
    <2> SUFFICES ASSUME Init PROVE IInv
      OBVIOUS
    <2>1. /\ NewUser \in User /\ NewUser.attempts = 0 /\ ~NewUser.locked
          /\ NoCall \in CallRecord
      BY BoundsAssumption DEF NewUser, User, Links, NoCall, Holding, PCs, CallRecord, Statuses
    <2>2. user \in User /\ user.attempts = 0 /\ ~user.locked
      <3>1. user = [NewUser EXCEPT !.pwd = "own", !.code = TRUE] \/ user = [NewUser EXCEPT !.link = "invite"]
        BY DEF Init, Registered, Invited
      <3>2. QED
        BY <2>1, <3>1 DEF User, Links
    <2>3. emp \in [invite : Statuses, old : BOOLEAN]
      <3>1. emp = [invite |-> "absent", old |-> FALSE] \/ emp = [invite |-> "sent", old |-> FALSE]
        BY DEF Init, Registered, Invited
      <3>2. \A s \in Statuses, b \in BOOLEAN : [invite |-> s, old |-> b] \in [invite : Statuses, old : BOOLEAN]
        OBVIOUS
      <3>3. "absent" \in Statuses /\ "sent" \in Statuses /\ FALSE \in BOOLEAN
        BY DEF Statuses
      <3>4. QED
        BY <3>1, <3>2, <3>3
    <2>4. /\ \A c \in Calls : call[c] = NoCall
          /\ call \in [Calls -> CallRecord]
          /\ misses = 0 /\ tries = 0 /\ upsets = 0 /\ overlaps = 0
      BY <2>1 DEF Init
    <2>5. RowsOK
      BY <2>2, <2>3, <2>4, BoundsAssumption DEF RowsOK
    <2>6. Accounted
      <3>1. Counting = {}
        BY <2>4 DEF Counting, At, NoCall, Holding
      <3>2. QED
        BY <2>4, <3>1, FS_EmptySet DEF Accounted
    <2>7. Justified(user) /\ \A c \in Calls : CallOK(c)
      BY <2>1, <2>2, <2>4 DEF Justified, CallOK, At, NoCall, Holding
    <2>8. Alone
      BY <2>4 DEF Alone, Current, At, NoCall, Holding
    <2>9. UnracedCount
      BY <2>2, <2>4 DEF UnracedCount
    <2>10. QED
      BY <2>5, <2>6, <2>7, <2>8, <2>9 DEF IInv
  <1>2. QED
    BY <1>1, Inductive, PTL DEF Spec

\* Every variable of the account keeps its type.
THEOREM AccountTypes == Spec => []TypeOK
  <1>1. IInv => TypeOK
    <2> SUFFICES ASSUME IInv PROVE TypeOK
      OBVIOUS
    <2>1. Cardinality(Counting) \in Nat
      BY FS_CardinalityType DEF IInv, Accounted
    <2>2. QED
      BY <2>1, BoundsAssumption DEF IInv, RowsOK, Accounted, TypeOK
  <1>2. QED
    BY <1>1, Invariance, PTL

\* validateUser, refreshInviteStatus: however failures are lost, counted twice
\* or restored by a save of an old row, the account does not lock before
\* MAX_ATTEMPTS wrong passwords.
THEOREM LockNeedsMisses == Spec => []NeverLockedEarly
  <1>1. IInv => NeverLockedEarly
    BY DEF IInv, Justified, NeverLockedEarly
  <1>2. QED
    BY <1>1, Invariance, PTL

\* While no two calls overlap, the counter is the number of wrong passwords
\* since the last login.
THEOREM CountIsExact == Spec => []UnracedCount
  <1>1. IInv => UnracedCount
    BY DEF IInv
  <1>2. QED
    BY <1>1, Invariance, PTL

\* What a step of a call that nothing overlapped may write.
LEMMA NoStepUndoes ==
  ASSUME IInv, [Next]_vars, ~raced'
  PROVE  /\ user.first => user'.first
         /\ user.pwd = "own" /\ upsets' = upsets => user'.pwd = "own"
         /\ user.verified => user'.verified
         /\ user.link = "none" /\ user'.link # "none" =>
              \E c \in Calls : At(c, "link") \/ At(c, "resend")
         /\ emp.invite = "joined" /\ upsets' = upsets => emp'.invite = "joined"
  <1>1. RowsOK /\ (overlaps = 0 => \A c \in Calls : Current(c))
    BY DEF IInv, Alone
  <1>2. overlaps = 0 <=> ~raced
    BY <1>1, BoundsAssumption DEF RowsOK, raced
  <1>3. CASE Tick \/ SetStatus \/ UNCHANGED vars
    <2>1. CASE SetStatus
      BY <1>1, <2>1 DEF SetStatus, Upset, RowsOK
    <2>2. CASE LockEnds \/ CodeExpires \/ LinkExpires \/ EmployeeAges
      BY <1>1, <2>2 DEF LockEnds, CodeExpires, Lapse, LinkExpires, EmployeeAges, RowsOK, User
    <2>3. QED
      BY <1>3, <2>1, <2>2 DEF Tick, vars
  <1>4. ASSUME NEW c \in Calls, Start(c) PROVE UNCHANGED <<user, emp>>
    BY <1>4 DEF Start, WrongPassword, RightPassword, Google, Forgot, ResetRead, VerifyRead,
                ReverifyRead, SweepRead, ListRead, ResendRead, EditRead
  <1>5. ASSUME NEW c \in Calls, Count(c) \/ Clear(c) \/ First(c) \/ SetLink(c) \/ ResetWrite(c)
                                \/ VerifyWrite(c) \/ ReverifyWrite(c)
        PROVE  /\ user.first => user'.first
               /\ user.pwd = "own" => user'.pwd = "own"
               /\ user.verified => user'.verified
               /\ user'.link = user.link \/ user'.link = "none" \/ At(c, "link")
               /\ UNCHANGED emp
    <2>1. CASE Count(c)
      BY <1>1, <2>1 DEF Count, RowsOK, User
    <2>0. CASE Clear(c)
      BY <1>1, <2>0 DEF Clear, RowsOK, User
    <2>2. CASE First(c)
      BY <1>1, <2>2 DEF First, RowsOK, User
    <2>3. CASE SetLink(c) \/ ResetWrite(c)
      BY <1>1, <2>3 DEF SetLink, ResetWrite, RowsOK, User
    <2>4. CASE VerifyWrite(c) \/ ReverifyWrite(c)
      BY <1>1, <2>4 DEF VerifyWrite, ReverifyWrite, RowsOK, User
    <2>5. QED
      BY <1>5, <2>0, <2>1, <2>2, <2>3, <2>4
  <1>6. ASSUME NEW c \in Calls, Admit(c) \/ JoinRead(c) \/ JoinSave(c)
        PROVE  UNCHANGED user /\ (emp.invite = "joined" => emp'.invite = "joined")
    BY <1>1, <1>6 DEF Admit, JoinRead, JoinSave, RowsOK
  <1>7. ASSUME NEW c \in Calls, Expire(c) \/ ResendUser(c) \/ ResendEmployee(c)
        PROVE  /\ user.first => user'.first
               /\ user.pwd = "own" => user'.pwd = "own"
               /\ user.verified => user'.verified
               /\ user'.link = user.link \/ At(c, "resend")
               /\ emp.invite = "joined" => emp'.invite = "joined"
    <2>1. UNCHANGED overlaps
      BY <1>7 DEF Expire, ResendUser, ResendEmployee
    <2>2. Current(c)
      BY <1>1, <1>2, <2>1 DEF raced
    <2>3. CASE Expire(c) \/ ResendEmployee(c)
      BY <2>2, <2>3 DEF Expire, ResendEmployee, Current
    <2>4. CASE ResendUser(c)
      <3>1. /\ user'.first = call[c].user.first /\ user'.pwd = call[c].user.pwd
            /\ user'.verified = call[c].user.verified /\ UNCHANGED emp
        BY <1>1, <2>4 DEF ResendUser, RowsOK, CallRecord, User
      <3>2. QED
        BY <2>2, <2>4, <3>1 DEF ResendUser, Current
    <2>5. QED
      BY <1>7, <2>3, <2>4
  <1>8. ASSUME NEW c \in Calls, EditUser(c) \/ EditProfile(c) \/ SkipUser(c) \/ EditEmployee(c) \/ EditFails(c)
        PROVE  /\ user.first => user'.first
               /\ user.pwd = "own" /\ upsets' = upsets => user'.pwd = "own"
               /\ user.verified => user'.verified
               /\ user'.link = user.link
               /\ emp.invite = "joined" => emp'.invite = "joined"
    <2>1. UNCHANGED overlaps
      BY <1>8 DEF EditUser, EditProfile, SkipUser, EditEmployee, EditFails
    <2>2. Current(c)
      BY <1>1, <1>2, <2>1 DEF raced
    <2>3. CASE SkipUser(c) \/ EditFails(c)
      BY <2>3 DEF SkipUser, EditFails
    <2>4. CASE EditEmployee(c)
      BY <1>1, <2>2, <2>4 DEF EditEmployee, Current, RowsOK
    <2>5. CASE EditUser(c) \/ EditProfile(c)
      <3>1. call[c].user \in User
        BY <1>1 DEF RowsOK, CallRecord
      <3>2. /\ user'.first = call[c].user.first /\ user'.verified = call[c].user.verified
            /\ user'.link = call[c].user.link /\ UNCHANGED emp
            /\ user'.pwd = call[c].user.pwd \/ upsets' = upsets + 1
        BY <2>5, <3>1 DEF EditUser, EditProfile, WriteBack, Upset, User
      <3>3. QED
        BY <1>1, <2>2, <2>5, <3>2 DEF EditUser, EditProfile, Current, RowsOK
    <2>6. QED
      BY <1>8, <2>3, <2>4, <2>5
  <1>9. QED
    BY <1>3, <1>4, <1>5, <1>6, <1>7, <1>8 DEF Next, Step

\* While no two calls overlap, no resend, no edit and no sweep undoes what the
\* user has reached.
THEOREM NothingIsUndone == Spec => NothingUndone
  <1>1. IInv /\ [Next]_vars =>
          [~raced' => /\ user.first => user'.first
                      /\ user.pwd = "own" /\ upsets' = upsets => user'.pwd = "own"
                      /\ user.verified => user'.verified
                      /\ user.link = "none" /\ user'.link # "none" =>
                           \E c \in Calls : At(c, "link") \/ At(c, "resend")
                      /\ emp.invite = "joined" /\ upsets' = upsets => emp'.invite = "joined"]_vars
    BY NoStepUndoes
  <1>2. QED
    BY <1>1, Invariance, PTL DEF Spec, NothingUndone
=============================================================================
