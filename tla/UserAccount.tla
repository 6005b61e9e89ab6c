----------------------------- MODULE UserAccount -----------------------------
(***************************************************************************)
(* One user account and the invitation of its employee (auth.service.ts,   *)
(* invite-status.service.ts, and of employee.service.ts, user.service.ts   *)
(* and profile.service.ts what writes these two rows).                     *)
(*                                                                         *)
(* The user row holds the password, the e-mail verification, the reset     *)
(* link and the counter of failed logins; the employee row holds the       *)
(* invite status.  Every operation reads a row, compares hashes or asks    *)
(* other tables, and writes later; a process of Calls is one such          *)
(* operation in progress.  Sessions are modelled in LoginSessions.         *)
(***************************************************************************)
EXTENDS Integers, FiniteSets

CONSTANTS
  Calls,        \* operations in progress
  MaxAttempts,  \* MAX_ATTEMPTS of validateUser
  MaxMisses,    \* bound: wrong passwords
  MaxOverlaps,  \* bound: calls that begin while another is in progress
  MaxUpsets     \* bound: failed updates, and statuses and passwords set by hand

ASSUME AttemptsAssumption == MaxAttempts \in Nat \ {0}
ASSUME BoundsAssumption == MaxMisses \in Nat /\ MaxOverlaps \in Nat /\ MaxUpsets \in Nat

VARIABLES
  user,    \* row of users
  emp,     \* row of employees: its invite status and age
  call,    \* progress of each call, with the rows it read
  misses,  \* history: wrong passwords since the last successful login,
  tries,   \* and ever
  upsets,
  overlaps \* history: calls that began while another was in progress

vars == <<user, emp, call, misses, tries, upsets, overlaps>>
history == <<misses, tries, upsets>>

-----------------------------------------------------------------------------
Links    == {"none", "invite", "resent", "forgot"}
Statuses == {"absent", "sent", "joined", "expired"}
PCs      == {"idle", "count", "clear", "admit", "first", "join", "joinSave", "setPwd",
             "verify", "reverify", "link", "resend", "resent", "expire", "edit", "edited"}

\* A password is "own" when a login with it can succeed.
User == [pwd : {"temp", "own"}, verified : BOOLEAN, code : BOOLEAN,
         first : BOOLEAN, attempts : 0 .. MaxMisses, locked : BOOLEAN,
         link : Links, linkOld : BOOLEAN]

NewUser == [pwd |-> "temp", verified |-> FALSE, code |-> FALSE, first |-> FALSE,
            attempts |-> 0, locked |-> FALSE, link |-> "none", linkOld |-> FALSE]

CallRecord == [pc : PCs, user : User, password : BOOLEAN, invite : Statuses]

Holding(pc, row, password, invite) ==
  [pc |-> pc, user |-> row, password |-> password, invite |-> invite]

NoCall == Holding("idle", NewUser, FALSE, "absent")

At(c, pc) == call[c].pc = pc
\* A call goes on and needs nothing of what it has read.
GoOn(c, pc) == call' = [call EXCEPT ![c] = Holding(pc, NewUser, FALSE, "absent")]
Done(c) == GoOn(c, "idle")

Busy == \E c \in Calls : ~At(c, "idle")

Overlap ==
  /\ Busy => overlaps < MaxOverlaps
  /\ overlaps' = IF Busy THEN overlaps + 1 ELSE overlaps

raced == overlaps > 0

\* A call reads the user row, as far as it uses it later, and goes on at pc.
Begin(c, pc, row, password) ==
  /\ At(c, "idle")
  /\ call' = [call EXCEPT ![c] = Holding(pc, row, password, "absent")]
  /\ Overlap

Upset == upsets < MaxUpsets /\ upsets' = upsets + 1

Counter == [NewUser EXCEPT !.attempts = user.attempts, !.first = user.first]

LinkLive == user.link # "none" /\ ~user.linkOld

-----------------------------------------------------------------------------
(* validateUser and googleLogin *)

\* The lock is looked at before the password.
WrongPassword(c) ==
  /\ tries < MaxMisses
  /\ tries' = tries + 1
  /\ ~user.locked
  /\ Begin(c, "count", Counter, TRUE)
  /\ UNCHANGED <<user, emp, misses, upsets>>

RightPassword(c) ==
  /\ ~user.locked
  /\ user.pwd = "own"
  /\ user.verified
  /\ Begin(c, IF user.attempts > 0 THEN "clear" ELSE "admit", Counter, TRUE)
  /\ UNCHANGED <<user, emp, history>>

\* googleLogin looks at neither the lock nor the verification.
Google(c) == Begin(c, "admit", Counter, FALSE) /\ UNCHANGED <<user, emp, history>>

\* Mutant: the lock is set one attempt early.
MutCount(c) ==
  LET attempts == call[c].user.attempts + 1 IN
  /\ At(c, "count")
  /\ user' = [user EXCEPT !.attempts = attempts,
                          !.locked = @ \/ attempts >= MaxAttempts - 1]
  /\ Done(c)
  /\ misses' = misses + 1
  /\ UNCHANGED <<emp, tries, upsets, overlaps>>

Count(c) ==
  LET attempts == call[c].user.attempts + 1 IN
  /\ At(c, "count")
  /\ user' = [user EXCEPT !.attempts = attempts,
                          !.locked = @ \/ attempts >= MaxAttempts]
  /\ Done(c)
  /\ misses' = misses + 1
  /\ UNCHANGED <<emp, tries, upsets, overlaps>>

\* Mutant: the counter is kept.
MutClear(c) ==
  /\ At(c, "clear")
  /\ user' = [user EXCEPT !.locked = FALSE]
  /\ call' = [call EXCEPT ![c].pc = "admit"]
  /\ misses' = 0
  /\ UNCHANGED <<emp, tries, upsets, overlaps>>

Clear(c) ==
  /\ At(c, "clear")
  /\ user' = [user EXCEPT !.attempts = 0, !.locked = FALSE]
  /\ call' = [call EXCEPT ![c].pc = "admit"]
  /\ misses' = 0
  /\ UNCHANGED <<emp, tries, upsets, overlaps>>

\* Tenant, settings and employee are read and the session row is written
\* (LoginSessions); the call may end here.  A password login that is not the
\* first one still asks for the invite status, googleLogin does not.
Admit(c) ==
  /\ At(c, "admit")
  /\ \/ GoOn(c, IF ~call[c].user.first THEN "first"
                ELSE IF call[c].password THEN "join" ELSE "idle")
     \/ Done(c)
  /\ UNCHANGED <<user, emp, history, overlaps>>

\* Mutant: the first login does not ask for the invite status.
MutFirst(c) ==
  /\ At(c, "first")
  /\ user' = [user EXCEPT !.first = TRUE]
  /\ Done(c)
  /\ UNCHANGED <<emp, history, overlaps>>

First(c) ==
  /\ At(c, "first")
  /\ user' = [user EXCEPT !.first = TRUE]
  /\ GoOn(c, "join")
  /\ UNCHANGED <<emp, history, overlaps>>

-----------------------------------------------------------------------------
(* updateInviteStatusOnLogin: errors are logged and swallowed *)

JoinRead(c) ==
  /\ At(c, "join")
  /\ GoOn(c, IF emp.invite = "sent" THEN "joinSave" ELSE "idle")
  /\ UNCHANGED <<user, emp, history, overlaps>>

JoinSave(c) ==
  /\ At(c, "joinSave")
  /\ \/ emp' = [emp EXCEPT !.invite = "joined"] /\ UNCHANGED upsets
     \/ Upset /\ UNCHANGED emp
  /\ Done(c)
  /\ UNCHANGED <<user, misses, tries, overlaps>>

-----------------------------------------------------------------------------
(* forgotPassword and resetPassword *)

Forgot(c) == Begin(c, "link", NewUser, FALSE) /\ UNCHANGED <<user, emp, history>>

SetLink(c) ==
  /\ At(c, "link")
  /\ user' = [user EXCEPT !.link = "forgot", !.linkOld = FALSE]
  /\ Done(c)
  /\ UNCHANGED <<emp, history, overlaps>>

\* The holder of the current link chooses a password.
ResetRead(c) ==
  /\ LinkLive
  /\ Begin(c, "setPwd", NewUser, TRUE)
  /\ UNCHANGED <<user, emp, history>>

ResetWrite(c) ==
  /\ At(c, "setPwd")
  /\ user' = [user EXCEPT !.pwd = "own", !.link = "none", !.linkOld = FALSE]
  /\ GoOn(c, "join")
  /\ UNCHANGED <<emp, history, overlaps>>

-----------------------------------------------------------------------------
(* verifyEmail and resendVerificationEmail *)

VerifyRead(c) ==
  /\ user.code /\ ~user.verified
  /\ Begin(c, "verify", NewUser, FALSE)
  /\ UNCHANGED <<user, emp, history>>

VerifyWrite(c) ==
  /\ At(c, "verify")
  /\ user' = [user EXCEPT !.verified = TRUE, !.code = FALSE]
  /\ Done(c)
  /\ UNCHANGED <<emp, history, overlaps>>

ReverifyRead(c) ==
  /\ ~user.verified
  /\ Begin(c, "reverify", NewUser, FALSE)
  /\ UNCHANGED <<user, emp, history>>

ReverifyWrite(c) ==
  /\ At(c, "reverify")
  /\ user' = [user EXCEPT !.code = TRUE]
  /\ Done(c)
  /\ UNCHANGED <<emp, history, overlaps>>

-----------------------------------------------------------------------------
(* Expiry of the invitation: cron, getInviteStatus and findAll *)

\* Mutant: the sweep takes every invitation without a first login.
MutSweepRead(c) ==
  /\ emp.invite \in {"sent", "joined"} /\ ~user.first /\ emp.old
  /\ Begin(c, "expire", NewUser, FALSE)
  /\ UNCHANGED <<user, emp, history>>

\* The sweep and getInviteStatus go by the age of the employee row,
SweepRead(c) ==
  /\ emp.invite = "sent" /\ ~user.first /\ emp.old
  /\ Begin(c, "expire", NewUser, FALSE)
  /\ UNCHANGED <<user, emp, history>>

\* the list of employees by the age of the link.
ListRead(c) ==
  /\ emp.invite = "sent" /\ user.linkOld
  /\ Begin(c, "expire", NewUser, FALSE)
  /\ UNCHANGED <<user, emp, history>>

Expire(c) ==
  /\ At(c, "expire")
  /\ emp' = [emp EXCEPT !.invite = "expired"]
  /\ Done(c)
  /\ UNCHANGED <<user, history, overlaps>>

\* refreshInviteStatus: the whole user row that was read is saved, then the
\* employee.
ResendRead(c) ==
  /\ emp.invite = "expired"
  /\ Begin(c, "resend", [user EXCEPT !.link = "none", !.linkOld = FALSE], FALSE)
  /\ UNCHANGED <<user, emp, history>>

ResendUser(c) ==
  /\ At(c, "resend")
  /\ user' = [call[c].user EXCEPT !.link = "resent", !.linkOld = FALSE]
  /\ GoOn(c, "resent")
  /\ UNCHANGED <<emp, history, overlaps>>

ResendEmployee(c) ==
  /\ At(c, "resent")
  /\ emp' = [emp EXCEPT !.invite = "sent"]
  /\ Done(c)
  /\ UNCHANGED <<user, history, overlaps>>

-----------------------------------------------------------------------------
(* Edits of an employee, a user or a profile: whole rows are saved as they  *)
(* were read, often after an upload to the object store.                    *)

EditRead(c) ==
  /\ At(c, "idle")
  /\ call' = [call EXCEPT ![c] = Holding("edit", user, FALSE, emp.invite)]
  /\ Overlap
  /\ UNCHANGED <<user, emp, history>>

\* A link that is written back may have expired since it was read; one of a
\* newer or longer life that has expired shows that it has.
WrittenBackOld(row, old) ==
  /\ row.link = "none" => ~old
  /\ row.link = "invite" => old = emp.old
  /\ row.linkOld \/ (user.linkOld /\ user.link \in {row.link, "resent"} /\ row.link # "invite") => old

WriteBack(c, pwd) ==
  \E old \in BOOLEAN :
    /\ WrittenBackOld(call[c].user, old)
    /\ user' = [call[c].user EXCEPT !.linkOld = old, !.pwd = pwd]

\* The employee is saved as it was read.
ThenEmployee(c) ==
  /\ call[c].invite # "absent"
  /\ call' = [call EXCEPT ![c] = Holding("edited", NewUser, FALSE, call[c].invite)]

\* update of an employee, who may be given another password.
EditUser(c) ==
  /\ At(c, "edit")
  /\ \/ WriteBack(c, call[c].user.pwd) /\ UNCHANGED upsets
     \/ WriteBack(c, "own") /\ Upset
  /\ ThenEmployee(c)
  /\ UNCHANGED <<emp, misses, tries, overlaps>>

\* update of a user stores a password unhashed, and no login matches it; a
\* profile, a picture and a role are edited alike.
EditProfile(c) ==
  /\ At(c, "edit")
  /\ \/ WriteBack(c, call[c].user.pwd) /\ UNCHANGED upsets
     \/ WriteBack(c, "temp") /\ Upset
  /\ Done(c)
  /\ UNCHANGED <<emp, misses, tries, overlaps>>

\* The user row is saved only if a field of it is edited.
SkipUser(c) ==
  /\ At(c, "edit")
  /\ ThenEmployee(c)
  /\ UNCHANGED <<user, emp, history, overlaps>>

EditEmployee(c) ==
  /\ At(c, "edited")
  /\ emp' = [emp EXCEPT !.invite = call[c].invite]
  /\ Done(c)
  /\ UNCHANGED <<user, history, overlaps>>

\* An upload or a save fails; a user row that was saved stays.
EditFails(c) ==
  /\ At(c, "edit") \/ At(c, "edited")
  /\ Done(c)
  /\ UNCHANGED <<user, emp, history, overlaps>>

\* setInviteStatus: an administrator overrides it.
SetStatus ==
  /\ Upset
  /\ emp.invite # "absent"
  /\ \E s \in Statuses \ {"absent", emp.invite} : emp' = [emp EXCEPT !.invite = s]
  /\ Overlap
  /\ UNCHANGED <<user, call, misses, tries>>

-----------------------------------------------------------------------------
(* Time passes: 15 minutes, an hour or a day, 24 hours, 24 hours *)

\* What a call remembers of a deadline passes with it.
Lapse(field) ==
  /\ user[field] \/ \E c \in Calls : call[c].user[field]
  /\ user' = [user EXCEPT ![field] = FALSE]
  /\ call' = [c \in Calls |-> [call[c] EXCEPT !.user[field] = FALSE]]
  /\ UNCHANGED <<emp, history, overlaps>>

LockEnds    == Lapse("locked")
CodeExpires == Lapse("code")

\* The first link and the employee row were made together.
LinkExpires ==
  /\ LinkLive /\ user.link # "invite"
  /\ user' = [user EXCEPT !.linkOld = TRUE]
  /\ UNCHANGED <<emp, call, history, overlaps>>

EmployeeAges ==
  /\ emp.invite # "absent" /\ ~emp.old
  /\ emp' = [emp EXCEPT !.old = TRUE]
  /\ user' = [user EXCEPT !.linkOld = @ \/ user.link = "invite"]
  /\ UNCHANGED <<call, history, overlaps>>

-----------------------------------------------------------------------------
\* Rows made by register, and by the creation of an employee.
Registered == /\ user = [NewUser EXCEPT !.pwd = "own", !.code = TRUE]
              /\ emp = [invite |-> "absent", old |-> FALSE]
Invited    == /\ user = [NewUser EXCEPT !.link = "invite"]
              /\ emp = [invite |-> "sent", old |-> FALSE]

Init ==
  /\ Registered \/ Invited
  /\ call = [c \in Calls |-> NoCall]
  /\ misses = 0 /\ tries = 0 /\ upsets = 0
  /\ overlaps = 0

Start(c) ==
  \/ WrongPassword(c) \/ RightPassword(c) \/ Google(c) \/ Forgot(c) \/ ResetRead(c)
  \/ VerifyRead(c) \/ ReverifyRead(c) \/ SweepRead(c) \/ ListRead(c) \/ ResendRead(c)
  \/ EditRead(c)

Step(c) ==
  \/ Count(c) \/ Clear(c) \/ Admit(c) \/ First(c) \/ JoinRead(c) \/ JoinSave(c)
  \/ SetLink(c) \/ ResetWrite(c) \/ VerifyWrite(c) \/ ReverifyWrite(c)
  \/ Expire(c) \/ ResendUser(c) \/ ResendEmployee(c)
  \/ EditUser(c) \/ EditProfile(c) \/ SkipUser(c) \/ EditEmployee(c)
  \/ EditFails(c)

Tick == LockEnds \/ LinkExpires \/ CodeExpires \/ EmployeeAges

Next == (\E c \in Calls : Start(c) \/ Step(c)) \/ SetStatus \/ Tick

Spec == Init /\ [][Next]_vars

\* While a call is in progress, one goes on.
FairSpec == Spec /\ WF_vars(\E c \in Calls : Step(c))

-----------------------------------------------------------------------------
(* Properties *)

TypeOK ==
  /\ user \in User
  /\ emp \in [invite : Statuses, old : BOOLEAN]
  /\ call \in [Calls -> CallRecord]
  /\ misses \in 0 .. tries /\ tries \in 0 .. MaxMisses
  /\ upsets \in 0 .. MaxUpsets
  /\ overlaps \in 0 .. MaxOverlaps

\* Concurrent failures may count as one, and a resent invitation may restore
\* an old counter, but the account never locks before MAX_ATTEMPTS wrong
\* passwords, and the counter never exceeds them.
NeverLockedEarly ==
  /\ user.attempts <= tries
  /\ user.locked => tries >= MaxAttempts

\* While no two calls overlap, the counter is the number of wrong passwords
\* since the last login, and the lock is only held at the limit.
UnracedCount ==
  ~raced => user.attempts = misses /\ (user.locked => misses >= MaxAttempts)

\* While no two calls overlap, nothing that was reached is undone: the first
\* login, the chosen password, the verification, the use of a link and a
\* joined invitation all survive a resend and an edit, which save whole rows,
\* and the expiry sweeps.
NothingUndone ==
  [][~raced' => /\ user.first => user'.first
                /\ user.pwd = "own" /\ upsets' = upsets => user'.pwd = "own"
                /\ user.verified => user'.verified
                /\ user.link = "none" /\ user'.link # "none" =>
                     \E c \in Calls : At(c, "link") \/ At(c, "resend")
                /\ emp.invite = "joined" /\ upsets' = upsets => emp'.invite = "joined"]_vars

\* A first login, or a password chosen through a link, that finds the
\* invitation sent makes it joined, unless a sweep overlaps, the update fails,
\* or someone sets the status by hand.
UsedInviteJoins ==
  ((\E c \in Calls : call[c].pc \in {"first", "setPwd"}) /\ emp.invite = "sent")
    ~> (emp.invite = "joined" \/ raced \/ upsets > 0)
=============================================================================
