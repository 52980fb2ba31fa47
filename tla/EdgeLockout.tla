------------------------------- MODULE EdgeLockout -------------------------------
(***************************************************************************)
(* Edge devices at the auth service: onboarding, revocation, and the       *)
(* verification of a device's key by several processes.  Wrong keys are    *)
(* counted twice: in the memory of the process, under a lock, and in the   *)
(* device's row, where a request writes one more than it read.  Enough of  *)
(* them lock the device out of the process, or out of all of them, for a   *)
(* while; a right key clears the row and its process's memory.  A request  *)
(* reads the row, decides, and writes the columns that it changed.         *)
(***************************************************************************)
EXTENDS Naturals, FiniteSets

CONSTANTS
  AuthProcesses, \* of the auth service
  Verifiers,     \* requests under way at a time
  Limit,         \* failures that lock (5)
  Window,        \* how long a lock lasts (15 minutes)
  MaxWrong,      \* bound: requests with a wrong key
  MaxRight,      \* bound: requests with the right key, or to onboard
  MaxRestarts    \* bound: of processes

ASSUME LockoutAssumption ==
  Limit \in Nat \ {0} /\ Window \in Nat \ {0} /\ MaxWrong \in Nat /\ IsFiniteSet(Verifiers)

VARIABLES
  registered, revoked,
  failed,        \* failed_auth_count
  until,         \* locked_until is set
  left,          \* what is left of the lock
  count, lock,   \* per process: of the tracker, and what is left of its lock
  req,           \* per request: <<>>, or <<stage, process, failed and until as read>>
  wrongs, rights, restarts,
  early,         \* history: requests that read the row before it was revoked
  passed,        \* history: per process, 401 for a wrong key since it started or admitted the device
  since,         \* history: wrong keys that reached the row since it was cleared
  crowded       \* history: requests that began while another was under way

deviceRow == <<registered, revoked, failed, until, left>>
tracker == <<count, lock>>
lockoutHistory == <<early, passed, since, crowded>>
bounds == <<wrongs, rights, restarts>>
lockoutVars == <<deviceRow, tracker, req, bounds, lockoutHistory>>

LockoutInit ==
  /\ registered = FALSE /\ revoked = FALSE /\ failed = 0 /\ until = FALSE /\ left = 0
  /\ count = [p \in AuthProcesses |-> 0] /\ lock = [p \in AuthProcesses |-> 0]
  /\ req = [r \in Verifiers |-> <<>>] /\ wrongs = 0 /\ rights = 0 /\ restarts = 0
  /\ early = {} /\ passed = [p \in AuthProcesses |-> 0] /\ since = 0 /\ crowded = 0

In(r, stage) == req[r] # <<>> /\ req[r][1] = stage
Process(r) == req[r][2]
FailedRead(r) == req[r][3]
UntilRead(r) == req[r][4]
GoOn(r, stage) == req' = [req EXCEPT ![r] = <<stage, Process(r), failed, until>>]
Keep(r, stage) == req' = [req EXCEPT ![r][1] = stage]
Answer(r) == req' = [req EXCEPT ![r] = <<>>]

\* 429 at once if the process has the device locked out.
Ask(r, p, stage) ==
  /\ req[r] = <<>>
  /\ IF lock[p] > 0 THEN UNCHANGED req ELSE req' = [req EXCEPT ![r] = <<stage, p, 0, FALSE>>]
  /\ crowded' = crowded + IF \E s \in Verifiers : req[s] # <<>> THEN 1 ELSE 0
  /\ UNCHANGED <<deviceRow, tracker, early, passed, since>>

AskWrong(r, p) == wrongs < MaxWrong /\ wrongs' = wrongs + 1 /\ Ask(r, p, "wrong") /\ UNCHANGED <<rights, restarts>>
AskRight(r, p) ==
  registered /\ rights < MaxRight /\ rights' = rights + 1 /\ Ask(r, p, "right") /\ UNCHANGED <<wrongs, restarts>>

\* No device has the key; the one it is for is read.
ReadCandidate(r) ==
  /\ In(r, "wrong") /\ GoOn(r, "count")
  /\ UNCHANGED <<deviceRow, tracker, bounds, lockoutHistory>>

Locks(n) == n >= Limit

\* The count is of everything since the process last admitted the device, expired locks too.
CountWrong(r) ==
  LET p == Process(r) n == count[p] + 1 IN
  /\ In(r, "count") /\ count' = [count EXCEPT ![p] = n]
  /\ IF Locks(n) THEN lock' = [lock EXCEPT ![p] = Window] /\ Answer(r) /\ UNCHANGED passed
     ELSE Keep(r, "write") /\ passed' = [passed EXCEPT ![p] = @ + 1] /\ UNCHANGED lock
  /\ UNCHANGED <<deviceRow, bounds, early, since, crowded>>

Failed(r) == FailedRead(r) + 1

\* One more than was read, and the lock with the fifth; nothing if there is no such device.
WriteFailure(r) ==
  /\ In(r, "write") /\ Answer(r)
  /\ IF registered
     THEN /\ failed' = Failed(r) /\ since' = since + 1
          /\ IF failed' >= Limit THEN until' = TRUE /\ left' = Window ELSE UNCHANGED <<until, left>>
     ELSE UNCHANGED <<failed, since, until, left>>
  /\ UNCHANGED <<registered, revoked, tracker, bounds, early, passed, crowded>>

\* 429 if the row is locked, 401 if it is revoked; its tenant and camera are right.
ReadDevice(r) ==
  /\ In(r, "right") /\ IF left > 0 \/ revoked THEN Answer(r) ELSE GoOn(r, "admit")
  /\ early' = IF revoked THEN early \ {r} ELSE early \cup {r}
  /\ UNCHANGED <<deviceRow, tracker, bounds, passed, since, crowded>>

\* The process forgets; its lock goes with the count.
Admit(r) ==
  LET p == Process(r) IN
  /\ In(r, "admit") /\ Keep(r, "clear")
  /\ count' = [count EXCEPT ![p] = 0] /\ lock' = [lock EXCEPT ![p] = 0] /\ passed' = [passed EXCEPT ![p] = 0]
  /\ UNCHANGED <<deviceRow, bounds, early, since, crowded>>

\* Mutant: every column is written as it was read.
RevokedAsRead == FALSE

RevokedAfter == revoked

\* Columns that have the value already, as they were read, are not written.
Clear(r) ==
  /\ In(r, "clear") /\ Answer(r)
  /\ revoked' = RevokedAfter
  /\ IF FailedRead(r) = 0 THEN UNCHANGED <<failed, since>> ELSE failed' = 0 /\ since' = 0
  /\ IF UntilRead(r) THEN until' = FALSE /\ left' = 0 ELSE UNCHANGED <<until, left>>
  /\ UNCHANGED <<registered, tracker, bounds, early, passed, crowded>>

\* 409 for a device that is known; of two that add it, 500 for the second.
Onboard(r, p) ==
  /\ req[r] = <<>> /\ ~registered /\ rights < MaxRight /\ rights' = rights + 1
  /\ req' = [req EXCEPT ![r] = <<"add", p, 0, FALSE>>]
  /\ UNCHANGED <<deviceRow, tracker, wrongs, restarts, lockoutHistory>>

AddDevice(r) ==
  /\ In(r, "add") /\ Answer(r) /\ registered' = TRUE
  /\ UNCHANGED <<revoked, failed, until, left, tracker, bounds, lockoutHistory>>

Revoke ==
  /\ registered /\ ~revoked /\ revoked' = TRUE
  /\ UNCHANGED <<registered, failed, until, left, tracker, req, bounds, lockoutHistory>>

\* The tracker is in memory.
Restart(p) ==
  /\ restarts < MaxRestarts /\ restarts' = restarts + 1
  /\ req' = [r \in Verifiers |-> IF req[r] # <<>> /\ Process(r) = p THEN <<>> ELSE req[r]]
  /\ count' = [count EXCEPT ![p] = 0] /\ lock' = [lock EXCEPT ![p] = 0] /\ passed' = [passed EXCEPT ![p] = 0]
  /\ UNCHANGED <<deviceRow, wrongs, rights, early, since, crowded>>

Less(n) == IF n = 0 THEN 0 ELSE n - 1

LockTick ==
  /\ left > 0 \/ \E p \in AuthProcesses : lock[p] > 0
  /\ left' = Less(left) /\ lock' = [p \in AuthProcesses |-> Less(lock[p])]
  /\ UNCHANGED <<registered, revoked, failed, until, count, req, bounds, lockoutHistory>>

LockoutNext ==
  \/ \E r \in Verifiers :
       \/ \E p \in AuthProcesses : AskWrong(r, p) \/ AskRight(r, p) \/ Onboard(r, p)
       \/ ReadCandidate(r) \/ CountWrong(r) \/ WriteFailure(r)
       \/ ReadDevice(r) \/ Admit(r) \/ Clear(r) \/ AddDevice(r)
  \/ \E p \in AuthProcesses : Restart(p)
  \/ Revoke \/ LockTick

LockoutSpec == LockoutInit /\ [][LockoutNext]_lockoutVars

--------------------------------------------------------------------------------
LockoutTypeOK ==
  /\ {registered, revoked, until} \subseteq BOOLEAN /\ failed \in 0 .. MaxWrong /\ left \in 0 .. Window
  /\ count \in [AuthProcesses -> 0 .. MaxWrong] /\ lock \in [AuthProcesses -> 0 .. Window]
  /\ left > 0 => until

\* However requests interleave, and locks expire, a process answers 401 to fewer than Limit
\* wrong keys before it admits the device again, or restarts: the memory loses no count, as the row may.
LimitHolds == \A p \in AuthProcesses : passed[p] < Limit

\* The row counts the wrong keys that reached it since it was cleared, except where two
\* requests were under way together.
RowCounts == crowded = 0 => failed = since

\* A revocation stays, although requests write the row they read before it; and whoever is
\* admitted after it had read the row before.
RevokedIsFinal == [][revoked => revoked' /\ \A r \in Verifiers : In(r, "admit") /\ ~In(r, "admit")' => r \in early]_lockoutVars

\* What the lockout promises although it is kept twice, in memory and in the row.
LockoutHolds == [](LockoutTypeOK /\ LimitHolds /\ RowCounts) /\ RevokedIsFinal
================================================================================
