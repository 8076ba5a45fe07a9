------------------------------ MODULE FileLock ------------------------------
(***************************************************************************)
(* The advisory lock files of the program: acquireSentinelLock, which      *)
(* guards the gateway of a state directory, backups and the identity map,  *)
(* and withJobsFileLock, which guards the cron jobs file.  Both create the *)
(* file exclusively, write who holds it, and let a waiter remove a lock    *)
(* whose holder is provably gone; the sentinel alone reads its file back   *)
(* before it believes that it holds it.                                    *)
(*                                                                         *)
(* Every system call is a step of its own.  A process is a pid: one that   *)
(* is started again wears the number of the one that died.                 *)
(*                                                                         *)
(* ExclusionProofs extends this module and TurnLanes, so the names the two *)
(* would share begin with Lock here.                                       *)
(***************************************************************************)
EXTENDS Naturals, FiniteSets

CONSTANTS
    Process,       \* pids
    Token,         \* the random token of an acquire; one is always unused
    NoFile,
    MaxCrashes,    \* bound on processes that die
    MaxReboots,    \* bound on reboots of the machine
    MaxFaults      \* bound on bodies that cannot be written

ASSUME FileLockAssumption ==
    /\ {MaxCrashes, MaxReboots, MaxFaults} \subseteq Nat
    /\ Token # {}
    /\ NoFile \notin [by : Process, token : Token, boot : Nat, body : {"empty", "whole"}]

VARIABLES
    confirms,      \* TRUE: the sentinel lock, FALSE: the jobs lock
    bootIds,       \* the platform has an exact boot id
    boot,          \* boots of the machine
    file,          \* what is at the path
    old,           \* ... is older than unreadableStaleMs
    phase, token,  \* each process and its current acquire
    seen,          \* the file it read and judges
    robbed,        \* an unlink removed the lock of a process that counted on it
    spent

fixed == <<confirms, bootIds>>
lockVars == <<fixed, boot, file, old, phase, token, seen, robbed, spent>>

Files == [by : Process, token : Token, boot : Nat, body : {"empty", "whole"}]
Blank(f) == f.body = "empty"           \* created and not written, or cut short
LockStages == {"gone", "out", "try", "busy", "read", "stale", "same", "wait",
           "blank", "written", "held", "leaving"}

\* Every variable has its type, and the file at the path names a boot that was.
LockTypeOK ==
    /\ confirms \in BOOLEAN /\ bootIds \in BOOLEAN
    /\ old \in BOOLEAN /\ robbed \in BOOLEAN
    /\ boot \in Nat
    /\ file \in Files \cup {NoFile}
    /\ file # NoFile => file.boot <= boot
    /\ phase \in [Process -> LockStages]
    /\ token \in [Process -> Token]
    /\ seen \in [Process -> Files \cup {NoFile}]
    /\ \A p \in Process : phase[p] \in {"read", "stale", "same"} <=> seen[p] # NoFile
    /\ spent \in [{"crash", "fault"} -> Nat]

LockInit ==
    /\ confirms \in BOOLEAN /\ bootIds \in BOOLEAN
    /\ boot = 0 /\ file = NoFile /\ old = FALSE
    /\ phase = [p \in Process |-> "out"]
    /\ token = [p \in Process |-> CHOOSE t \in Token : TRUE]
    /\ seen = [p \in Process |-> NoFile]
    /\ robbed = FALSE
    /\ spent = [k \in {"crash", "fault"} |-> 0]

Spend(kind, max) == spent[kind] < max /\ spent' = [spent EXCEPT ![kind] = @ + 1]

Step(p, from, to) == phase[p] = from /\ phase' = [phase EXCEPT ![p] = to]
Goes(p, from, to) == Step(p, from, to) /\ UNCHANGED <<fixed, boot, token, spent>>

Own(p, f) == f # NoFile /\ f.by = p /\ f.token = token[p] /\ f.boot = boot
Alive(pid) == phase[pid] # "gone"

\* Two reads are byte-equal: no two bodies repeat but the empty ones.
SameBytes(f, g) == f # NoFile /\ g # NoFile /\ (f = g \/ (Blank(f) /\ Blank(g)))

-----------------------------------------------------------------------------
(* An acquire.                                                             *)

\* No file that is read or at the path carries the token of a new acquire.
Fresh(p, t) ==
    \A f \in {file} \cup {seen[q] : q \in Process} :
        f # NoFile /\ f.by = p => f.token # t

Start(p) ==
    /\ Step(p, "out", "try")
    /\ \E t \in Token : Fresh(p, t)
    /\ token' = [token EXCEPT ![p] = CHOOSE t \in Token : Fresh(p, t)]
    /\ UNCHANGED <<fixed, boot, file, old, seen, robbed, spent>>

\* open(path, 'wx'), then the write of the body to the descriptor.
Create(p) ==
    /\ file = NoFile /\ Goes(p, "try", "blank")
    /\ file' = [by |-> p, token |-> token[p], boot |-> boot, body |-> "empty"]
    /\ old' = FALSE
    /\ UNCHANGED <<seen, robbed>>

ConfirmsNothing(p) == Goes(p, "blank", "held")
Written(p) == Goes(p, "blank", IF confirms THEN "written" ELSE "held")

WriteBody(p) ==
    /\ Written(p)
    /\ file' = IF Own(p, file) THEN [file EXCEPT !.body = "whole"] ELSE file
    /\ UNCHANGED <<old, seen, robbed>>

\* The write throws: the caller gives up and the empty file stays.
WriteFails(p) ==
    /\ Step(p, "blank", "out") /\ Spend("fault", MaxFaults)
    /\ UNCHANGED <<fixed, boot, file, old, token, seen, robbed>>

\* Step 2 of the sentinel: does the file still carry our bytes?
Confirm(p) ==
    /\ Goes(p, "written", IF Own(p, file) THEN "held" ELSE "wait")
    /\ UNCHANGED <<file, old, seen, robbed>>

\* EEXIST, and a read of the incumbent, which may be gone by then.
Contend(p) ==
    /\ file # NoFile /\ Goes(p, "try", "busy")
    /\ UNCHANGED <<file, old, seen, robbed>>

Read(p) ==
    /\ Goes(p, "busy", IF file = NoFile THEN "wait" ELSE "read")
    /\ seen' = [seen EXCEPT ![p] = file]
    /\ UNCHANGED <<file, old, robbed>>

Forgets(p) == seen' = [seen EXCEPT ![p] = NoFile]

\* A holder from another boot, a pid that is gone; a body that names nobody is
\* judged by the age of what is at the path now.
StaleByAge(f) == file # NoFile /\ old
StaleByPid(f) == ~Blank(f) /\ (~Alive(f.by) \/ (bootIds /\ f.boot # boot))
Stale(f) ==
    \/ ~Blank(f) /\ (~Alive(f.by) \/ (bootIds /\ f.boot # boot))
    \/ Blank(f) /\ file # NoFile /\ old
    \/ Blank(f) /\ file = NoFile /\ confirms

Judge(p) ==
    /\ \/ Goes(p, "read", "stale") /\ Stale(seen[p]) /\ UNCHANGED seen
       \/ Goes(p, "read", "wait") /\ ~Stale(seen[p]) /\ Forgets(p)
    /\ UNCHANGED <<file, old, robbed>>

\* Once a lock was found stale the jobs lock always tries again at once, the
\* sentinel only if it removed it.
Onward == IF confirms THEN "wait" ELSE "try"

StillThatLock(p) == SameBytes(file, seen[p])

Recheck(p) ==
    /\ \/ StillThatLock(p) /\ Goes(p, "stale", "same") /\ UNCHANGED seen
       \/ ~StillThatLock(p) /\ Goes(p, "stale", Onward) /\ Forgets(p)
    /\ UNCHANGED <<file, old, robbed>>

\* A process that goes by the file it created, and will not look at it again.
CountsOn(p, f) ==
    /\ Own(p, f)
    /\ phase[p] \in {"held", "leaving"} \/ (~confirms /\ phase[p] = "blank")

\* unlink(path) removes whatever is there by now.
Unlink(p, meant) ==
    /\ robbed' = (robbed \/ (~meant /\ \E q \in Process \ {p} : CountsOn(q, file)))
    /\ file' = NoFile /\ old' = FALSE

Reclaim(p) ==
    /\ Goes(p, "same", IF file # NoFile THEN "try" ELSE Onward)
    /\ Unlink(p, file = seen[p])
    /\ Forgets(p)

\* The poll interval, or the deadline and a refusal.
Poll(p) == Goes(p, "wait", "try") /\ UNCHANGED <<file, old, seen, robbed>>
GiveUp(p) == Goes(p, "wait", "out") /\ UNCHANGED <<file, old, seen, robbed>>

\* release: the guarded work is over; unlink the file if it carries our bytes.
Release(p) ==
    /\ Goes(p, "held", IF Own(p, file) THEN "leaving" ELSE "out")
    /\ UNCHANGED <<file, old, seen, robbed>>

Leave(p) ==
    /\ Goes(p, "leaving", "out")
    /\ Unlink(p, Own(p, file))
    /\ UNCHANGED seen

-----------------------------------------------------------------------------
(* Deaths and clocks.                                                      *)

Crash(p) ==
    /\ Alive(p) /\ phase' = [phase EXCEPT ![p] = "gone"]
    /\ Spend("crash", MaxCrashes) /\ Forgets(p)
    /\ UNCHANGED <<fixed, boot, file, old, token, robbed>>

\* Any program may come to wear the number of a process that died.
Restart(p) ==
    /\ Goes(p, "gone", "out")
    /\ UNCHANGED <<file, old, seen, robbed>>

Reboot ==
    /\ boot < MaxReboots /\ boot' = boot + 1
    /\ phase' = [p \in Process |-> "gone"]
    /\ seen' = [p \in Process |-> NoFile]
    /\ UNCHANGED <<fixed, file, old, token, robbed, spent>>

\* unreadableStaleMs pass.  No process takes that long from the create to the write,
\* nor from its read of a lock that has changed since to the check of its age.
Age ==
    /\ file # NoFile /\ ~old /\ old' = TRUE
    /\ \A p \in Process : /\ phase[p] = "read" => seen[p] = file
                          /\ Own(p, file) => phase[p] # "blank"
    /\ UNCHANGED <<fixed, boot, file, phase, token, seen, robbed, spent>>

-----------------------------------------------------------------------------

AcquireLock(p) ==
    \/ Create(p) \/ WriteBody(p) \/ Confirm(p) \/ Contend(p) \/ Read(p) \/ Judge(p)
    \/ Recheck(p) \/ Reclaim(p) \/ Poll(p) \/ GiveUp(p)

LockNext ==
    \/ \E p \in Process :
         \/ Start(p) \/ AcquireLock(p) \/ WriteFails(p) \/ Release(p) \/ Leave(p)
         \/ Crash(p) \/ Restart(p)
    \/ Reboot \/ Age

LockSpec == LockInit /\ [][LockNext]_lockVars

\* Processes run and are started again, the guarded work ends, callers come back
\* (a scheduler ticks, a supervisor restarts its gateway), and a file grows old.
LockFairness ==
    /\ \A p \in Process :
         WF_lockVars(Start(p)) /\ WF_lockVars(AcquireLock(p)) /\ WF_lockVars(Release(p))
         /\ WF_lockVars(Leave(p)) /\ WF_lockVars(Restart(p))
    /\ WF_lockVars(Age)

FairLockSpec == LockSpec /\ LockFairness

-----------------------------------------------------------------------------
(* What the lock promises.                                                 *)

Holders == {p \in Process : phase[p] = "held"}

\* Two processes never both hold the lock, unless an unlink removed a file other
\* than the one its caller judged, from a process that had read its own back: the
\* window the sentinel's comment calls narrowed and not closed.
OneHolder == robbed \/ \A p, q \in Holders : p = q

Deaths == spent["crash"] + spent["fault"] + boot

\* And on the jobs lock that takes an abandoned lock: as long as no process died and
\* every body was written, nobody's lock is taken away, whatever its age.
KeptFromTheLiving == ~confirms /\ Deaths = 0 => ~robbed

\* Not kept, see the README: the sentinel's comment says the same of its own window,
\* "reachable only when two contenders classify the SAME abandoned lock as stale inside
\* that span".
WindowNeedsAbandoned == confirms /\ Deaths = 0 => ~robbed

\* "A lock naming a LIVE pid is never reclaimed by age: preempting a working holder
\* puts two writers on jobs.json, which is the failure the lock exists to prevent."
OneWriter == ~confirms => \A p, q \in Holders : p = q

\* Provably abandoned: it names a pid that is gone or a boot that is over, or nobody
\* at all for longer than any write takes.
Abandoned ==
    /\ file # NoFile
    /\ \/ ~Blank(file) /\ (~Alive(file.by) \/ (bootIds /\ file.boot # boot))
       \/ Blank(file) /\ \A p \in Process : Own(p, file) => phase[p] # "blank"

\* A lock left by a process that died, even between the create and the write, does
\* not stay for ever: "Nothing reclaimed it; an operator had to find and delete the
\* file" is the defect the stale rule replaces.
AbandonedIsReclaimed == Abandoned ~> ~Abandoned

=============================================================================
