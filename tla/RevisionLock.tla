----------------------------- MODULE RevisionLock -----------------------------
(***************************************************************************)
(* storage/revision_lock.py: the authority lock of a run.  A thread first  *)
(* reserves the key in its process's registry of held keys, then opens the *)
(* one-byte authority file (creating or repairing it when it may), then    *)
(* takes the kernel lock without blocking.  Every error path gives back    *)
(* what was taken, except a failed release, which keeps the registry key.  *)
(***************************************************************************)
EXTENDS Integers, FiniteSets

CONSTANTS
    Thread, Process, ProcessOf,
    Bootstrap,      \* the threads that call with bootstrap=True
    MaxFaults,      \* bound: failing file operations
    MaxCrashes,     \* bound: process crashes
    Null

ASSUME LockAssumption ==
    /\ ProcessOf \in [Thread -> Process]
    /\ Bootstrap \subseteq Thread
    /\ MaxFaults \in Nat /\ MaxCrashes \in Nat
    /\ Null \notin Thread

VARIABLES
    authority,  \* the lock file: absent, empty or one byte
    registry,   \* processes whose _HELD_KEYS contains the key
    kernel,     \* the thread whose stream holds the kernel lock
    pc,
    unreleased, \* ghost: processes in which a LockReleaseError was raised
    faults, crashes

vars == <<authority, registry, kernel, pc, unreleased, faults, crashes>>

Stage == {"idle", "reserved", "created", "opened", "contended", "locked", "held",
          "unlocked"}

TypeOK ==
    /\ authority \in {"absent", "empty", "byte"}
    /\ registry \in SUBSET Process
    /\ kernel \in Thread \cup {Null}
    /\ pc \in [Thread -> Stage]
    /\ unreleased \in SUBSET Process
    /\ faults \in 0..MaxFaults /\ crashes \in 0..MaxCrashes

Init ==
    /\ authority = "absent"
    /\ registry = {}
    /\ kernel = Null
    /\ pc = [t \in Thread |-> "idle"]
    /\ unreleased = {}
    /\ faults = 0 /\ crashes = 0

Goto(t, l) == pc' = [pc EXCEPT ![t] = l]

\* _release_registry
DropKey(t) == registry' = registry \ {ProcessOf[t]}

-----------------------------------------------------------------------------
\* _reserve: a key that is already held raises LockBusyError and changes nothing.
Reserve(t) ==
    /\ pc[t] = "idle"
    /\ ProcessOf[t] \notin registry
    /\ registry' = registry \cup {ProcessOf[t]}
    /\ Goto(t, "reserved")
    /\ UNCHANGED <<authority, kernel, unreleased, faults, crashes>>

\* _open_authority: an absent file is created exclusively, still empty.
CreateAuthority(t) ==
    /\ pc[t] = "reserved"
    /\ authority = "absent" /\ t \in Bootstrap
    /\ authority' = "empty"
    /\ Goto(t, "created")
    /\ UNCHANGED <<registry, kernel, unreleased, faults, crashes>>

\* The creator writes its byte; anyone who may bootstrap and finds the file
\* empty writes the same byte (the zero-length repair).
WriteAuthority(t) ==
    /\ \/ pc[t] = "created"
       \/ pc[t] = "reserved" /\ authority = "empty" /\ t \in Bootstrap
    /\ authority' = "byte"
    /\ Goto(t, "opened")
    /\ UNCHANGED <<registry, kernel, unreleased, faults, crashes>>

OpenAuthority(t) ==
    /\ pc[t] = "reserved"
    /\ authority = "byte"
    /\ Goto(t, "opened")
    /\ UNCHANGED <<authority, registry, kernel, unreleased, faults, crashes>>

\* Without bootstrap a missing or empty authority is LockUnavailableError.
AuthorityUnavailable(t) ==
    /\ pc[t] = "reserved"
    /\ authority # "byte" /\ t \notin Bootstrap
    /\ DropKey(t)
    /\ Goto(t, "idle")
    /\ UNCHANGED <<authority, kernel, unreleased, faults, crashes>>

\* A file operation of _open_authority fails: the outer handler closes the
\* stream and gives the key back; the file stays as it was.
OpenFails(t) ==
    /\ pc[t] \in {"reserved", "created"}
    /\ faults < MaxFaults
    /\ faults' = faults + 1
    /\ DropKey(t)
    /\ Goto(t, "idle")
    /\ UNCHANGED <<authority, kernel, unreleased, crashes>>

\* mutant: the lock is taken to be held without asking the kernel.
Mut_KernelAcquire(t) ==
    /\ pc[t] = "opened"
    /\ kernel' = t
    /\ Goto(t, "locked")
    /\ UNCHANGED <<authority, registry, unreleased, faults, crashes>>

\* _kernel_acquire: flock or msvcrt.locking, exclusive and non-blocking.
KernelAcquire(t) ==
    /\ pc[t] = "opened"
    /\ kernel = Null
    /\ kernel' = t
    /\ Goto(t, "locked")
    /\ UNCHANGED <<authority, registry, unreleased, faults, crashes>>

\* mutant: a blocking lock call.
Mut_KernelContended(t) == FALSE

\* Another process holds the kernel lock: the inner handler closes the stream
\* and releases the registry key ...
KernelContended(t) ==
    /\ pc[t] = "opened"
    /\ kernel # Null
    /\ DropKey(t)
    /\ Goto(t, "contended")
    /\ UNCHANGED <<authority, kernel, unreleased, faults, crashes>>

\* The kernel call fails for another reason: the same inner handler.
KernelCallFails(t) ==
    /\ pc[t] = "opened"
    /\ faults < MaxFaults
    /\ faults' = faults + 1
    /\ DropKey(t)
    /\ Goto(t, "contended")
    /\ UNCHANGED <<authority, kernel, unreleased, crashes>>

\* ... and the error it raises reaches the outer handler, which
\* releases the key once more.
ReleaseAgain(t) ==
    /\ pc[t] = "contended"
    /\ DropKey(t)
    /\ Goto(t, "idle")
    /\ UNCHANGED <<authority, kernel, unreleased, faults, crashes>>

\* The identity of the locked file is verified and the lease handed out.
GrantLease(t) ==
    /\ pc[t] = "locked"
    /\ Goto(t, "held")
    /\ UNCHANGED <<authority, registry, kernel, unreleased, faults, crashes>>

\* The verification fails: closing the stream drops the kernel lock.
VerifyFails(t) ==
    /\ pc[t] = "locked"
    /\ faults < MaxFaults
    /\ faults' = faults + 1
    /\ kernel' = Null
    /\ DropKey(t)
    /\ Goto(t, "idle")
    /\ UNCHANGED <<authority, unreleased, crashes>>

-----------------------------------------------------------------------------
\* AuthorityLease.release: unlock and close, then the registry.
KernelRelease(t) ==
    /\ pc[t] = "held"
    /\ kernel' = Null
    /\ Goto(t, "unlocked")
    /\ UNCHANGED <<authority, registry, unreleased, faults, crashes>>

RegistryRelease(t) ==
    /\ pc[t] = "unlocked"
    /\ DropKey(t)
    /\ Goto(t, "idle")
    /\ UNCHANGED <<authority, kernel, unreleased, faults, crashes>>

\* The unlock or the close raised: the stream is closed all the same, and the
\* registry key stays held.
ReleaseFails(t) ==
    /\ pc[t] = "held"
    /\ faults < MaxFaults
    /\ faults' = faults + 1
    /\ kernel' = Null
    /\ unreleased' = unreleased \cup {ProcessOf[t]}
    /\ Goto(t, "idle")
    /\ UNCHANGED <<authority, registry, crashes>>

Crash(p) ==
    /\ crashes < MaxCrashes
    /\ p \in registry \/ \E t \in Thread : ProcessOf[t] = p /\ pc[t] # "idle"
    /\ crashes' = crashes + 1
    /\ pc' = [t \in Thread |-> IF ProcessOf[t] = p THEN "idle" ELSE pc[t]]
    /\ registry' = registry \ {p}
    /\ unreleased' = unreleased \ {p}
    /\ kernel' = IF kernel # Null /\ ProcessOf[kernel] = p THEN Null ELSE kernel
    /\ UNCHANGED <<authority, faults>>

-----------------------------------------------------------------------------
\* The steps a running thread takes once it has called acquire_authority.
Progress(t) ==
    \/ CreateAuthority(t) \/ WriteAuthority(t) \/ OpenAuthority(t)
    \/ AuthorityUnavailable(t) \/ KernelAcquire(t) \/ KernelContended(t) \/ ReleaseAgain(t)
    \/ GrantLease(t) \/ KernelRelease(t) \/ RegistryRelease(t)

Next ==
    \/ \E t \in Thread :
         \/ Reserve(t) \/ Progress(t) \/ OpenFails(t) \/ KernelCallFails(t)
         \/ VerifyFails(t) \/ ReleaseFails(t)
    \/ \E p \in Process : Crash(p)

Spec == Init /\ [][Next]_vars

\* A thread that is inside acquire or release is running and keeps running;
\* a holder reaches its finally clause.
FairSpec == Spec /\ \A t \in Thread : WF_vars(Progress(t))

-----------------------------------------------------------------------------
\* At most one thread of all processes is between a granted kernel lock and
\* its release, whatever failed before, and the kernel knows it.
LeaseIsExclusive ==
    \A t \in Thread : pc[t] \in {"locked", "held"} => kernel = t

\* No error path leaks a reservation: a process whose registry holds the key
\* has a thread inside acquire or release, or a release that was not confirmed.
\* A leaked key would lock the process out of the run for ever.
NoLeakedKey ==
    \A p \in registry :
      p \in unreleased \/ \E t \in Thread : ProcessOf[t] = p /\ pc[t] \notin {"idle", "contended"}

\* Nobody waits for a lock: whoever reserved the key ends up idle again, and
\* a lease that was granted is given back.
CallsReturn == \A t \in Thread : pc[t] # "idle" ~> pc[t] = "idle"
=============================================================================
