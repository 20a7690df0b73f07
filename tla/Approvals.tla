----------------------------- MODULE Approvals -----------------------------
(***************************************************************************)
(* Decisions on the approval requests of one run: decide_approvals,        *)
(* reissue_approvals and resume of the orchestrator, the failure audit of  *)
(* the terminal store, and the recheck that precedes an effect             *)
(* (TerminalApprovalVerifier).                                             *)
(*                                                                         *)
(* Clients are processes that share the run's directory and its lock.  A   *)
(* call reads the run, validates, publishes a successor revision by        *)
(* compare and swap with the authority verified again under the lock,      *)
(* reads the winner when that fails, and writes every failure to the       *)
(* audit.  The store may refuse, commit and then report an error, or lose  *)
(* a read; the provider may be down or revoke the actor; a process may die *)
(* at every step; a caller may repeat a call or use a key twice.           *)
(***************************************************************************)
EXTENDS ApprovalLedger

CONSTANTS
    Clients,
    MaxEvents,        \* max_events of the failure audit
    MaxFailed,        \* APPROVAL_AUDIT_MAX_FAILED_EVENTS per actor and window
    Window,           \* APPROVAL_AUDIT_WINDOW_SECONDS
    Scenarios         \* the runs and callers of interest, with their bounds

VARIABLES
    product,    \* the current revision: number, status, approvals.json, V2 ledger
    residue,    \* idempotency keys whose transaction left a staging directory
    lock,       \* the client that holds the run's lock, or "free"
    clock,      \* terminal_clock
    authority,  \* the actor that the authority provider knows
    audit,      \* the failure audit: event files, the pointer's count, current.tmp
    client,     \* the calls
    executor,   \* the pre-execution recheck of one approved request
    scenario,   \* what this behaviour is about; it never changes
    faults,     \* faults so far
    granted,    \* history: key -> what held when the lock's holder was verified
    rebased,    \* history: a V1 resume took a base that it had not read
    calls       \* calls begun

\* Bounds, which each scenario sets for itself.
MaxTime == scenario.end          \* the clock stops here
MaxCalls == scenario.calls       \* calls begun over the whole behaviour
MaxFaults == scenario.faults     \* refusals of the store, outages and crashes

history == <<granted, rebased>>

vars == <<product, residue, lock, clock, authority, audit, client, executor, history, calls,
          scenario, faults>>

Keys == {"k1", "k2"}
NoBatch == [kind |-> "none", key |-> "none", items |-> <<>>]
NoAnswer == [kind |-> "none", code |-> "none", confirmed |-> FALSE]
Idle == [pc |-> "idle", batch |-> NoBatch, read |-> <<>>, fail |-> "none", again |-> FALSE,
         stamp |-> 0, answer |-> NoAnswer]
NoCheck == [pc |-> "idle", at |-> 0, read |-> <<>>, req |-> "none", bound |-> FALSE,
            actor |-> CliActor]

Init ==
    /\ scenario \in Scenarios
    /\ faults = 0
    /\ LET v2 == scenario.v2 IN
          product = [rev |-> 1, status |-> "approval_required", v2 |-> v2,
                     v1 |-> [r \in ReqIds |-> [status |-> IF r \in Roots THEN "pending" ELSE "absent",
                                               at |-> 0]],
                     led |-> IF v2 THEN Checkpoint(1) ELSE empty_approval_ledger_v2]
    /\ authority = IF scenario.trusted THEN TrustedActor(FALSE) ELSE CliActor
    /\ residue = {} /\ lock = "free" /\ clock = 0 /\ calls = 0
    /\ audit = [events |-> <<>>, count |-> 0, tmp |-> FALSE]
    /\ client = [c \in Clients |-> Idle]
    /\ executor = NoCheck
    /\ granted = <<>> /\ rebased = FALSE

Set(c, value) == client' = [client EXCEPT ![c] = value]
At(c, pc) == client[c].pc = pc
Unlocked(c) == IF lock = c THEN "free" ELSE lock

\* What resolve_actor may give: the actor as he now is, or nothing at all.
Found == {<<authority>>} \cup (IF faults < MaxFaults THEN {<<>>} ELSE {})
Down(found) == IF found = <<>> THEN 1 ELSE 0

Fault == faults < MaxFaults /\ faults' = faults + 1

\* A failure goes to the audit, stamped with the clock before the lock is
\* asked for.  again: it was raised inside the try block, so that a failure
\* of its own audit is audited once more.
Failing(c, code, again) ==
    [client[c] EXCEPT !.pc = "audit", !.fail = code, !.again = again, !.stamp = clock]

Answered(c, answer) == [client[c] EXCEPT !.pc = "idle", !.read = <<>>, !.answer = answer,
                                         !.fail = "none", !.again = FALSE, !.stamp = 0]
Failure(code, confirmed) == [kind |-> "failure", code |-> code, confirmed |-> confirmed]
Outcome(d) == [kind |-> "outcome", code |-> d.key, confirmed |-> FALSE, record |-> d]
Report(what) == [kind |-> "report", code |-> what, confirmed |-> FALSE]
Escaped == [kind |-> "escaped", code |-> "none", confirmed |-> FALSE]

(***************************************************************************)
(* A caller prepares a batch from the run as it sees it now, and calls.    *)
(* It may also repeat its last batch.  A scenario lists the batches that   *)
(* callers make: kind, key, id, the items with their decisions, how far    *)
(* ahead of the clock or back the batch is dated, and its flaw.            *)
(***************************************************************************)
Batch(t) ==
    [kind |-> t.kind, key |-> t.key, id |-> t.id, items |-> t.items, at |-> clock + t.ahead - t.back,
     flaw |-> t.flaw, actor |-> authority, erun |-> product.rev, eled |-> product.led.lrev,
     revs |-> [r \in DOMAIN t.items |-> product.led.req[r].rev]]

Begin(c, b) ==
    /\ At(c, "idle")
    /\ calls < MaxCalls
    /\ calls' = calls + 1
    /\ Set(c, [Idle EXCEPT !.pc = "read", !.batch = b])
    /\ UNCHANGED <<product, residue, lock, clock, authority, audit, executor, history, scenario, faults>>

\* The V1 way of resume is for runs without a V2 ledger.
Call(c) == 
    \E t \in scenario.batches :
       /\ t.kind = "v1" => ~product.v2
       /\ t.back <= clock
       /\ Begin(c, Batch(t))

Repeat(c) == client[c].batch # NoBatch /\ client[c].batch.kind # "v1" /\ Begin(c, client[c].batch)

(***************************************************************************)
(* Reading.  A read that fails is a product error, which is audited with   *)
(* the code that it maps to; for the V1 resume it leaves the call.         *)
(***************************************************************************)
ReadCode == {"RUN_LOCKED", "RESUME_TRANSACTION_FAILED"}

Read(c) ==
    /\ At(c, "read")
    /\ Set(c, [client[c] EXCEPT !.pc = "validate", !.read = <<product>>])
    /\ UNCHANGED <<product, residue, lock, clock, authority, audit, executor, history, calls, scenario, faults>>

ReadFails(c) ==
    /\ Fault
    /\ At(c, "read")
    /\ \E code \in ReadCode :
          Set(c, IF client[c].batch.kind = "v1" THEN Answered(c, Escaped)
                 ELSE Failing(c, code, FALSE))
    /\ UNCHANGED <<product, residue, lock, clock, authority, audit, executor, history, calls, scenario>>

Updated(p, b) ==
    IF b.kind = "decide"
    THEN build_approval_decision_update(p.led, b, DecidedStatus(p.led, b))
    ELSE build_approval_reissue_update(p.v2, p.led, p.rev, b)

\* decide_approvals up to the publication, for the run p as it was read.
DecideAdmission(c, p, b, found) ==
    IF ~p.v2 THEN Failing(c, "LEGACY_APPROVAL_HISTORICAL_ONLY", TRUE)
    ELSE LET code == validate_approval_decision(p.led, p.rev, b, found)
         IN  IF code = "replay"
             THEN Answered(c, Outcome(CHOOSE d \in Recorded(p.led.decisions, b.key) : TRUE))
             ELSE IF code # "ok" THEN Failing(c, code, FALSE)
             ELSE IF b.flaw = "unredacted" \/ p.status # "approval_required"
                  THEN Failing(c, "RESUME_CONFLICT", TRUE)
             ELSE IF ~read_approval_state_v2(Updated(p, b)) THEN Answered(c, Escaped)
             ELSE [client[c] EXCEPT !.pc = "publish"]

\* reissue_approvals up to the publication.
ReissueAdmission(c, p, b) ==
    LET code == validate_approval_reissue(p.v2, p.led, p.v1, p.rev, b)
    IN  IF code = "replay"
        THEN Answered(c, Outcome(CHOOSE d \in Recorded(p.led.reissues, b.key) : TRUE))
        ELSE IF code # "ok" THEN Failing(c, code, FALSE)
        ELSE IF b.at > clock \/ p.status # "approval_required"
             THEN Failing(c, "RESUME_CONFLICT", TRUE)
        ELSE IF ~read_approval_state_v2(Updated(p, b))
             THEN Failing(c, "RESUME_TRANSACTION_FAILED", FALSE)
        ELSE [client[c] EXCEPT !.pc = "publish"]

\* The identifiers of the command line as a decision batch on the run p.
AsDecision(p, b, actor) ==
    [b EXCEPT !.kind = "decide", !.at = clock, !.actor = actor, !.erun = p.rev,
              !.eled = p.led.lrev, !.revs = [r \in DOMAIN b.items |-> Max({1, p.led.req[r].rev})]]

\* resume of a run without a V2 ledger: an approval is refused, a rejection
\* of what is not pending raises, the others are published.
LegacyAdmission(c, p, b, found) ==
    IF p.status # "approval_required" THEN Answered(c, Report("unchanged"))
    ELSE IF p.v2 THEN
        IF found = <<>> THEN Answered(c, Escaped)
        ELSE [client[c] EXCEPT !.pc = "read", !.read = <<>>, !.batch = AsDecision(p, b, found[1])]
    ELSE IF \E r \in DOMAIN b.items : b.items[r] = "approved"
         THEN Failing(c, "LEGACY_APPROVAL_HISTORICAL_ONLY", FALSE)
    ELSE IF \E r \in DOMAIN b.items : p.v1[r].status # "pending" THEN Answered(c, Escaped)
    ELSE [client[c] EXCEPT !.pc = "rebase"]

Validate(c) ==
    /\ At(c, "validate")
    /\ \E found \in Found :
          /\ faults' = faults + Down(found)
          /\ LET p == client[c].read[1]
                 b == client[c].batch
             IN  Set(c, CASE b.kind = "decide"  -> DecideAdmission(c, p, b, found)
                          [] b.kind = "reissue" -> ReissueAdmission(c, p, b)
                          [] b.kind = "v1"      -> LegacyAdmission(c, p, b, found))
    /\ UNCHANGED <<product, residue, lock, clock, authority, audit, executor, history, calls, scenario>>

(***************************************************************************)
(* Publication.                                                            *)
(***************************************************************************)
Product(p, led, status) ==
    [rev |-> p.rev + 1, status |-> status, v2 |-> TRUE, led |-> led,
     v1 |-> [r \in ReqIds |-> project_v1_approvals(led, p.v1, r)]]

\* The V1 resume: decided requests of what was read, over whatever is current.
LegacyProduct(p, b, t) ==
    LET v1 == [r \in ReqIds |-> IF r \in DOMAIN b.items
                                THEN [status |-> "rejected", at |-> t] ELSE p.v1[r]]
    IN  [p EXCEPT !.v1 = v1,
                  !.status = IF \E r \in Roots : v1[r].status = "pending"
                             THEN "approval_required" ELSE "completed"]

\* _publish_buffer takes the current revision as its base when none is given.
Rebase(c) ==
    /\ At(c, "rebase")
    /\ Set(c, [client[c] EXCEPT
                 !.pc = "publish",
                 !.read = <<[LegacyProduct(@[1], client[c].batch, clock) EXCEPT !.rev = product.rev]>>])
    /\ rebased' = (rebased \/ client[c].read[1].rev # product.rev)
    /\ UNCHANGED <<product, residue, lock, clock, authority, audit, executor, granted, calls, scenario, faults>>

\* A product error of the publication; the V1 resume lets it out.
Refused(c, code) ==
    IF client[c].batch.kind = "v1" THEN Answered(c, Escaped)
    ELSE [client[c] EXCEPT !.pc = "winner", !.fail = code]

\* mutant: the revision is not compared.
Mut_admit_current(p) == TRUE

\* The product that was read is still the current one.
admit_current(p) == p.rev = product.rev

\* The lock is held, or the reservation of the budget or the lock fails.
PublishFails(c) ==
    /\ At(c, "publish")
    /\ \/ /\ lock # "free"
          /\ Set(c, Refused(c, "RUN_LOCKED"))
          /\ UNCHANGED faults
       \/ Fault /\ Set(c, Refused(c, "RESUME_TRANSACTION_FAILED"))
    /\ UNCHANGED <<product, residue, lock, clock, authority, audit, executor, history, calls, scenario>>

\* What holds at the moment of the verification, as a reader of the run would
\* judge it: the history that AuthorityHeldAtCommit is about.
Holds(b) ==
    [rev |-> product.rev,
     ok |-> \A r \in DOMAIN b.items :
               /\ product.led.req[r].state = "pending"
               /\ clock < ExpiresAt(r)
               /\ b.items[r] = "approved" =>
                     authority.verified /\ ~authority.revoked /\ clock < AuthorityExpiry]

PublishEnter(c) ==
    /\ At(c, "publish")
    /\ lock = "free"
    /\ LET p == client[c].read[1]
           b == client[c].batch
       IN  \E found \in Found :
             /\ faults' = faults + Down(found)
             /\ LET code == IF b.kind = "decide"
                            THEN reverify_approval_authority(b, found, clock) ELSE "ok"
                IN  IF ~admit_current(p)
                    THEN Set(c, Refused(c, "STALE_DECISION")) /\ UNCHANGED <<lock, granted>>
                    ELSE IF code # "ok"
                    THEN Set(c, Failing(c, code, TRUE)) /\ UNCHANGED <<lock, granted>>
                    ELSE IF b.key \in residue
                    THEN Set(c, Refused(c, "RESUME_TRANSACTION_FAILED")) /\ UNCHANGED <<lock, granted>>
                    ELSE /\ Set(c, [client[c] EXCEPT !.pc = "commit"])
                         /\ lock' = c
                         /\ granted' = IF b.kind = "decide"
                                       THEN [k \in DOMAIN granted \cup {b.key} |->
                                               IF k = b.key THEN Holds(b) ELSE granted[k]]
                                       ELSE granted
    /\ UNCHANGED <<product, residue, clock, authority, audit, executor, rebased, calls, scenario>>

Successor(c) ==
    LET p == client[c].read[1]
        b == client[c].batch
    IN  IF b.kind = "v1" THEN [p EXCEPT !.rev = @ + 1]
        ELSE Product(p, Updated(p, b),
                     IF b.kind = "decide" THEN DecidedStatus(p.led, b) ELSE "approval_required")

\* The pointer is replaced, and the caller gets the outcome or an error.
Commit(c) ==
    /\ At(c, "commit")
    /\ product' = Successor(c)
    /\ lock' = "free"
    /\ \/ Set(c, IF client[c].batch.kind = "v1" THEN Answered(c, Report("recorded"))
                 ELSE Answered(c, Outcome(Last(IF client[c].batch.kind = "decide"
                                               THEN Updated(client[c].read[1], client[c].batch).decisions
                                               ELSE Updated(client[c].read[1], client[c].batch).reissues))))
          /\ UNCHANGED faults
       \/ Fault /\ Set(c, Refused(c, "RESUME_TRANSACTION_FAILED"))
    /\ UNCHANGED <<residue, clock, authority, audit, executor, history, calls, scenario>>

\* The staging fails: the transaction's directory stays, and its identifier is
\* a function of the key and the batch.
CommitFails(c) ==
    /\ Fault
    /\ At(c, "commit")
    /\ lock' = "free"
    /\ residue' = residue \cup ({client[c].batch.key} \ {"v1"})
    /\ Set(c, Refused(c, "RESUME_TRANSACTION_FAILED"))
    /\ UNCHANGED <<product, clock, authority, audit, executor, history, calls, scenario>>

(***************************************************************************)
(* The loser of a publication reads the winner: an exact replay is its     *)
(* outcome, a validation failure is its failure, and otherwise the product *)
(* error stands.                                                           *)
(***************************************************************************)
WinnerCode(b, found) ==
    IF b.kind = "decide" THEN validate_approval_decision(product.led, product.rev, b, found)
    ELSE validate_approval_reissue(product.v2, product.led, product.v1, product.rev, b)

Winner(c) ==
    /\ At(c, "winner")
    /\ \E found \in Found :
          /\ faults' = faults + Down(found)
          /\ LET b == client[c].batch
                 code == WinnerCode(b, found)
                 records == IF b.kind = "decide" THEN product.led.decisions ELSE product.led.reissues
             IN  Set(c, IF code = "replay"
                        THEN Answered(c, Outcome(CHOOSE d \in Recorded(records, b.key) : TRUE))
                        ELSE Failing(c, IF code = "ok" THEN client[c].fail ELSE code, TRUE))
    /\ UNCHANGED <<product, residue, lock, clock, authority, audit, executor, history, calls, scenario>>

WinnerUnread(c) ==
    /\ Fault
    /\ At(c, "winner")
    /\ Set(c, Failing(c, client[c].fail, TRUE))
    /\ UNCHANGED <<product, residue, lock, clock, authority, audit, executor, history, calls, scenario>>

(***************************************************************************)
(* The failure audit: read it, write the event, write current.tmp, replace *)
(* the pointer, read it all again.                                         *)
(***************************************************************************)
AuditActor(b) == IF b.kind = "reissue" THEN <<"reissue", b.key>> ELSE <<b.actor.name, "-">>

ControlCodes == {"AUDIT_RATE_LIMITED", "AUDIT_CAPACITY_EXCEEDED", "AUDIT_UNCONFIRMED"}

AuditReads == ~audit.tmp /\ Len(audit.events) = audit.count

RecentFailures(actor, t) ==
    {i \in 1..Len(audit.events) : /\ audit.events[i].actor = actor
                                  /\ audit.events[i].kind = "failure"
                                  /\ audit.events[i].at + Window > t}

\* The window is full and its marker stands: the last event of this actor.
MarkerActive(actor, t) ==
    LET mine == {i \in 1..Len(audit.events) : audit.events[i].actor = actor}
    IN  /\ Cardinality(RecentFailures(actor, t)) = MaxFailed
        /\ mine # {} /\ audit.events[Max(mine)].kind = "rate_limit"

\* The audit answers with a failure of its own.  One that was raised inside
\* the try block reaches the outer handler, which audits it again.
AuditRefused(c, code) ==
    IF client[c].again THEN [client[c] EXCEPT !.pc = "audit", !.fail = code, !.again = FALSE,
                                              !.stamp = clock]
    ELSE Answered(c, Failure(code, FALSE))

AuditEvent(c) ==
    LET actor == AuditActor(client[c].batch)
        full == Cardinality(RecentFailures(actor, client[c].stamp)) >= MaxFailed
    IN  [actor |-> actor, kind |-> IF full THEN "rate_limit" ELSE "failure",
         code |-> IF full THEN "AUDIT_RATE_LIMITED" ELSE client[c].fail,
         key |-> client[c].batch.key, at |-> client[c].stamp]

\* The failure is written down under the lock, within the capacity and the rate of its actor.
AuditBegin(c) ==
    /\ At(c, "audit")
    /\ lock = "free"
    /\ LET code == IF ~AuditReads THEN "APPROVAL_LEDGER_CORRUPT"
                   ELSE First(<<Refuse(audit.events # <<>> /\ client[c].stamp < Last(audit.events).at,
                                       "APPROVAL_LEDGER_CORRUPT"),
                                Refuse(Len(audit.events) >= MaxEvents, "AUDIT_CAPACITY_EXCEEDED"),
                                Refuse(MarkerActive(AuditActor(client[c].batch), client[c].stamp),
                                       "AUDIT_RATE_LIMITED"),
                                Refuse(AuditEvent(c).kind = "failure" /\ client[c].fail \in ControlCodes,
                                       "APPROVAL_LEDGER_CORRUPT")>>)
       IN  CASE code = "ok" -> Set(c, [client[c] EXCEPT !.pc = "audit_event"]) /\ lock' = c
             [] code = "AUDIT_RATE_LIMITED" -> Set(c, Answered(c, Failure(code, TRUE))) /\ UNCHANGED lock
             [] OTHER -> Set(c, AuditRefused(c, code)) /\ UNCHANGED lock
    /\ UNCHANGED <<product, residue, clock, authority, audit, executor, history, calls, scenario, faults>>

\* The lock is taken, or a file cannot be written or read: AUDIT_UNCONFIRMED.
AuditFails(c) ==
    /\ \/ At(c, "audit") /\ lock # "free" /\ UNCHANGED faults
       \/ Fault
    /\ client[c].pc \in {"audit", "audit_event", "audit_tmp", "audit_swap", "audit_verify"}
    /\ Set(c, AuditRefused(c, "AUDIT_UNCONFIRMED"))
    /\ lock' = Unlocked(c)
    /\ UNCHANGED <<product, residue, clock, authority, audit, executor, history, calls, scenario>>

AuditWrite(c) ==
    /\ \/ /\ At(c, "audit_event")
          /\ audit' = [audit EXCEPT !.events = Append(@, AuditEvent(c))]
          /\ Set(c, [client[c] EXCEPT !.pc = "audit_tmp", !.fail = AuditEvent(c).code])
       \/ /\ At(c, "audit_tmp")
          /\ audit' = [audit EXCEPT !.tmp = TRUE]
          /\ Set(c, [client[c] EXCEPT !.pc = "audit_swap"])
       \/ /\ At(c, "audit_swap")
          /\ audit' = [audit EXCEPT !.tmp = FALSE, !.count = Len(audit.events)]
          /\ Set(c, [client[c] EXCEPT !.pc = "audit_verify"])
    /\ UNCHANGED <<product, residue, lock, clock, authority, executor, history, calls, scenario, faults>>

AuditVerify(c) ==
    /\ At(c, "audit_verify")
    /\ Set(c, Answered(c, Failure(client[c].fail, TRUE)))
    /\ lock' = "free"
    /\ UNCHANGED <<product, residue, clock, authority, audit, executor, history, calls, scenario, faults>>

Crash(c) ==
    /\ Fault
    /\ ~At(c, "idle")
    /\ Set(c, [Idle EXCEPT !.batch = client[c].batch])
    /\ lock' = Unlocked(c)
    /\ residue' = IF At(c, "commit") /\ client[c].batch.kind # "v1"
                  THEN residue \cup {client[c].batch.key} ELSE residue
    /\ UNCHANGED <<product, clock, authority, audit, executor, history, calls, scenario>>

(***************************************************************************)
(* The recheck before an effect: read the clock, then the run, then ask    *)
(* the provider.                                                           *)
(***************************************************************************)
CheckBegin ==
    /\ executor.pc = "idle"
    /\ \E r \in ReqIds :
          /\ product.led.req[r].state = "approved"
          /\ executor' = [NoCheck EXCEPT !.pc = "read", !.at = clock, !.req = r]
    /\ UNCHANGED <<product, residue, lock, clock, authority, audit, client, history, calls, scenario, faults>>

CheckRead ==
    /\ executor.pc = "read"
    /\ executor' = [executor EXCEPT !.pc = "recheck", !.read = <<product>>]
    /\ UNCHANGED <<product, residue, lock, clock, authority, audit, client, history, calls, scenario, faults>>

Recheck ==
    /\ executor.pc = "recheck"
    /\ \E found \in Found :
          /\ faults' = faults + Down(found)
          /\ LET p == executor.read[1]
                 code == IF ~p.v2 THEN "APPROVAL_MISSING"
                         ELSE recheck_approval_for_execution(p.led, p.rev, executor.req, found, executor.at)
             IN  executor' = IF code = "ok"
                             THEN [executor EXCEPT !.pc = "done", !.bound = TRUE, !.actor = authority]
                             ELSE NoCheck
    /\ UNCHANGED <<product, residue, lock, clock, authority, audit, client, history, calls, scenario>>

Tick ==
    /\ clock < MaxTime
    /\ clock' = clock + 1
    /\ UNCHANGED <<product, residue, lock, authority, audit, client, executor, history, calls, scenario, faults>>

Revoke ==
    /\ authority.verified /\ ~authority.revoked
    /\ authority' = TrustedActor(TRUE)
    /\ UNCHANGED <<product, residue, lock, clock, audit, client, executor, history, calls, scenario, faults>>

Step(c) ==
    \/ Call(c) \/ Repeat(c)
    \/ Read(c) \/ ReadFails(c) \/ Validate(c) \/ Rebase(c)
    \/ PublishFails(c) \/ PublishEnter(c) \/ Commit(c) \/ CommitFails(c)
    \/ Winner(c) \/ WinnerUnread(c)
    \/ AuditBegin(c) \/ AuditFails(c) \/ AuditWrite(c) \/ AuditVerify(c)
    \/ Crash(c)

Next == (\E c \in Clients : Step(c)) \/ CheckBegin \/ CheckRead \/ Recheck \/ Tick \/ Revoke

Spec == Init /\ [][Next]_vars

-----------------------------------------------------------------------------
TypeOK ==
    /\ product.rev \in Nat /\ product.v2 \in BOOLEAN
    /\ product.status \in {"approval_required", "completed", "failed_with_limitations"}
    /\ lock \in Clients \cup {"free"}
    /\ clock \in 0..MaxTime /\ calls \in 0..MaxCalls
    /\ audit.count \in 0..MaxEvents /\ Len(audit.events) \in 0..MaxEvents

LegacyOverwrites ==
    /\ rebased
    /\ \E c \in Clients : At(c, "commit") /\ client[c].batch.kind = "v1" /\ product' = Successor(c)

(* What was decided stays, whatever calls race, repeat or die: a request   *)
(* that is approved, rejected or superseded never changes again, no        *)
(* decision or reissue record disappears, a V2 ledger is not replaced by   *)
(* historical artifacts, and a run that has left its approval checkpoint   *)
(* is not published again (publish_approval_decision, reissue_approvals,   *)
(* resume).  One step is outside it: a V1 resume may publish, over a base  *)
(* that it had not read, what it computed from an earlier revision         *)
(* (_publish_buffer without previous_read); RejectionsStay is about it.    *)
SettledForGood ==
    [][\/ LegacyOverwrites
       \/ /\ product.v2 => product'.v2
          /\ IsPrefix(product.led.decisions, product'.led.decisions)
          /\ IsPrefix(product.led.reissues, product'.led.reissues)
          /\ \A r \in ReqIds : product.led.req[r].state \in {"approved", "rejected", "superseded"}
                => product'.led.req[r] = product.led.req[r]
          /\ \A r \in ReqIds : product.v1[r].status = "rejected"
                => product'.v1[r].status = "rejected"
          /\ product.status # "approval_required" => product' = product]_vars

(* The published ledger always explains itself: mutations are in the order *)
(* of time, each decided request has exactly one record, the chain of      *)
(* records reaches the revision it is published in, and approvals.json     *)
(* shows as pending what the ledger holds pending, so that the strict      *)
(* reader (read_approval_state_v2, product_payload_commitments) accepts    *)
(* what the writers publish.                                               *)
LedgerIsCoherent ==
    product.v2 =>
        LET records == ToSet(product.led.decisions) \cup ToSet(product.led.reissues)
        IN  /\ \A d, e \in records : d.cr <= e.pr => d.at <= e.at /\ d.cl <= e.pl
            /\ BoundToRevision(product.led, product.rev)
            /\ \A r \in ReqIds : product.led.req[r].state \in {"approved", "rejected"}
                  => Cardinality(MatchingRecords(product.led, r)) = 1
            /\ Pending(product.led) = {r \in ReqIds : product.v1[r].status = "pending"}
            /\ product.status = "completed" => Pending(product.led) = {}

(* An outcome that a call returned is the record of that very batch, and   *)
(* it is in the current revision unless a V1 resume took a base that it    *)
(* had not read: also when the publication reported an error, when another *)
(* process with the same key won, and when the call is repeated            *)
(* (decide_approvals, reissue_approvals).                                  *)
OutcomesAreTrue ==
    \A c \in Clients : client[c].answer.kind = "outcome" =>
        LET d == client[c].answer.record
        IN  /\ d.batch = client[c].batch
            /\ rebased \/ d \in ToSet(product.led.decisions) \cup ToSet(product.led.reissues)

(* A decision is in the ledger only if, at a moment when its process held  *)
(* the run's lock on the revision that it replaced, every request was      *)
(* pending and not expired and, for an approval, the actor verified, not   *)
(* revoked and in time (reverify_approval_authority), however long ago the *)
(* batch was prepared and validated.                                       *)
AuthorityHeldAtCommit ==
    \A d \in ToSet(product.led.decisions) :
        d.key \in DOMAIN granted /\ granted[d.key].ok /\ granted[d.key].rev = d.pr

(* A binding for an execution is given only for a request that the         *)
(* revision which was read holds approved by exactly one record, by an     *)
(* actor who, when asked, was the one who decided, and not revoked, and    *)
(* before both expiry times (recheck_approval_for_execution); that         *)
(* revision stays the current one, unless a V1 resume took a base that it  *)
(* had not read.                                                           *)
ExecutionIsAuthorized ==
    executor.bound =>
        /\ rebased \/ product = executor.read[1]
        /\ \E d \in MatchingRecords(executor.read[1].led, executor.req) :
              /\ d.items[executor.req] = "approved"
              /\ d.cr = executor.read[1].rev
              /\ d.batch.actor = executor.actor
        /\ executor.actor.verified /\ ~executor.actor.revoked
        /\ executor.at < ExpiresAt(executor.req) /\ executor.at < AuthorityExpiry

(* A failure that is answered as audited has its event among those that    *)
(* the pointer counts, or the marker of a full window, and the audit never *)
(* holds more failures of one actor in a window than it may                *)
(* (append_approval_failure_audit).                                        *)
AuditIsTrue ==
    /\ \A c \in Clients : client[c].answer.kind = "failure" /\ client[c].answer.confirmed =>
          \E i \in 1..audit.count :
             /\ audit.events[i].actor = AuditActor(client[c].batch)
             /\ audit.events[i].code = client[c].answer.code
    /\ \A i \in 1..Len(audit.events) :
          Cardinality({j \in 1..i : /\ audit.events[j].actor = audit.events[i].actor
                                    /\ audit.events[j].kind = "failure"
                                    /\ audit.events[j].at + Window > audit.events[i].at}) <= MaxFailed

(* docs/phase2-readiness-contracts.md:621 has it that concurrent resumes   *)
(* lose no update: a rejection that a resume recorded is still recorded.   *)
RejectionsStay ==
    \A c \in Clients : client[c].answer = Report("recorded") =>
        \A r \in DOMAIN client[c].batch.items : product.v1[r].status = "rejected"
=============================================================================
