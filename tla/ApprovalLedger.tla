--------------------------- MODULE ApprovalLedger ---------------------------
(***************************************************************************)
(* The authoritative approval state of a run (approvals.py and             *)
(* approval_models.py) as pure operators: the ledger of requests with its  *)
(* decision and reissue records, the strict reader, the validation of a    *)
(* batch of decisions or of a reissue in the code's fixed order, and what  *)
(* an accepted batch makes of the ledger.                                  *)
(*                                                                         *)
(* Hash chains are the order of the sequences; an action digest is the     *)
(* identity of its request, and a batch that names another one has the     *)
(* flaw "digest".  Times are small natural numbers.                        *)
(***************************************************************************)
EXTENDS Naturals, Sequences, FiniteSets, SequencesExt, FiniteSetsExt

CONSTANTS
    Expiry,           \* request id -> expires_at of its action plan
    AuthorityExpiry   \* authority_expires_at of the trusted actor

Roots == {"r1", "r2"}
Order == <<"r1", "r2", "s1", "s2">>      \* request ids in their sorted order
ReqIds == ToSet(Order)

\* A reissue of a root names the one successor below; successors are not reissued.
SuccessorOf == [r \in Roots |-> IF r = "r1" THEN "s1" ELSE "s2"]

ExpiresAt(r) == Expiry[r]

(***************************************************************************)
(* Requests and ledgers.                                                   *)
(***************************************************************************)
Absent == [state |-> "absent", rev |-> 0, lrev |-> 0, crev |-> 0, at |-> 0, by |-> "none"]

build_approval_request_v2(crev, lrev, at) ==
    [state |-> "pending", rev |-> 1, lrev |-> lrev, crev |-> crev, at |-> at, by |-> "none"]

empty_approval_ledger_v2 ==
    [lrev |-> 0, req |-> [r \in ReqIds |-> Absent], decisions |-> <<>>, reissues |-> <<>>]

\* A request whose key is known is not added again; the ledger counts the others.
add_approval_request_v2(led, r, crev, at) ==
    IF led.req[r].state # "absent" THEN led
    ELSE [led EXCEPT !.lrev = @ + 1,
                     !.req[r] = build_approval_request_v2(crev, led.lrev + 1, at)]

\* The checkpoint that a run with proposals publishes: every root, in order.
Checkpoint(crev) ==
    FoldSeq(LAMBDA r, led : add_approval_request_v2(led, r, crev, 0),
            empty_approval_ledger_v2, <<"r1", "r2">>)

Present(led) == {r \in ReqIds : led.req[r].state # "absent"}
Pending(led) == {r \in ReqIds : led.req[r].state = "pending"}

(***************************************************************************)
(* Actors.  The trusted provider knows one verified actor with a scope and *)
(* an expiry, who may be revoked; the local command line is never          *)
(* verified, may only reject, and has no revocation to report.             *)
(***************************************************************************)
CliActor == [name |-> "cli", verified |-> FALSE, revoked |-> FALSE]
TrustedActor(revoked) == [name |-> "trusted", verified |-> TRUE, revoked |-> revoked]

MayReject(actor) == TRUE            \* both hold the scope reject:any
MayApprove(actor, t) == actor.verified /\ ~actor.revoked /\ t < AuthorityExpiry

Authorized(actor, decision, t) ==
    IF decision = "rejected" THEN MayReject(actor) ELSE MayApprove(actor, t)

(***************************************************************************)
(* The strict reader: every chain and projection, before anything is used. *)
(***************************************************************************)
Increasing(s, Less(_, _)) == \A i \in 1..(Len(s) - 1) : Less(s[i], s[i + 1])

Unique(s, Id(_)) == \A i, j \in 1..Len(s) : Id(s[i]) = Id(s[j]) => i = j

validate_decision_chain(led) ==
    /\ Unique(led.decisions, LAMBDA d : d.id)
    /\ Unique(led.decisions, LAMBDA d : d.key)
    /\ Increasing(led.decisions, LAMBDA d, e : d.at <= e.at /\ d.cl <= e.pl /\ d.cr <= e.pr)
    /\ \A i \in 1..Len(led.decisions) : led.decisions[i].cl <= led.lrev

validate_reissue_chain(led) ==
    /\ Unique(led.reissues, LAMBDA d : d.id)
    /\ Unique(led.reissues, LAMBDA d : d.key)
    /\ Increasing(led.reissues, LAMBDA d, e : d.at <= e.at)
    /\ \A i \in 1..Len(led.reissues) :
          /\ led.reissues[i].cl <= led.lrev
          /\ led.reissues[i].legacy => i = 1

Mutations(led) ==
    SetToSortSeq(ToSet(led.decisions) \cup ToSet(led.reissues), LAMBDA d, e : d.pr < e.pr)

Successors(led) == UNION {{SuccessorOf[r] : r \in d.sources} : d \in ToSet(led.reissues)}

\* The mutations follow one another: revisions count up and times never go back.
validate_mutation_timeline(led) ==
    LET chain == Mutations(led)
        roots == Cardinality(Present(led)) - Cardinality(Successors(led))
    IN  /\ led.lrev = Cardinality(Present(led)) + Len(led.decisions)
        /\ chain # <<>> =>
              /\ chain[1].pl = roots
              /\ Increasing(chain, LAMBDA d, e : d.cr = e.pr /\ d.cl = e.pl /\ d.at <= e.at)
              /\ Last(chain).cl = led.lrev

validate_request_projection(led) ==
    LET decided == [d \in ToSet(led.decisions) |-> DOMAIN d.items]
        sources == {d \in ToSet(led.reissues) : ~d.legacy}
    IN  /\ \A d \in ToSet(led.decisions) : \A r \in decided[d] :
              /\ led.req[r].state = d.items[r]
              /\ led.req[r].rev = d.revs[r]
              /\ \A e \in ToSet(led.decisions) \ {d} : r \notin decided[e]
        /\ \A d \in ToSet(led.reissues) : \A r \in d.sources :
              /\ led.req[SuccessorOf[r]].rev >= 1
              /\ led.req[SuccessorOf[r]].crev = d.cr
        /\ \A d \in sources : \A r \in d.sources :
              /\ led.req[r].state = "superseded"
              /\ led.req[r].by = SuccessorOf[r]
              /\ led.req[r].rev = d.revs[r] + 1
        /\ \A r \in ReqIds :
              /\ (led.req[r].state \in {"approved", "rejected"})
                    <=> (\E d \in ToSet(led.decisions) : r \in decided[d])
              /\ (led.req[r].state = "superseded") <=> (\E d \in sources : r \in d.sources)

read_approval_state_v2(led) ==
    /\ validate_decision_chain(led)
    /\ validate_reissue_chain(led)
    /\ validate_mutation_timeline(led)
    /\ validate_request_projection(led)

\* What a terminal manifest of revision rev requires of the ledger it carries.
BoundToRevision(led, rev) ==
    LET chain == Mutations(led)
        checkpoint == rev - Len(chain)
    IN  /\ \A r \in Present(led) \ Successors(led) : led.req[r].crev = checkpoint
        /\ chain # <<>> => chain[1].pr = checkpoint /\ Last(chain).cr = rev

(***************************************************************************)
(* Validation.  Each list is the code's order: the first failure is the    *)
(* answer.                                                                 *)
(***************************************************************************)
Refuse(condition, code) == IF condition THEN code ELSE "ok"

First(codes) ==
    LET failures == SelectSeq(codes, LAMBDA c : c # "ok")
    IN  IF failures = <<>> THEN "ok" ELSE failures[1]

\* The items of a batch are looked at in the order of their request ids.
FirstItem(items, Code(_)) ==
    First([i \in 1..Len(Order) |-> IF Order[i] \in items THEN Code(Order[i]) ELSE "ok"])

Recorded(records, key) == {d \in ToSet(records) : d.key = key}

decision_item(led, b, r) ==
    LET q == led.req[r]
    IN  First(<<Refuse(q.state = "absent", "APPROVAL_UNKNOWN"),
                Refuse(q.state # "pending", "APPROVAL_ALREADY_DECIDED"),
                Refuse(b.revs[r] # q.rev, "STALE_DECISION"),
                Refuse(b.flaw = "digest", "ACTION_DIGEST_MISMATCH"),
                Refuse(b.at < q.at, "RESUME_CONFLICT"),
                Refuse(b.at >= ExpiresAt(r), "APPROVAL_EXPIRED")>>)

\* found holds the actor the provider resolves, and is empty when it raises.
decision_authority(b, found) ==
    IF found = <<>> THEN "UNAUTHORIZED_DECISION"
    ELSE LET actor == found[1]
         IN  First(<<Refuse(actor # b.actor \/ b.flaw = "spoof", "ACTOR_SPOOF"),
                     FirstItem(DOMAIN b.items, LAMBDA r :
                        First(<<Refuse(actor.revoked, "AUTHORITY_REVOKED"),
                                Refuse(~Authorized(actor, b.items[r], b.at),
                                       "UNAUTHORIZED_DECISION")>>))>>)

\* mutant: a key that was used answers for whatever batch comes with it.
Mut_validate_approval_decision(led, run, b, found) ==
    IF Recorded(led.decisions, b.key) # {} THEN "replay"
    ELSE First(<<Refuse(b.erun # run, "STALE_DECISION"),
                 FirstItem(DOMAIN b.items, LAMBDA r : decision_item(led, b, r)),
                 decision_authority(b, found)>>)

\* A batch on a key that is recorded is a replay or a conflict; a new one passes every check.
validate_approval_decision(led, run, b, found) ==
    LET replay == Recorded(led.decisions, b.key)
    IN  IF replay # {}
        THEN IF \A d \in replay : d.batch = b THEN "replay" ELSE "IDEMPOTENCY_CONFLICT"
        ELSE First(<<Refuse(b.flaw = "run", "RESUME_CONFLICT"),
                     Refuse(b.erun # run, "STALE_DECISION"),
                     Refuse(b.eled # led.lrev, "STALE_DECISION"),
                     Refuse(\E d \in ToSet(led.decisions) : d.id = b.id, "IDEMPOTENCY_CONFLICT"),
                     Refuse(b.flaw = "conflict", "APPROVE_REJECT_CONFLICT"),
                     Refuse(b.flaw = "duplicate", "APPROVAL_DUPLICATE"),
                     FirstItem(DOMAIN b.items, LAMBDA r : decision_item(led, b, r)),
                     decision_authority(b, found)>>)

\* The second look at the authority, with the lock of the run held, at time t.
reverify_approval_authority(b, found, t) ==
    IF t < b.at THEN "RESUME_CONFLICT"
    ELSE IF found = <<>> THEN "UNAUTHORIZED_DECISION"
    ELSE LET actor == found[1]
             gone == IF actor.revoked THEN "AUTHORITY_REVOKED" ELSE "UNAUTHORIZED_DECISION"
         IN  First(<<Refuse(actor # b.actor,
                            IF actor.revoked THEN "AUTHORITY_REVOKED" ELSE "ACTOR_SPOOF"),
                     FirstItem(DOMAIN b.items, LAMBDA r :
                        First(<<Refuse(t >= ExpiresAt(r), "APPROVAL_EXPIRED"),
                                Refuse(~Authorized(actor, b.items[r], t), gone)>>))>>)

\* A reissue of historical requests names every pending one; led is then empty.
legacy_reissue(v1, b) ==
    LET pending == {r \in Roots : v1[r].status = "pending"}
    IN  First(<<Refuse(\E r \in Roots : b.at < v1[r].at, "RESUME_CONFLICT"),
                Refuse(pending = {} \/ DOMAIN b.items # pending, "REISSUE_NOT_ELIGIBLE")>>)

expired_reissue(led, b) ==
    First(<<Refuse(\E d \in ToSet(Mutations(led)) : b.at < d.at, "RESUME_CONFLICT"),
            FirstItem(DOMAIN b.items, LAMBDA r :
               First(<<Refuse(led.req[r].state = "absent", "APPROVAL_UNKNOWN"),
                       Refuse(\/ led.req[r].state # "pending"
                              \/ b.revs[r] # led.req[r].rev
                              \/ b.flaw = "digest"
                              \/ b.at < ExpiresAt(r), "REISSUE_NOT_ELIGIBLE")>>))>>)

validate_approval_reissue(v2, led, v1, run, b) ==
    LET replay == Recorded(led.reissues, b.key)
    IN  IF v2 /\ replay # {}
        THEN IF \A d \in replay : d.batch = b THEN "replay" ELSE "IDEMPOTENCY_CONFLICT"
        ELSE First(<<Refuse(v2 /\ b.flaw = "run", "REISSUE_CONFLICT"),
                     Refuse(b.erun # run \/ b.eled # led.lrev, "STALE_DECISION"),
                     Refuse(\E d \in ToSet(led.reissues) : d.id = b.id, "IDEMPOTENCY_CONFLICT"),
                     IF v2 THEN expired_reissue(led, b) ELSE legacy_reissue(v1, b),
                     FirstItem(DOMAIN b.items, LAMBDA r :
                        Refuse(ExpiresAt(SuccessorOf[r]) <= b.at, "APPROVAL_EXPIRED"))>>)

(***************************************************************************)
(* The successor ledgers.                                                  *)
(***************************************************************************)
build_approval_decision_update(led, b, status) ==
    LET decided == DOMAIN b.items
        req == [r \in ReqIds |->
                  IF r \in decided
                  THEN [led.req[r] EXCEPT !.rev = @ + 1, !.lrev = led.lrev + 1,
                                          !.state = b.items[r]]
                  ELSE led.req[r]]
    IN  [led EXCEPT !.lrev = @ + 1, !.req = req,
                    !.decisions = Append(@,
                       [key |-> b.key, id |-> b.id, batch |-> b, items |-> b.items,
                        revs |-> [r \in decided |-> req[r].rev],
                        pr |-> b.erun, cr |-> b.erun + 1,
                        pl |-> led.lrev, cl |-> led.lrev + 1,
                        at |-> b.at, status |-> status])]

\* The status the decided run is published with.
DecidedStatus(led, b) ==
    IF \E r \in DOMAIN b.items : b.items[r] = "approved" THEN "failed_with_limitations"
    ELSE IF Pending(led) \subseteq DOMAIN b.items THEN "completed"
    ELSE "approval_required"

Supersede(led, r) ==
    [led EXCEPT !.req[r] = [@ EXCEPT !.rev = @ + 1, !.lrev = led.lrev,
                                     !.state = "superseded", !.by = SuccessorOf[r]]]

Reissue(led, r, legacy, crev, at) ==
    LET added == add_approval_request_v2(led, SuccessorOf[r], crev, at)
    IN  IF legacy THEN added ELSE Supersede(added, r)

build_approval_reissue_update(v2, led, run, b) ==
    LET sources == SelectSeq(Order, LAMBDA r : r \in DOMAIN b.items)
        next == FoldSeq(LAMBDA r, l : Reissue(l, r, ~v2, run + 1, b.at), led, sources)
    IN  [next EXCEPT !.reissues = Append(@,
           [key |-> b.key, id |-> b.id, batch |-> b, sources |-> DOMAIN b.items,
            revs |-> [r \in DOMAIN b.items |-> led.req[r].rev],
            pr |-> run, cr |-> run + 1, pl |-> led.lrev, cl |-> next.lrev,
            at |-> b.at, legacy |-> ~v2])]

(***************************************************************************)
(* The recheck before an effect: at revision run, evaluated at time t, for *)
(* the actor now found.                                                    *)
(***************************************************************************)
MatchingRecords(led, r) == {d \in ToSet(led.decisions) : r \in DOMAIN d.items}

execution_authority(saved, found, t) ==
    IF found = <<>> THEN "AUTHORITY_UNAVAILABLE"
    ELSE LET actor == found[1]
         IN  First(<<Refuse(actor # saved,
                            IF actor.revoked THEN "AUTHORITY_REVOKED" ELSE "ACTOR_SPOOF"),
                     Refuse(actor.revoked, "AUTHORITY_REVOKED"),
                     Refuse(~MayApprove(actor, t), "UNAUTHORIZED_EXECUTION")>>)

\* mutant: the authority is not looked at again.
Mut_recheck_approval_for_execution(led, run, r, found, t) ==
    First(<<Refuse(led.req[r].state = "absent", "APPROVAL_MISSING"),
            Refuse(led.req[r].state # "approved", "APPROVAL_MISMATCH"),
            Refuse(t >= ExpiresAt(r), "APPROVAL_EXPIRED")>>)

\* The approval and its authority as they are when the action is about to be executed.
recheck_approval_for_execution(led, run, r, found, t) ==
    IF ~read_approval_state_v2(led) THEN "APPROVAL_MISMATCH"
    ELSE IF led.req[r].state = "absent" THEN "APPROVAL_MISSING"
    ELSE IF led.req[r].state # "approved" THEN "APPROVAL_MISMATCH"
    ELSE IF t >= ExpiresAt(r) THEN "APPROVAL_EXPIRED"
    ELSE IF Cardinality(MatchingRecords(led, r)) # 1 THEN "APPROVAL_MISMATCH"
    ELSE LET d == CHOOSE d \in MatchingRecords(led, r) : TRUE
         IN  First(<<Refuse(\/ d.items[r] # "approved"
                            \/ d.revs[r] # led.req[r].rev
                            \/ d.cr # run
                            \/ d.status # "failed_with_limitations", "APPROVAL_MISMATCH"),
                     execution_authority(d.batch.actor, found, t)>>)

\* The public V1 view of request r (approvals.json), from the view before.  A
\* reissued historical request and a superseded one both read as rejected.
project_v1_approvals(led, prior, r) ==
    LET q == led.req[r]
        reissued == {d \in ToSet(led.reissues) : r \in d.sources}
        decided == MatchingRecords(led, r)
    IN  IF reissued # {}
        THEN [status |-> "rejected", at |-> (CHOOSE d \in reissued : TRUE).at]
        ELSE IF q.state = "absent" THEN prior[r]
        ELSE [status |-> q.state,
              at |-> IF decided = {} THEN q.at ELSE (CHOOSE d \in decided : TRUE).at]
=============================================================================
