-------------------------- MODULE ContextLifecycle --------------------------
(***************************************************************************)
(* context_lifecycle.py: the envelope in which the context of one attempt  *)
(* is handed to a provider, as the code builds it and checks it.  A digest *)
(* is the value it is the digest of, so an envelope that was altered is    *)
(* one whose recorded digest differs from the part it was taken of.        *)
(***************************************************************************)
EXTENDS Integers

CONSTANT Null

\* ContextClassification, and what a payload can hold: the fields that are
\* present, and whether one of them looks like a credential.
Classification == {"public", "internal", "sensitive", "restricted"}

\* classify_context_payload: a detected credential overrides the caller.
classify_context_payload(payload, requested) ==
    IF payload.secret THEN "restricted" ELSE requested

\* ContextPolicy
PolicyOf(class, expires, payload) ==
    [class |-> class, expires |-> expires, fields |-> payload.fields]

\* _integrity_payload: everything but the digest itself.
Signed(envelope) ==
    <<envelope.created, envelope.policy, envelope.lineage, envelope.payload,
      envelope.payloadDigest, envelope.policyDigest>>

\* _build_context_envelope, of an assignment whose context keys are the fields
\* of the payload and an expiry that follows the creation.
CanBuild(payload, assignment, created, expires) ==
    /\ assignment.keys = payload.fields
    /\ expires > created

Build(payload, assignment, run, created, expires, requested, context, attempt, parent, source) ==
    LET policy   == PolicyOf(classify_context_payload(payload, requested), expires, payload)
        lineage  == [context |-> context, run |-> run, assignment |-> assignment,
                     attempt |-> attempt, parent |-> parent,
                     source |-> IF source = Null THEN payload ELSE source]
        unsigned == [created |-> created, policy |-> policy, lineage |-> lineage,
                     payload |-> payload, payloadDigest |-> payload, policyDigest |-> policy]
    IN  [created |-> created, policy |-> policy, lineage |-> lineage, payload |-> payload,
         payloadDigest |-> payload, policyDigest |-> policy, integrity |-> Signed(unsigned)]

\* build_context_envelope: a first attempt has neither a parent nor a source.
build_context_envelope(payload, assignment, run, created, expires, context, attempt) ==
    Build(payload, assignment, run, created, expires, "internal", context, attempt, Null, Null)

\* An envelope is in force from its creation until it expires.
InForce(envelope, now) == now >= envelope.created /\ now < envelope.policy.expires

\* It is the envelope of this run, this context, this assignment and attempt.
Correlates(envelope, assignment, run, context, attempt) ==
    /\ envelope.lineage.run = run
    /\ envelope.lineage.context = context
    /\ envelope.lineage.assignment = assignment
    /\ envelope.lineage.attempt = attempt

\* A retry descends from the expected context and has the source of the first
\* attempt; a first attempt is its own source.
Descends(envelope, parent, source) ==
    /\ envelope.lineage.parent = parent
    /\ parent # Null => source # Null
    /\ source # Null => envelope.lineage.source = source
    /\ parent = Null => envelope.lineage.source = envelope.payloadDigest

Intact(envelope) ==
    /\ envelope.policyDigest = envelope.policy
    /\ envelope.payloadDigest = envelope.payload
    /\ envelope.integrity = Signed(envelope)

\* The payload is exactly what the policy and the assignment list, and may
\* leave the process.
MayBeHandedOver(envelope, assignment) ==
    /\ envelope.payload.fields = envelope.policy.fields
    /\ assignment.keys = envelope.policy.fields
    /\ envelope.policy.class # "restricted"
    /\ ~envelope.payload.secret

\* validate_context_envelope: TRUE when it returns the context.
validate_context_envelope(envelope, assignment, run, context, attempt, now, parent, source) ==
    /\ InForce(envelope, now)
    /\ Correlates(envelope, assignment, run, context, attempt)
    /\ Descends(envelope, parent, source)
    /\ Intact(envelope)
    /\ MayBeHandedOver(envelope, assignment)

\* The checks of build_retry_context_envelope on its parent, at time now.
CanRetryFrom(parent, assignment, run, now) ==
    /\ parent.lineage.run = run
    /\ parent.lineage.assignment = assignment
    /\ validate_context_envelope(parent, assignment, run, parent.lineage.context,
                                 parent.lineage.attempt, now, parent.lineage.parent,
                                 parent.lineage.source)

\* build_retry_context_envelope, which also requires fresh identities.
CanBuildRetry(parent, payload, assignment, run, now, expires, context, attempt) ==
    /\ CanRetryFrom(parent, assignment, run, now)
    /\ CanBuild(payload, assignment, now, expires)
    /\ context # parent.lineage.context
    /\ attempt # parent.lineage.attempt

build_retry_context_envelope(parent, payload, assignment, run, now, expires, context, attempt) ==
    Build(payload, assignment, run, now, expires, parent.policy.class, context, attempt,
          parent.lineage.context, parent.lineage.source)
=============================================================================
