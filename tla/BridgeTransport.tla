-------------------------- MODULE BridgeTransport --------------------------
(***************************************************************************)
(* One execution of a confirmed role by a real transport of the bridge:    *)
(* the subscription transport, which drives the Codex command line and     *)
(* reads its event stream, and the API transport, which drives a worker    *)
(* process (sdk_worker) and reads its protocol.  The parent prepares an    *)
(* attempt, spawns the child, writes the request, waits until the child    *)
(* ends or a cap or the deadline cuts it, and classifies what it captured. *)
(* The child and the provider run on their own; the parent may die and the *)
(* execution be asked for again.                                           *)
(***************************************************************************)
EXTENDS BridgeContracts

CONSTANTS MaxEvents,        \* bound on the events of a child
          MaxCrashes        \* bound on deaths of the parent

VARIABLES kind,             \* "subscription" or "api", chosen by the request's auth mode
          guarded,          \* a PreparedRuntimeRoot guards the scratch directory
          root,             \* [state, same]: the capability, and its directory's identity
          attempt,          \* the attempt directory exists
          isolated,         \* the process context of the attempt exists
          drift,            \* what changed since it was bound: "skill" files, "source" files
          parent,           \* step of execute
          cut,              \* why the child was stopped
          captured,         \* what the reader threads have read
          answer,           \* what execute answered
          child,            \* [state, pc, code, input]
          pipe,             \* the events the child has written
          sent,             \* turns transmitted to the provider
          completed,        \* the provider has completed the turn
          calls,            \* executions still to be asked for
          crashes

vars == <<kind, guarded, root, attempt, isolated, drift, parent, cut, captured, answer,
          child, pipe, sent, completed, calls, crashes>>
config == <<kind, guarded>>
provider == <<sent, completed>>
world == <<root, drift>>
dirs == <<attempt, isolated>>

ThreadIdentity == 1               \* the identity of the thread the child opens
NoAnswer == [effect |-> "none"]
Raised == [effect |-> "raised"]     \* an exception execute does not classify
NotLaunched == Outcome("not_launched", None, None, FALSE)
Unknown(launched) == Outcome("effect_unknown", None, None, launched)
NoChild == [state |-> "none", pc |-> "boot", code |-> 0, input |-> "none"]

Running == child.state = "running"

----------------------------------------------------------------------------
(* The scratch capability (PreparedRuntimeRoot).                           *)

\* begin consumes it once; verify_active and finish need it active; each
\* compares every directory of its path with the identity bound at creation.
CanBegin == guarded => root.state = "prepared" /\ root.same
Verified == guarded => root.state = "active" /\ root.same
BeginRoot == root' = IF guarded THEN [root EXCEPT !.state = "active"] ELSE root
FinishRoot == root' = IF guarded THEN [root EXCEPT !.state = "finished"] ELSE root

----------------------------------------------------------------------------
(* What the parent makes of the events it captured.                        *)

Count(s, e) == Cardinality({i \in DOMAIN s : s[i] = e})
\* The events before the first line that does not parse.
Prefix(s) ==
  LET bad == {i \in DOMAIN s : s[i] = "junk"}
  IN IF bad = {} THEN s ELSE SubSeq(s, 1, (CHOOSE i \in bad : \A j \in bad : i <= j) - 1)
Parses(s) == s # <<>> /\ Count(s, "junk") = 0

\* _is_exact_sealed_default_transport: the only one whose success is evidence of
\* a live execution; its source files are bound before and compared after.
SealedDefault == kind = "subscription" /\ guarded

\* _thread_from_prefix: the thread identity, and whether a turn was started.
SeenThread(s) == IF Count(Prefix(s), "thread") > 0 THEN ThreadIdentity ELSE None
SeenTurn(s) == Count(Prefix(s), "turn") > 0

\* An outcome of the subscription transport, with the identities of the prefix.
Seen(effect, s) ==
  Outcome(effect, SeenThread(s), IF SeenTurn(s) THEN SeenThread(s) ELSE None, SeenTurn(s))

\* The lifecycle a successful stream shows: one thread, one turn, one
\* completion, one final message, nothing unapproved.
LifecycleExact(s) ==
  /\ Parses(s)
  /\ Count(s, "thread") = 1 /\ Count(s, "anonymous") = 0
  /\ Count(s, "turn") = 1 /\ Count(s, "completed") = 1
  /\ Count(s, "message") = 1 /\ Count(s, "unapproved") = 0

\* What the parent makes of the output of the command-line child.
SubscriptionOutcome(s) ==
  IF "skill" \in drift \/ cut # "none"
  THEN Seen(IF ~SeenTurn(s) THEN "effect_unknown"
            ELSE IF cut # "none" THEN "cancel_unconfirmed" ELSE "failed", s)
  ELSE IF ~LifecycleExact(s) \/ child.code # 0
  THEN Seen(IF SeenTurn(s) THEN "failed" ELSE "effect_unknown", s)
  ELSE Seen(IF SealedDefault /\ "source" \in drift THEN "failed" ELSE "succeeded", s)

\* The worker's protocol: launch intent, then the identities of the turn.
Launched(s) == Count(Prefix(s), "launched") = 1
Intent(s) == Count(Prefix(s), "intent") = 1
WorkerIdentity(effect, s) ==
  IF Launched(s) THEN Outcome(effect, ThreadIdentity, ThreadIdentity, TRUE)
  ELSE Outcome(effect, None, None, Intent(s))

\* One failure event and no result: launched if it, or an earlier event, says so.
WorkerFailure(s) ==
  LET after == Count(Prefix(s), "failure_after") = 1 \/ Intent(s) \/ Launched(s)
  IN IF after THEN [WorkerIdentity("effect_unknown", s) EXCEPT !.launched = TRUE] ELSE NotLaunched

WorkerExact(s) ==
  /\ Parses(s) /\ child.code = 0
  /\ Count(s, "ready") = 1 /\ Intent(s) /\ Launched(s) /\ Count(s, "result") = 1

ApiOutcome(s) ==
  LET failures == Count(Prefix(s), "failure_before") + Count(Prefix(s), "failure_after")
  IN IF cut # "none"
     THEN WorkerIdentity(IF Launched(s) THEN "cancel_unconfirmed" ELSE "effect_unknown", s)
     ELSE IF failures = 1 /\ Count(Prefix(s), "result") = 0 THEN WorkerFailure(s)
     ELSE IF ~WorkerExact(s) THEN WorkerIdentity("effect_unknown", s)
     ELSE WorkerIdentity("succeeded", s)

----------------------------------------------------------------------------
(* The parent.                                                             *)

At(pc) == parent = pc
Answers(a) == answer' = a /\ parent' = "done"

\* execute is asked for.
Execute ==
  /\ parent \in {"idle", "done"}
  /\ calls > 0
  /\ calls' = calls - 1
  /\ parent' = "preflight"
  /\ cut' = "none" /\ captured' = <<>> /\ answer' = NoAnswer
  /\ child' = NoChild /\ pipe' = <<>>
  /\ ~Running
  /\ UNCHANGED <<config, world, dirs, provider, crashes>>

\* Auth mode and policy; for the API the credential and the worker's command.
Preflight ==
  /\ At("preflight")
  /\ \/ parent' = (IF kind = "api" THEN "attempt" ELSE "snapshot") /\ UNCHANGED answer
     \/ Answers(NotLaunched)
  /\ UNCHANGED <<config, world, dirs, cut, captured, child, pipe, provider, calls, crashes>>

\* Every skill the command line could discover, the role's own skill and the
\* source files are bound as they are now; bounds and bindings may refuse.
SkillSnapshot ==
  /\ At("snapshot")
  /\ drift' = {}
  /\ \/ parent' = "attempt" /\ UNCHANGED answer
     \/ Answers(NotLaunched)
  /\ UNCHANGED <<config, root, dirs, cut, captured, child, pipe, provider, calls, crashes>>

Prepare == IF kind = "api" THEN "spawn" ELSE "context"

\* mutant: an attempt directory that exists is used again.
Mut_CreateAttempt ==
  /\ At("attempt")
  /\ IF ~CanBegin THEN Answers(NotLaunched) /\ UNCHANGED <<root, attempt>>
     ELSE BeginRoot /\ attempt' = TRUE /\ parent' = Prepare /\ UNCHANGED answer
  /\ UNCHANGED <<config, drift, isolated, cut, captured, child, pipe, provider, calls, crashes>>

\* The capability is consumed, and the attempt directory must be new.
CreateAttempt ==
  /\ At("attempt")
  /\ IF ~CanBegin THEN Answers(NotLaunched) /\ UNCHANGED <<root, attempt>>
     ELSE /\ BeginRoot
          /\ IF attempt THEN Answers(NotLaunched) /\ UNCHANGED attempt
             ELSE attempt' = TRUE /\ parent' = Prepare /\ UNCHANGED answer
  /\ UNCHANGED <<config, drift, isolated, cut, captured, child, pipe, provider, calls, crashes>>

\* The directories the command line runs in are outside the attempt and must
\* be new as well; errors of the file system are refusals.
ProcessContext ==
  /\ At("context")
  /\ \/ ~isolated /\ isolated' = TRUE /\ parent' = "stage" /\ UNCHANGED answer
     \/ isolated' \in {isolated, TRUE} /\ Answers(NotLaunched)
  /\ UNCHANGED <<config, world, attempt, cut, captured, child, pipe, provider, calls, crashes>>

\* The selected skill is copied from the file the snapshot describes, and the
\* output schema is written: this write and the capability's check are not
\* classified when they fail.
StageSkillSnapshot ==
  /\ At("stage")
  /\ \/ "skill" \notin drift /\ Verified /\ parent' = "probe" /\ UNCHANGED answer
     \/ Answers(NotLaunched)
     \/ Answers(Raised)
  /\ UNCHANGED <<config, world, dirs, cut, captured, child, pipe, provider, calls, crashes>>

\* codex login status must name the saved login, with a timeout.
ProbeAuth ==
  /\ At("probe")
  /\ \/ parent' = "catalog" /\ UNCHANGED answer
     \/ Answers(NotLaunched)
  /\ UNCHANGED <<config, world, dirs, cut, captured, child, pipe, provider, calls, crashes>>

\* The catalog the command line would show must offer the staged skill and no
\* other; then every skill is compared with its snapshot once more.
ProbeSkillCatalog ==
  /\ At("catalog")
  /\ \/ "skill" \notin drift /\ parent' = "spawn" /\ UNCHANGED answer
     \/ Answers(NotLaunched)
  /\ UNCHANGED <<config, world, dirs, cut, captured, child, pipe, provider, calls, crashes>>

Spawn ==
  /\ At("spawn")
  /\ \/ Verified /\ child' = [NoChild EXCEPT !.state = "running"]
                 /\ parent' = (IF kind = "api" THEN "measure" ELSE "feed")
                 /\ UNCHANGED answer
     \/ Answers(NotLaunched) /\ UNCHANGED child
  /\ UNCHANGED <<config, world, dirs, cut, captured, pipe, provider, calls, crashes>>

\* terminate, then kill, each with a bounded wait; errors are swallowed.
Terminated(c) == {[c EXCEPT !.state = "killed", !.code = 1], c}

\* The API transport measures the request before it writes it; nothing was sent
\* to the child of a request that is refused.
MeasureInput ==
  /\ At("measure")
  /\ \/ parent' = "feed" /\ UNCHANGED <<child, answer>>
     \/ child' \in Terminated(child) /\ Answers(NotLaunched)
  /\ UNCHANGED <<config, world, dirs, cut, captured, pipe, provider, calls, crashes>>

\* The write returns once the child has read the request or has ended ...
FeedRequest ==
  /\ At("feed")
  /\ child.input = "whole" \/ ~Running
  /\ parent' = "wait"
  /\ UNCHANGED <<config, world, dirs, cut, captured, answer, child, pipe, provider, calls, crashes>>

\* ... or fails after any part of it was taken.
FeedFails ==
  /\ At("feed")
  /\ child' \in Terminated(child)
  /\ Answers(Unknown(FALSE))
  /\ UNCHANGED <<config, world, dirs, cut, captured, pipe, provider, calls, crashes>>

\* The wait loop: the child has ended ...
ChildEnded ==
  /\ At("wait")
  /\ ~Running
  /\ parent' = "collect"
  /\ UNCHANGED <<config, world, dirs, cut, captured, answer, child, pipe, provider, calls, crashes>>

\* ... or a reader's cap is exceeded, or the deadline has passed: it is stopped.
CutOff ==
  /\ At("wait")
  /\ Running
  /\ \/ cut' = "timeout"
     \/ pipe # <<>> /\ cut' = "overflow"
  /\ child' \in Terminated(child)
  /\ parent' = "collect"
  /\ UNCHANGED <<config, world, dirs, captured, answer, pipe, provider, calls, crashes>>

\* The readers are joined with a timeout: what they have read is a prefix of
\* what was written.  The scratch directory is verified before it is used.
Collect ==
  /\ At("collect")
  /\ \E n \in 0..Len(pipe) : captured' = SubSeq(pipe, 1, n)
  /\ pipe' = <<>>
  /\ \/ Verified /\ parent' = "classify" /\ UNCHANGED answer
     \/ ~Verified /\ Answers(Unknown(TRUE))
     \/ kind = "subscription" /\ Answers(Raised)
  /\ UNCHANGED <<config, world, dirs, cut, child, provider, calls, crashes>>

ClassifySubscription ==
  /\ At("classify") /\ kind = "subscription"
  /\ LET o == SubscriptionOutcome(captured)
     IN IF o.effect = "succeeded" THEN parent' = "finish" /\ answer' = o ELSE Answers(o)
  /\ UNCHANGED <<config, world, dirs, cut, captured, child, pipe, provider, calls, crashes>>

ClassifyApi ==
  /\ At("classify") /\ kind = "api"
  /\ LET o == ApiOutcome(captured)
     IN IF o.effect = "succeeded" THEN parent' = "finish" /\ answer' = o ELSE Answers(o)
  /\ UNCHANGED <<config, world, dirs, cut, captured, child, pipe, provider, calls, crashes>>

\* A success closes the capability, whose directory must still be the same.
FinishCapability ==
  /\ At("finish")
  /\ IF Verified THEN FinishRoot /\ parent' = "attest" /\ UNCHANGED answer
     ELSE Answers(Unknown(FALSE)) /\ UNCHANGED root
  /\ UNCHANGED <<config, drift, dirs, cut, captured, child, pipe, provider, calls, crashes>>

\* The controller accepts the evidence only of the sealed transport, over the
\* source files as they are now; anything else is an unclassified exception.
ValidatedSealedLiveExecution ==
  /\ At("attest")
  /\ Answers(IF SealedDefault /\ "source" \in drift THEN Unknown(FALSE) ELSE answer)
  /\ UNCHANGED <<config, world, dirs, cut, captured, child, pipe, provider, calls, crashes>>

\* The parent dies; the child lives on.  A new process finds the attempt
\* directory and must create a capability of its own, which it cannot: the
\* scratch directory of the first is there.
Crash ==
  /\ parent \notin {"idle", "done"}
  /\ crashes < MaxCrashes
  /\ crashes' = crashes + 1
  /\ parent' = "idle"
  /\ answer' = NoAnswer /\ pipe' = <<>>
  /\ UNCHANGED <<config, world, dirs, cut, captured, child, provider, calls>>

----------------------------------------------------------------------------
(* The child.                                                              *)

\* What it writes once nobody reads the pipe is lost.
Emit(e) ==
  IF parent \in {"idle", "classify", "finish", "attest", "done"} THEN pipe' = <<>>
  ELSE Len(pipe) < MaxEvents /\ pipe' = Append(pipe, e)
ChildOnly == UNCHANGED <<config, world, dirs, parent, cut, captured, answer, calls, crashes>>
Exit(code) == child' = [child EXCEPT !.state = "exited", !.code = code]
ChildAt(k, pc) == Running /\ kind = k /\ child.pc = pc
ChildGoto(pc) == child' = [child EXCEPT !.pc = pc]

\* It reads its standard input, whole, or cut short by the death of the parent.
ReadInput ==
  /\ Running /\ child.input = "none"
  /\ \/ parent = "feed" /\ child' = [child EXCEPT !.input = "whole"]
     \/ parent \in {"idle", "done"} /\ child' = [child EXCEPT !.input = "partial"]
  /\ ChildOnly /\ UNCHANGED <<pipe, provider>>

\* The command line opens a thread; its event may lack the identity.
CliThread ==
  /\ ChildAt("subscription", "boot") /\ child.input # "none"
  /\ Emit("thread") \/ Emit("anonymous")
  /\ ChildGoto("turn")
  /\ ChildOnly /\ UNCHANGED provider

\* It transmits the turn and says that it started, in either order.
CliSend ==
  /\ ChildAt("subscription", "turn") \/ ChildAt("subscription", "said")
  /\ sent' = sent + 1
  /\ ChildGoto(IF child.pc = "said" THEN "stream" ELSE "transmitted")
  /\ ChildOnly /\ UNCHANGED <<pipe, completed>>
CliTurnStarted ==
  /\ ChildAt("subscription", "turn") \/ ChildAt("subscription", "transmitted")
  /\ Emit("turn")
  /\ ChildGoto(IF child.pc = "transmitted" THEN "stream" ELSE "said")
  /\ ChildOnly /\ UNCHANGED provider

\* It relays items, and the completion of the turn.
CliItem ==
  /\ ChildAt("subscription", "stream")
  /\ \E e \in {"message", "unapproved"} : Emit(e)
  /\ ChildOnly /\ UNCHANGED <<child, provider>>
CliCompleted ==
  /\ ChildAt("subscription", "stream")
  /\ completed' = TRUE
  /\ Emit("completed")
  /\ ChildGoto("over")
  /\ ChildOnly /\ UNCHANGED sent

\* It ends, with success only when the turn is over, or writes what does not parse.
CliExit ==
  /\ Running /\ kind = "subscription"
  /\ \E code \in {0, 1} : (code = 0 => child.pc = "over") /\ Exit(code)
  /\ ChildOnly /\ UNCHANGED <<pipe, provider>>
ChildJunk ==
  /\ Running /\ child.input # "none"
  /\ Count(pipe, "junk") = 0
  /\ Emit("junk")
  /\ ChildOnly /\ UNCHANGED <<child, provider>>

\* The worker: a request that does not parse ends it without an event, a
\* checkout that is not the pinned one with a failure event.
WorkerMain ==
  /\ ChildAt("api", "boot") /\ child.input # "none"
  /\ \/ child.input = "partial" /\ Exit(1) /\ UNCHANGED pipe
     \/ child.input = "whole" /\ Emit("failure_before") /\ Exit(1)
     \/ child.input = "whole" /\ ChildGoto("connect") /\ UNCHANGED pipe
  /\ ChildOnly /\ UNCHANGED provider

\* The key, the runtime's configuration and the identity of its server.
WorkerReady ==
  /\ ChildAt("api", "connect")
  /\ \/ Emit("failure_before") /\ Exit(1)
     \/ Emit("ready") /\ ChildGoto("thread")
  /\ ChildOnly /\ UNCHANGED provider

\* The thread is started and the intent to launch is written before the turn.
WorkerIntent ==
  /\ ChildAt("api", "thread")
  /\ \/ Emit("intent") /\ ChildGoto("turn")
     \/ Emit("failure_before") /\ Exit(1)
  /\ ChildOnly /\ UNCHANGED provider

\* The turn is transmitted; any exception from here on is after a launch.
WorkerTurn ==
  /\ ChildAt("api", "turn")
  /\ \/ sent' = sent + 1 /\ ChildGoto("launched") /\ UNCHANGED pipe
     \/ sent' \in {sent, sent + 1} /\ Emit("failure_after") /\ Exit(1)
  /\ ChildOnly /\ UNCHANGED completed
WorkerLaunched ==
  /\ ChildAt("api", "launched")
  /\ Emit("launched") /\ ChildGoto("stream")
  /\ ChildOnly /\ UNCHANGED provider

\* The stream ends: a result, an interruption or an exception.
WorkerEnd ==
  /\ ChildAt("api", "stream")
  /\ \/ completed' = TRUE /\ Emit("result") /\ Exit(0)
     \/ completed' \in {completed, TRUE} /\ Emit("failure_after") /\ Exit(1)
  /\ ChildOnly /\ UNCHANGED sent

\* The worker is killed by something else.
WorkerDies ==
  /\ Running /\ kind = "api"
  /\ Exit(1)
  /\ ChildOnly /\ UNCHANGED <<pipe, provider>>

----------------------------------------------------------------------------
(* The environment: a directory of the scratch path is replaced, a skill    *)
(* or a source file is edited.                                              *)

ReplaceRoot ==
  /\ guarded /\ root.same /\ parent \notin {"idle", "done"}
  /\ root' = [root EXCEPT !.same = FALSE]
  /\ UNCHANGED <<config, dirs, drift, parent, cut, captured, answer, child, pipe, provider, calls, crashes>>
EditFile ==
  \E f \in {"skill", "source"} \ drift :
    /\ kind = "subscription" /\ parent \notin {"idle", "preflight", "snapshot", "done"}
    /\ drift' = drift \cup {f}
    /\ UNCHANGED <<config, dirs, root, parent, cut, captured, answer, child, pipe, provider, calls, crashes>>

Init ==
  /\ kind \in {"subscription", "api"}
  /\ guarded \in BOOLEAN
  /\ root = [state |-> "prepared", same |-> TRUE]
  /\ attempt = FALSE /\ isolated = FALSE /\ drift = {}
  /\ parent = "idle" /\ cut = "none" /\ captured = <<>> /\ answer = NoAnswer
  /\ child = NoChild /\ pipe = <<>>
  /\ sent = 0 /\ completed = FALSE
  /\ calls = 2 /\ crashes = 0

Parent ==
  \/ Preflight \/ SkillSnapshot \/ CreateAttempt \/ ProcessContext \/ StageSkillSnapshot
  \/ ProbeAuth \/ ProbeSkillCatalog \/ Spawn \/ MeasureInput \/ FeedRequest \/ FeedFails
  \/ ChildEnded \/ CutOff \/ Collect \/ ClassifySubscription \/ ClassifyApi \/ FinishCapability
  \/ ValidatedSealedLiveExecution
Cli == CliThread \/ CliSend \/ CliTurnStarted \/ CliItem \/ CliCompleted \/ CliExit
Worker == WorkerMain \/ WorkerReady \/ WorkerIntent \/ WorkerTurn \/ WorkerLaunched \/ WorkerEnd \/ WorkerDies
Environment == Execute \/ Crash \/ ReplaceRoot \/ EditFile

Next == Parent \/ ReadInput \/ Cli \/ Worker \/ ChildJunk \/ Environment

Spec == Init /\ [][Next]_vars /\ WF_vars(Parent) /\ WF_vars(ReadInput)

----------------------------------------------------------------------------
\* An execution that is answered "not launched" transmits no turn, then or
\* later, although its child may still be alive (after a failed kill); across
\* repetitions after a crash no second turn is ever transmitted: the attempt
\* directory and the capability are consumed before the child is spawned.
SentAtMostOnce ==
  /\ sent <= 1
  /\ answer.effect = "not_launched" /\ child.state # "none" => sent = 0

\* A success is the turn's: it was transmitted, the provider completed it, the
\* child ended by itself, and the identities are those of its thread.
SuccessIsTheTurn ==
  answer.effect = "succeeded" =>
    /\ sent = 1 /\ completed
    /\ child.state = "exited" /\ child.code = 0
    /\ answer.thread = ThreadIdentity /\ answer.turn = ThreadIdentity

\* A failure that does not leave the effect in doubt is told only of a child
\* that has ended; a child that was stopped by the parent is told as doubt.
DoubtIsNotHidden ==
  /\ answer.effect = "failed" => child.state = "exited"
  /\ cut # "none" => answer.effect \notin {"failed", "not_launched"}

\* Every answer can be recorded: the audit model accepts it.  The exception is a
\* turn that starts under a thread without an identity, which is classified as
\* failed and which audit_state_is_closed refuses.
AnswersAreAuditable ==
  (parent = "done" /\ answer # Raised /\ Count(captured, "anonymous") = 0) =>
    answer \in TransportAnswers({ThreadIdentity}) /\ AuditStateIsClosed(answer)

\* Once asked for, an execution is answered (or its process dies): the wait is
\* bounded by the deadline, the joins and the kills by their timeouts.  The
\* write of the request is bounded by neither: the child must read it or end.
ExecuteReturns == [](parent = "preflight" => <>(parent \in {"idle", "done"}))
=============================================================================
