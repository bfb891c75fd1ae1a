---------------------------- MODULE Replication -----------------------------
(***************************************************************************)
(* src/src/maintenance_replication_runner.rs and                           *)
(* src/src/maintenance_replication.rs: a host runs the maintenance process *)
(* of MaintenanceProcess through a fixed list of scenarios, each on a copy *)
(* of the checkout, signs a report, and two reports make a packet.         *)
(*                                                                         *)
(* An arm of run_scenario is a sequence of commands.  The process runs     *)
(* beside the runner: a failpoint makes it stop or wait at a place, and a  *)
(* wait may end before the runner has done what it was meant to do.        *)
(*                                                                         *)
(* Time starts again with every scenario, which lets the frozen lease end  *)
(* in any of them.  An error of the runner's own files ends a host's run   *)
(* like any other error and is left out.                                   *)
(***************************************************************************)
EXTENDS MaintenanceProcess, FiniteSets

CONSTANTS
    Specs,       \* RunnerSpecs
    Frozen,      \* the frozen request, and what a scenario makes of it:
    Stale,       \* with another checkout_baseline_digest
    Expired,     \* with a lease that has ended
    Short,       \* with a lease of two seconds
    MaxSlips,    \* bound on waits that end early, failing evaluators, kills
    MaxReports

Winner == "state"          \* the state directory of a case
Contender == "state-two"

ASSUME ReplicationConstants ==
    /\ {Frozen, Stale, Expired, Short} \subseteq Requests
    /\ {Winner, Contender} \subseteq Dirs
    /\ Lease[Expired] = 0
    /\ {MaxSlips, MaxReports} \subseteq Nat

VARIABLES
    host,          \* run_host: where it is, its RunnerSpec and the results so far
    case,          \* the scenario in progress
    operatorLock,  \* a lock file that is not the process's own
    slips,
    reports,       \* signed reports
    packets

runner == <<host, case, operatorLock, slips, reports, packets>>
replicationVars == <<vars, runner>>

-----------------------------------------------------------------------------
(* The scenarios: what the runner does in each.                            *)

Cmd(do, arg) == [do |-> do, arg |-> arg]
Invoke == Cmd("invoke", "none")
InvokeWith(failpoint) == Cmd("invoke", failpoint)
Spawn(failpoint) == Cmd("spawn", failpoint)
Expect(status) == Cmd("expect", status)
Do(what) == Cmd(what, "none")

AuthorizedCompletion == <<Invoke, Do("measure")>>

ReplayAfterCompletion ==
    <<Invoke, Expect("Applied"), Do("initial"), Do("forget"),
      Invoke, Expect("Quarantined"), Do("measure")>>

StaleBaseline == <<Cmd("request", Stale), Invoke, Do("measure")>>

PreAdmissionExpiry == <<Cmd("request", Expired), Invoke, Do("measure")>>

PreAdmissionCancellation == <<Do("cancel"), Invoke, Do("measure")>>

RequirementSubstitution == <<Cmd("input", "substituted"), Invoke, Do("measure")>>

PathEscape == <<Cmd("input", "escaping"), Invoke, Do("measure")>>

(* A link cannot be digested: the baseline is recorded without measuring.  *)
LinkEscape == <<Cmd("input", "linked"), Invoke, Do("baseline")>>

EvaluationExpiry ==
    <<Cmd("request", Short), InvokeWith("pause-during-evaluation"), Do("measure")>>

PreFinalizationCancellation == <<InvokeWith("cancel-after-replacement"), Do("measure")>>

PreFinalizationExpiry == <<InvokeWith("expire-before-finalization"), Do("measure")>>

CrashAfter(failpoint) ==
    <<InvokeWith(failpoint), Expect("Error"), Do("remove lock"), Invoke, Do("measure")>>

ConcurrentTargetChange ==
    <<Spawn("pause-before-finalization"), Do("wait for bytes"), Do("write target"),
      Do("join"), Do("measure")>>

PersistenceFailure ==
    <<Spawn("pause-before-finalization"), Do("wait for bytes"), Do("chmod 500"),
      Do("join"), Do("chmod 700"), Expect("Error"), Invoke, Do("measure")>>

NeighborChange ==
    <<InvokeWith("after-durable-intent"), Expect("Error"), Do("remove lock"),
      Do("write neighbour"), Invoke, Do("measure")>>

OccupiedLock == <<Do("write lock"), Invoke, Do("remove operator lock"), Do("measure")>>

ReplacementLock ==
    <<Spawn("hold-checkout-lock"), Do("wait for lock"), Do("replace lock"), Do("join"),
      Do("read operator lock"), Do("remove operator lock"), Do("measure")>>

Contention ==
    <<Spawn("hold-checkout-lock"), Do("wait for lock"), Do("contend"),
      Do("measure contender"), Do("join"), Do("measure")>>

ConfigRedirect ==
    <<InvokeWith("after-durable-intent"), Expect("Error"), Do("remove lock"),
      Do("forget"), Do("copy checkout"), Do("initial alternate"),
      Cmd("input", "redirected"), Invoke, Do("measure alternate")>>

(* REQUIRED_SCENARIOS, in their order.                                     *)
Required ==
    <<"authorized-completion", "replay-after-completion", "invalid-or-stale-baseline",
      "pre-admission-expiry", "pre-admission-cancellation",
      "evaluator-requirement-substitution", "path-escape", "link-escape",
      "evaluation-expiry", "pre-finalization-cancellation", "pre-finalization-expiry",
      "crash-after-durable-intent", "crash-after-replacement",
      "concurrent-target-change", "completion-state-persistence-failure",
      "neighbor-change-recovery", "occupied-lock",
      "cross-state-directory-lock-contention", "replacement-lock-ownership",
      "recovery-config-redirect">>

Script ==
  [s \in {Required[i] : i \in DOMAIN Required} |->
    CASE s = "authorized-completion" -> AuthorizedCompletion
      [] s = "replay-after-completion" -> ReplayAfterCompletion
      [] s = "invalid-or-stale-baseline" -> StaleBaseline
      [] s = "pre-admission-expiry" -> PreAdmissionExpiry
      [] s = "pre-admission-cancellation" -> PreAdmissionCancellation
      [] s = "evaluator-requirement-substitution" -> RequirementSubstitution
      [] s = "path-escape" -> PathEscape
      [] s = "link-escape" -> LinkEscape
      [] s = "evaluation-expiry" -> EvaluationExpiry
      [] s = "pre-finalization-cancellation" -> PreFinalizationCancellation
      [] s = "pre-finalization-expiry" -> PreFinalizationExpiry
      [] s = "crash-after-durable-intent" -> CrashAfter("after-durable-intent")
      [] s = "crash-after-replacement" -> CrashAfter("after-replacement")
      [] s = "concurrent-target-change" -> ConcurrentTargetChange
      [] s = "completion-state-persistence-failure" -> PersistenceFailure
      [] s = "neighbor-change-recovery" -> NeighborChange
      [] s = "occupied-lock" -> OccupiedLock
      [] s = "cross-state-directory-lock-contention" -> Contention
      [] s = "replacement-lock-ownership" -> ReplacementLock
      [] s = "recovery-config-redirect" -> ConfigRedirect]

-----------------------------------------------------------------------------
(* What a scenario should show: expected of the runner, and the table that *)
(* the validation of a report keeps for itself.  Both are Options.         *)

Shows(status, recovery_status, recovery) ==
    {[status |-> status, recovery_status |-> recovery_status, recovery |-> recovery]}

Expected(s, role) ==
    CASE s \in {"authorized-completion", "replacement-lock-ownership"} ->
            Shows("Applied", {}, "AuthorizedChangeCommitted")
      [] s = "replay-after-completion" -> Shows("Quarantined", {}, "AlreadyAppliedPreserved")
      [] s \in {"invalid-or-stale-baseline", "pre-admission-expiry",
                "pre-admission-cancellation", "evaluator-requirement-substitution",
                "path-escape", "evaluation-expiry"} ->
            Shows("Quarantined", {}, "NoMutation")
      [] s \in {"link-escape", "occupied-lock"} -> Shows("ProcessError", {}, "NoMutation")
      [] s \in {"pre-finalization-cancellation", "pre-finalization-expiry"} ->
            Shows("RolledBack", {}, "BaselineRestored")
      [] s \in {"crash-after-durable-intent", "crash-after-replacement",
                "completion-state-persistence-failure"} ->
            Shows("ProcessError", {"Frozen"}, "BaselineRestored")
      [] s \in {"concurrent-target-change", "neighbor-change-recovery"} ->
            Shows("Frozen", {}, "ExternalChangePreservedAndFrozen")
      [] s = "cross-state-directory-lock-contention" ->
            IF role = "Winner" THEN Shows("Applied", {}, "AuthorizedChangeCommitted")
            ELSE IF role = "Contender" THEN Shows("Blocked", {}, "NoMutation") ELSE {}
      [] s = "recovery-config-redirect" ->
            Shows("ProcessError", {}, "AlternateCheckoutPreserved")

Replayed == "replay-after-completion"

QuarantinedOnes ==
    {Replayed, "invalid-or-stale-baseline", "pre-admission-expiry",
     "pre-admission-cancellation", "evaluator-requirement-substitution",
     "path-escape", "evaluation-expiry"}

ExpectedScenario(s, role) ==
    LET committed == Shows("Applied", {}, "AuthorizedChangeCommitted")
        crashed == Shows("ProcessError", {"Frozen"}, "BaselineRestored")
    IN  CASE s = "authorized-completion" -> committed
          [] s \in QuarantinedOnes ->
                Shows("Quarantined", {},
                      IF s = Replayed THEN "AlreadyAppliedPreserved" ELSE "NoMutation")
          [] s \in {"link-escape", "occupied-lock"} ->
                Shows("ProcessError", {}, "NoMutation")
          [] s \in {"pre-finalization-cancellation", "pre-finalization-expiry"} ->
                Shows("RolledBack", {}, "BaselineRestored")
          [] s \in {"crash-after-durable-intent", "crash-after-replacement",
                    "completion-state-persistence-failure"} -> crashed
          [] s \in {"concurrent-target-change", "neighbor-change-recovery"} ->
                Shows("Frozen", {}, "ExternalChangePreservedAndFrozen")
          [] s = "cross-state-directory-lock-contention" ->
                IF role = "Winner" THEN committed
                ELSE IF role = "Contender" THEN Shows("Blocked", {}, "NoMutation") ELSE {}
          [] s = "replacement-lock-ownership" -> IF role = "Winner" THEN committed ELSE {}
          [] s = "recovery-config-redirect" ->
                Shows("ProcessError", {}, "AlternateCheckoutPreserved")

-----------------------------------------------------------------------------
(* The runner and its case.                                                *)

Digest == [target |-> target, extras |-> extras, neighbour |-> neighbour]
Baseline == [target |-> Original, extras |-> {}, neighbour |-> FALSE]
(* The copy that the configuration is redirected to.                       *)
Alternate == [Baseline EXCEPT !.target = After[Frozen]]

NoCase == [at |-> 0]

Scenario == Required[Len(host.results) + 1]

(* scenario_case and prepare_case.                                         *)
NewCase ==
    [at |-> 1, request |-> Frozen, input |-> "plain", failpoint |-> "none",
     child |-> "none", contending |-> "none", late |-> FALSE, invocations |-> <<>>,
     leftover |-> {}, alternate |-> Baseline,
     initial |-> Baseline, contender |-> Baseline, final |-> Baseline]

Command == Script[Scenario][case.at]
Doing(what) == host.pc = "scenario" /\ case.at \in DOMAIN Script[Scenario] /\ Command.do = what

(* The runner goes on to its next command.                                 *)
Done(c) == case' = [c EXCEPT !.at = @ + 1]
RunnerStep == UNCHANGED <<host, slips, reports, packets>>

(* An error of the runner ends the run of this host.                       *)
Rejects ==
    /\ host' = [host EXCEPT !.pc = "rejected"]
    /\ case' = NoCase
    /\ UNCHANGED <<vars, operatorLock, slips, reports, packets>>

ReplicationInit ==
    /\ Init
    /\ host = [pc |-> "idle", run |-> 0]
    /\ case = NoCase
    /\ operatorLock = FALSE
    /\ slips = 0
    /\ reports = {}
    /\ packets = {}

-----------------------------------------------------------------------------
(* The maintenance process as the runner sees it.                          *)

(* What run answers before MaintenanceProcess takes over, an Option: an    *)
(* invalid configuration, a state file of another checkout or, where there *)
(* is none, another baseline, an occupied lock, a link in the place of the *)
(* file, a path outside the checkout.                                      *)
Refusal ==
    CASE case.input = "substituted" -> {"Quarantined"}
      [] case.input = "redirected" ->
            {IF disk[Winner] # NoState THEN "Error" ELSE "Quarantined"}
      [] lock \/ operatorLock -> {"Error"}
      [] case.input = "escaping" -> {"Quarantined"}
      [] case.input = "linked" -> {IF Closed(case.request) THEN "Quarantined" ELSE "Error"}
      [] OTHER -> {}

Ended(d, child, status) ==
    [case EXCEPT ![child] = "ended", !.invocations = Append(@, <<d, status>>)]

(* spawn_broker.                                                           *)
Launch(d, child) ==
    /\ case[child] = "none"
    /\ \/ /\ \E status \in Refusal : case' = Ended(d, child, status)
          /\ UNCHANGED vars
       \/ /\ Refusal = {}
          /\ \E ok \in BOOLEAN :
                /\ Start(d, case.request, ok)
                /\ case' = IF ok THEN [case EXCEPT ![child] = "running",
                                                   !.failpoint = Command.arg]
                           ELSE Ended(d, child, "Error")
    /\ UNCHANGED <<host, operatorLock, slips, reports, packets>>

Failpoint(name, pc) == case.failpoint = name /\ At(pc) /\ run.dir = Winner

(* A pause lasts until the runner has done its part, or is too late.       *)
Paused ==
    \/ Failpoint("pause-during-evaluation", "evaluate") /\ ~Closed(run.request)
    \/ /\ \/ Failpoint("pause-before-finalization", "final")
          \/ Failpoint("hold-checkout-lock", "admit")
       /\ ~case.late /\ ~Doing("join")

Exits == Failpoint("after-durable-intent", "write") \/ Failpoint("after-replacement", "check")
Cancels == Failpoint("cancel-after-replacement", "check") /\ ~cancelled
Expires == Failpoint("expire-before-finalization", "final")

(* When the run in progress returns, its answer is the invocation's.       *)
Returns(status) ==
    case' = IF run' # Idle THEN case
            ELSE Ended(run.dir, IF run.dir = Winner THEN "child" ELSE "contending", status)

StatusOf(ok) ==
    CASE At("complete") /\ ok -> "Applied"
      [] At("settle") /\ ok -> IF run.recovering THEN "Frozen" ELSE "RolledBack"
      [] At("freeze") /\ ok -> "Frozen"
      [] OTHER -> "Error"

Slip(happens) == (happens => slips < MaxSlips) /\ slips' = IF happens THEN slips + 1 ELSE slips

ProcessStep ==
    /\ host.pc = "scenario"
    /\ ~At("idle") /\ ~Paused /\ ~Exits /\ ~Cancels /\ ~Expires
    /\ \/ /\ Admit \/ Evaluate \/ Check \/ FinalCheck \/ CheckFails \/ Inspect \/ Verify
          /\ UNCHANGED <<case, slips>>
       \/ /\ Quarantine
          /\ Slip(At("evaluate") /\ ~Closed(run.request))
          /\ Returns(IF At("admit") /\ run.state.frozen THEN "Frozen" ELSE "Quarantined")
       \/ /\ \E ok \in BOOLEAN :
                /\ \/ Backup(ok) \/ SaveIntent(ok) \/ WriteCandidate(ok) \/ Replace(ok)
                   \/ Complete(ok) \/ WriteRollback(ok) \/ RenameRollback(ok)
                   \/ Settle(ok) \/ Freeze(ok)
                /\ Returns(StatusOf(ok))
          /\ UNCHANGED slips
    /\ UNCHANGED <<host, operatorLock, reports, packets>>

(* test_failpoint: the process exits, cancels itself or loses its lease.   *)
ReachFailpoint ==
    /\ host.pc = "scenario"
    /\ \/ /\ Exits
          /\ run' = Idle
          /\ UNCHANGED <<lock, cancelled>>
       \/ /\ Cancels
          /\ cancelled' = TRUE
          /\ UNCHANGED <<lock, run>>
       \/ /\ Expires
          /\ Goto("rollback")
          /\ UNCHANGED cancelled
    /\ Returns("Error")
    /\ UNCHANGED <<state, checkout, now, crashes, history, faults>>
    /\ UNCHANGED <<host, operatorLock, slips, reports, packets>>

Killed ==
    /\ host.pc = "scenario"
    /\ Crash
    /\ Slip(TRUE)
    /\ Returns("Error")
    /\ UNCHANGED <<host, operatorLock, reports, packets>>

PauseEnds ==
    /\ host.pc = "scenario"
    /\ Paused /\ ~At("evaluate")
    /\ Slip(TRUE)
    /\ case' = [case EXCEPT !.late = TRUE]
    /\ UNCHANGED <<vars, host, operatorLock, reports, packets>>

TimePasses == host.pc = "scenario" /\ Tick /\ UNCHANGED runner

-----------------------------------------------------------------------------
(* The commands of a scenario.                                             *)

Await(child) == case[child] = "ended" /\ Done([case EXCEPT ![child] = "none"])

InvokeBroker ==
    /\ Doing("invoke")
    /\ \/ Launch(Winner, "child")
       \/ Await("child") /\ UNCHANGED <<vars, operatorLock>> /\ RunnerStep

SpawnBroker ==
    /\ Doing("spawn")
    /\ \/ Launch(Winner, "child")
       \/ case.child # "none" /\ Done(case) /\ UNCHANGED <<vars, operatorLock>> /\ RunnerStep

Contend ==
    /\ Doing("contend")
    /\ \/ Launch(Contender, "contending")
       \/ Await("contending") /\ UNCHANGED <<vars, operatorLock>> /\ RunnerStep

WaitWithOutput ==
    /\ Doing("join")
    /\ Await("child")
    /\ UNCHANGED <<vars, operatorLock>>
    /\ RunnerStep

(* The commands that only change what the runner knows.                    *)
Prepare ==
    /\ \/ Doing("request") /\ Done([case EXCEPT !.request = Command.arg])
       \/ Doing("input") /\ Done([case EXCEPT !.input = Command.arg])
       \/ Doing("copy checkout") /\ Done([case EXCEPT !.alternate = Alternate])
       \/ Doing("forget") /\ Done([case EXCEPT !.invocations = <<>>])
       \/ Doing("initial") /\ Done([case EXCEPT !.initial = Digest])
       \/ Doing("measure") /\ Done([case EXCEPT !.final = Digest])
       \/ Doing("measure contender") /\ Done([case EXCEPT !.contender = Digest])
       \/ Doing("baseline") /\ Done([case EXCEPT !.final = Baseline])
       \/ Doing("initial alternate") /\ Done([case EXCEPT !.initial = case.alternate])
       \/ Doing("measure alternate") /\ Done([case EXCEPT !.final = case.alternate])
    /\ UNCHANGED <<vars, operatorLock>>
    /\ RunnerStep

(* wait_for_bytes and wait_for_path, and a look at the last invocation.    *)
Found ==
    CASE Command.do = "wait for bytes" -> target = After[case.request]
      [] Command.do = "wait for lock" -> lock
      [] Command.do \in {"remove lock", "replace lock"} -> lock
      [] Command.do = "read operator lock" -> operatorLock
      [] Command.do = "expect" -> case.invocations[Len(case.invocations)][2] = Command.arg

WaitFor ==
    /\ \E what \in {"wait for bytes", "wait for lock", "expect", "read operator lock"} : Doing(what)
    /\ Found
    /\ Done(case)
    /\ UNCHANGED <<vars, operatorLock>>
    /\ RunnerStep

(* What the runner waits for or wants to remove will not come.             *)
GivesUp ==
    /\ \/ (Doing("wait for bytes") \/ Doing("wait for lock")) /\ case.child = "ended"
       \/ \E what \in {"expect", "remove lock", "replace lock", "read operator lock"} : Doing(what)
    /\ ~Found
    /\ Rejects

(* remove_owned_lock, and the lock of an operator.                         *)
HandleLock ==
    /\ \/ /\ Doing("remove lock") /\ lock
          /\ lock' = FALSE /\ UNCHANGED operatorLock
       \/ /\ Doing("write lock") \/ (Doing("replace lock") /\ lock)
          /\ lock' = FALSE /\ operatorLock' = TRUE
       \/ /\ Doing("remove operator lock")
          /\ operatorLock' = FALSE /\ UNCHANGED lock
    /\ Done(case)
    /\ UNCHANGED <<state, checkout, run, world, history, faults>>
    /\ RunnerStep

(* The runner changes the checkout or the cancellation file.               *)
ChangeFiles ==
    /\ \/ /\ Doing("write target")
          /\ target' = "foreign" /\ UNCHANGED <<neighbour, cancelled>>
       \/ /\ Doing("write neighbour")
          /\ neighbour' = TRUE /\ UNCHANGED <<target, cancelled>>
       \/ /\ Doing("cancel")
          /\ cancelled' = TRUE /\ UNCHANGED <<target, neighbour>>
    /\ raced' = (raced \/ Unlooked)
    /\ Done(case)
    /\ UNCHANGED <<state, extras, lock, run, now, crashes, answered, replaced, faults>>
    /\ UNCHANGED operatorLock
    /\ RunnerStep

(* chmod_state: every save of a directory that is read-only fails, as with *)
(* a leftover temporary file.                                              *)
ChmodState ==
    /\ \/ Doing("chmod 500") /\ pending' = pending \cup {Winner}
          /\ Done([case EXCEPT !.leftover = pending])
       \/ Doing("chmod 700") /\ pending' = case.leftover /\ Done(case)
    /\ UNCHANGED <<disk, backups, checkout, lock, run, world, history, faults, operatorLock>>
    /\ RunnerStep

-----------------------------------------------------------------------------
(* Results, reports and packets.                                           *)

Matches(status, answer) ==
    answer = IF status \in {"ProcessError", "Blocked"} THEN "Error" ELSE status

RoleOf(s) ==
    CASE s = "cross-state-directory-lock-contention" -> host.spec.role
      [] s = "replacement-lock-ownership" -> "Winner"
      [] OTHER -> "Primary"

(* The invocations in the order of the result: its own comes first.        *)
Selected(role) ==
    LET own == IF role = "Contender" THEN Contender ELSE Winner
        of(d) == SelectSeq(case.invocations, LAMBDA i : i[1] = d)
    IN  of(own) \o of(IF own = Winner THEN Contender ELSE Winner)

(* Mutant: the answer of the first invocation is the scenario's.           *)
FirstAnswer(expected, answers) == answers[1]

TerminalAnswer(expected, answers) ==
    IF expected.status = "Frozen" THEN answers[Len(answers)] ELSE answers[1]

Confirmed(expected, invocations) ==
    LET answers == [i \in DOMAIN invocations |-> invocations[i][2]]
    IN  /\ answers # <<>>
        /\ Matches(expected.status, TerminalAnswer(expected, answers))
        /\ \A r \in expected.recovery_status : Len(answers) > 1 /\ answers[2] = r

MakeCaseResult ==
    /\ host.pc = "scenario"
    /\ case.at \notin DOMAIN Script[Scenario]
    /\ LET role == RoleOf(Scenario)
       IN  \E e \in Expected(Scenario, role) :
              IF Confirmed(e, Selected(role))
              THEN /\ host' = [host EXCEPT !.pc = "between",
                         !.results = Append(@,
                            [scenario |-> Scenario, role |-> role, status |-> e.status,
                             recovery_status |-> e.recovery_status, recovery |-> e.recovery,
                             initial |-> case.initial,
                             final |-> IF role = "Contender" THEN case.contender
                                       ELSE case.final])]
                   /\ case' = NoCase
                   /\ UNCHANGED <<vars, operatorLock, slips, reports, packets>>
              ELSE Rejects

(* A scenario has a checkout, a state directory and a lock of its own.     *)
BeginScenario ==
    /\ host.pc = "between"
    /\ Len(host.results) < Len(Required)
    /\ host' = [host EXCEPT !.pc = "scenario"]
    /\ case' = NewCase
    /\ disk' = [d \in Dirs |-> NoState] /\ pending' = {} /\ backups' = {}
    /\ target' = Original /\ extras' = {} /\ neighbour' = FALSE
    /\ lock' = FALSE /\ run' = Idle /\ cancelled' = FALSE /\ now' = 0
    /\ answered' = {} /\ replaced' = <<>> /\ raced' = FALSE
    /\ operatorLock' = FALSE
    /\ UNCHANGED <<faults, crashes, slips, reports, packets>>

(* validate_frozen_bundle, and the baseline that run_host compares.        *)
ValidFrozenBundle == Frozen \in Normalized /\ Lease[Frozen] > 0

ValidSpec(spec) ==
    /\ spec.host # spec.operator
    /\ spec.role \in {"Winner", "Contender"}
    /\ ValidFrozenBundle

RunHost(spec) ==
    /\ host.pc \in {"idle", "rejected"}
    /\ host.run < MaxReports
    /\ ValidSpec(spec)
    /\ Before[Frozen] = Original
    /\ Cardinality({spec.host_key, spec.operator_key, spec.evaluator_key}) = 3
    /\ host' = [pc |-> "between", run |-> host.run + 1, spec |-> spec, results |-> <<>>]
    /\ UNCHANGED <<vars, case, operatorLock, slips, reports, packets>>

(* Mutant: the digest at the end is not compared with the baseline.        *)
StartsAtBaseline(r) ==
    r.recovery \in {"NoMutation", "BaselineRestored"} => r.initial = Baseline

(* What the digests of a result must be for its disposition.               *)
StateIsConsistent(r) ==
    CASE r.recovery \in {"AuthorizedChangeCommitted", "ExternalChangePreservedAndFrozen"} ->
            r.initial = Baseline /\ r.final # Baseline
      [] r.recovery \in {"NoMutation", "BaselineRestored"} ->
            r.initial = Baseline /\ r.final = Baseline
      [] r.recovery \in {"AlreadyAppliedPreserved", "AlternateCheckoutPreserved"} ->
            r.initial # Baseline /\ r.final = r.initial

ValidResult(r) ==
    /\ [status |-> r.status, recovery_status |-> r.recovery_status,
        recovery |-> r.recovery] \in ExpectedScenario(r.scenario, r.role)
    /\ StateIsConsistent(r)

ValidReport(report) ==
    /\ report.host # report.operator
    /\ report.host_key # report.operator_key
    /\ Len(report.scenarios) = Len(Required)
    /\ \A i \in DOMAIN Required :
          /\ report.scenarios[i].scenario = Required[i]
          /\ ValidResult(report.scenarios[i])

(* The end of run_host: sign_with_seeds validates what it has signed.      *)
SignReport ==
    /\ host.pc = "between"
    /\ Len(host.results) = Len(Required)
    /\ LET spec == host.spec
           report == [run |-> host.run, host |-> spec.host, operator |-> spec.operator,
                      host_key |-> spec.host_key, operator_key |-> spec.operator_key,
                      revision |-> spec.revision, request |-> Frozen,
                      scenarios |-> host.results]
       IN  IF ValidReport(report)
           THEN /\ reports' = reports \cup {report}
                /\ host' = [pc |-> "idle", run |-> host.run]
                /\ UNCHANGED <<vars, case, operatorLock, slips, packets>>
           ELSE Rejects

ScenarioRole(report, s) ==
    LET i == CHOOSE i \in DOMAIN report.scenarios : report.scenarios[i].scenario = s
    IN  report.scenarios[i].role

Independent(a, b) ==
    /\ a.host # b.host
    /\ a.operator # b.operator
    /\ Cardinality({a.host_key, a.operator_key, b.host_key, b.operator_key}) = 4

ValidPacket(a, b) ==
    /\ ValidFrozenBundle
    /\ ValidReport(a) /\ ValidReport(b)
    /\ Independent(a, b)
    /\ a.revision = b.revision /\ a.request = Frozen /\ b.request = Frozen
    /\ {ScenarioRole(r, "cross-state-directory-lock-contention") : r \in {a, b}}
          = {"Winner", "Contender"}

(* assemble_packet and ReplicationPacket::from_bundle.                     *)
AssemblePacket(a, b) ==
    /\ ValidPacket(a, b)
    /\ packets' = packets \cup {{a, b}}
    /\ UNCHANGED <<vars, host, case, operatorLock, slips, reports>>

-----------------------------------------------------------------------------

ReplicationNext ==
    \/ \E spec \in Specs : RunHost(spec)
    \/ BeginScenario \/ MakeCaseResult \/ SignReport
    \/ InvokeBroker \/ SpawnBroker \/ Contend \/ WaitWithOutput
    \/ Prepare \/ WaitFor \/ GivesUp \/ HandleLock \/ ChangeFiles \/ ChmodState
    \/ ProcessStep \/ ReachFailpoint \/ Killed \/ PauseEnds \/ TimePasses
    \/ \E a, b \in reports : AssemblePacket(a, b)

ReplicationSpec == ReplicationInit /\ [][ReplicationNext]_replicationVars

-----------------------------------------------------------------------------
(* Properties.                                                             *)

Truth(r) ==
    LET own == IF r.role = "Contender" THEN Contender ELSE Winner
        times == Cardinality({i \in DOMAIN replaced : replaced[i][1] = own})
        intent == disk[Winner].in_flight
    IN  CASE r.recovery = "AuthorizedChangeCommitted" ->
                target = After[Frozen] /\ times = 1 /\ intent = {}
          [] r.recovery = "AlreadyAppliedPreserved" ->
                target = After[Frozen] /\ times = 1 /\ intent = {}
          [] r.recovery = "NoMutation" ->
                times = 0 \/ (r.role = "Contender" /\ times = 1 /\ <<Contender, Frozen>> \in backups)
          [] r.recovery = "BaselineRestored" ->
                Digest = Baseline /\ (intent # {} \/ r.recovery_status # {} => disk[Winner].frozen)
          [] r.recovery = "ExternalChangePreservedAndFrozen" ->
                (target = "foreign" \/ neighbour) /\ disk[Winner].frozen
          [] r.recovery = "AlternateCheckoutPreserved" -> times = 0

(* A result that the validation of a report accepts is what happened in    *)
(* the scenario: to the file, to the durable intent and to the freeze,     *)
(* although the runner only sees an answer and two digests.  NoMutation    *)
(* says that the file was never written, with one exception: a contender   *)
(* that found the lock free, put the file back and had an error when it    *)
(* saved that answers as a blocked one does; its backup tells.             *)
ResultIsTrue ==
    host.pc = "between" /\ host.results # <<>> =>
        LET r == host.results[Len(host.results)] IN ValidResult(r) => Truth(r)

(* Where no write fails, no wait ends early and the lease lasts, no host   *)
(* is rejected: scripts, both tables and the process agree.                *)
CleanRunReports ==
    host.pc = "rejected" => faults + slips > 0 \/ now >= Lease[Frozen]
=============================================================================
