---------------------------- MODULE GuardedAction ----------------------------
(***************************************************************************)
(* Callers that execute an action under an idempotency key, from the       *)
(* validation to the settlement of their reservation:                      *)
(*                                                                         *)
(*   shared  executeManagedApprovedAction of the SDK against a managed     *)
(*           server with shared state, whose evaluate handler reads        *)
(*           descriptor and approval in transactions of their own;         *)
(*   single  the same against a server with its SQLite store, where the    *)
(*           whole evaluation is one synchronous call;                     *)
(*   local   executeGuardedAction with the InMemoryIdempotencyLedger,      *)
(*           everything in one process.                                    *)
(*                                                                         *)
(* The ledger is the one that ActionLedger promises; SharedActionState and *)
(* AnchoredExecution say how the shared store and the anchor keep the      *)
(* promise.  Requests are lost, overtaken and answered too late, callers   *)
(* and servers crash, callers try again under the same key.                *)
(*                                                                         *)
(* The environment: execute() throws only when its effect did not happen,  *)
(* and an operator reconciles a reservation by what happened, when its     *)
(* caller is gone and no request about it is under way (the minimum age).  *)
(***************************************************************************)
EXTENDS ActionApprovals

CONSTANTS
  Callers,
  Keys,         \* idempotency keys
  LocalPolicy,  \* policy of executeGuardedAction; the server has the default
  MaxAttempts   \* bound: executions that all callers together start

ASSUME CallersAssumption == LocalPolicy \in Policy /\ MaxAttempts \in Nat

VARIABLES
  mode,      \* which of the three; never changes
  ledger,    \* reservations
  issued,    \* reservation identifiers handed out
  callers,   \* what each caller is doing
  handlers,  \* evaluations under way in a server
  requests,  \* complete and release requests under way
  attempts,  \* executions started
  effects    \* downstream effects: key, reservation and execution

actionVars == <<mode, ledger, issued, callers, handlers, requests, attempts,
                effects>>
vars == <<approvalVars, actionVars>>

Entry == [key : Keys, fingerprint : Bindings,
          state : {"pending", "completed"}, id : Nat]

(* What one execution is about.  revoked is a history variable: the        *)
(* challenges that had been revoked when it asked for the evaluation.      *)
Attempt == [number   : Nat,
            key      : Keys,
            decision : Decision,
            evidence : SUBSET AnyEvidence,
            revoked  : SUBSET Nat]

(* asking and settling are waits for the server; an execution that was     *)
(* allowed is decided before onActionDecision and executing after it.  One *)
(* that is over, with whatever error, leaves the caller free to try again. *)
Idle == [pc |-> "idle", id |-> 0]

Unreported == {"decided", "executing", "executed"}

Caller == [pc      : Unreported \cup {"validated", "asking", "settling"},
           attempt : Attempt,
           action  : SUBSET Actions,
           id      : Nat]

Process(pc, attempt, action, id) ==
  [pc |-> pc, attempt |-> attempt, action |-> action, id |-> id]

Handler == [pc      : {"descriptor", "approval", "reserve"},
            caller  : Callers,
            attempt : Attempt,
            action  : SUBSET Actions]

Request == [kind : {"complete", "release"}, caller : Callers, number : Nat,
            key : Keys, fingerprint : Bindings, id : Nat]

Effect == [key : Keys, id : Nat, number : Nat]

ActionsTypeOK ==
  /\ mode \in {"shared", "single", "local"}
  /\ ledger \subseteq Entry
  /\ issued \in Nat /\ attempts \in Nat
  /\ callers \in [Callers -> {Idle} \cup Caller]
  /\ handlers \subseteq Handler
  /\ requests \subseteq Request
  /\ effects \subseteq Effect

TypeOK == ApprovalsTypeOK /\ ActionsTypeOK

Move(c, pc) == callers' = [callers EXCEPT ![c].pc = pc]
Finish(c) == callers' = [callers EXCEPT ![c] = Idle]
-----------------------------------------------------------------------------
(* The ledger.                                                             *)

(* Mutant of ReserveResult: a key with another fingerprint is not found.   *)
ReserveResultByFingerprint(k, f) ==
  IF \E e \in ledger : e.key = k /\ e.fingerprint = f THEN "duplicate"
  ELSE "new"

ReserveResult(k, f) ==
  IF \A e \in ledger : e.key # k THEN "new"
  ELSE IF \E e \in ledger : e.key = k /\ e.fingerprint = f
       THEN "duplicate" ELSE "conflict"

Reservation(k, f) ==
  [key |-> k, fingerprint |-> f, state |-> "pending", id |-> issued + 1]

(* Mutant of Settled: the state column gets the name of the request.       *)
SettledByName(kind, k, f) ==
  LET found == {e \in ledger : /\ e.key = k /\ e.fingerprint = f
                               /\ e.state = "pending"}
  IN  IF kind = "release" THEN ledger \ found
      ELSE (ledger \ found) \cup {[e EXCEPT !.state = kind] : e \in found}

(* complete() and release() find a pending reservation by key and          *)
(* fingerprint and refuse when there is none.  The in-memory ledger        *)
(* completes a completed entry again, which changes nothing.               *)
Settled(kind, k, f) ==
  LET found == {e \in ledger : /\ e.key = k /\ e.fingerprint = f
                               /\ e.state = "pending"}
  IN  IF kind = "release" THEN ledger \ found
      ELSE (ledger \ found) \cup {[e EXCEPT !.state = "completed"] : e \in found}
-----------------------------------------------------------------------------
(* Callers up to the evaluation.                                           *)

(* validate(), which records the accepted decision, and the key that the   *)
(* caller executes it under.                                               *)
Validate(c) ==
  /\ callers[c] = Idle /\ attempts < MaxAttempts
  /\ attempts' = attempts + 1
  /\ \E d \in Decision, k \in Keys :
       /\ RecordAcceptedDecision(d)
       /\ callers' = [callers EXCEPT ![c] =
            Process("validated",
                    [number |-> attempts + 1, key |-> k, decision |-> d,
                     evidence |-> {}, revoked |-> {}],
                    {}, 0)]
  /\ UNCHANGED <<mode, ledger, issued, handlers, requests, effects>>

(* Evidence that the caller presents, if any, was handed out by Approve    *)
(* for a challenge about these arguments.                                  *)
Presentable(d) ==
  {{}} \cup {Evidence(ch) : ch \in {x \in challenges : x.binding.args = d.args}}

Asked(c, evidence) ==
  [callers[c].attempt EXCEPT
     !.evidence = evidence,
     !.revoked = {ch.id : ch \in {x \in challenges : x.status = "revoked"}}]

(* evaluateManagedAction: the request reaches a server.                    *)
Ask(c) ==
  /\ mode # "local" /\ callers[c].pc = "validated"
  /\ \E evidence \in Presentable(callers[c].attempt.decision) :
       /\ handlers' = handlers \cup
            {[pc |-> "descriptor", caller |-> c, attempt |-> Asked(c, evidence),
              action |-> {}]}
       /\ callers' = [callers EXCEPT ![c].pc = "asking",
                                     ![c].attempt = Asked(c, evidence)]
  /\ UNCHANGED <<approvalVars, mode, ledger, issued, requests, attempts, effects>>

(* Mutant of GiveUp: a completion that is not confirmed is released, as a  *)
(* failed execution is.                                                    *)
GiveUpReleasing(c) ==
  /\ callers[c].pc \in {"asking", "settling"}
  /\ Finish(c)
  /\ requests' = requests \cup
       {[r EXCEPT !.kind = "release"] :
          r \in {x \in requests : x.number = callers[c].attempt.number}}
  /\ UNCHANGED <<approvalVars, mode, ledger, issued, handlers, attempts, effects>>

(* The request deadline of the SDK, a lost answer, or the server's own     *)
(* request timer: the caller gives up, the handler does not know.  A       *)
(* completion that was not confirmed is a SchemaGuardActionCompletionError,*)
(* and the reservation is kept.                                            *)
GiveUp(c) ==
  /\ callers[c].pc \in {"asking", "settling"}
  /\ Finish(c)
  /\ UNCHANGED <<approvalVars, mode, ledger, issued, handlers, requests,
                 attempts, effects>>
-----------------------------------------------------------------------------
(* The evaluate handler.                                                   *)

(* The answer arrives if the caller still waits for it.  Only an allowed   *)
(* action goes on; any other answer, or error, ends the execution.         *)
Answered(h, allowed, id) ==
  IF callers[h.caller].pc = "asking" /\ callers[h.caller].attempt = h.attempt
  THEN [callers EXCEPT ![h.caller] =
          IF allowed THEN Process("decided", h.attempt, h.action, id) ELSE Idle]
  ELSE callers

(* The handler ends without touching the ledger.                           *)
Refuse(h) ==
  /\ handlers' = handlers \ {h}
  /\ callers' = Answered(h, FALSE, 0)
  /\ UNCHANGED <<ledger, issued>>

(* The gate, with the reservation that it ends in.                         *)
GateAndReserve(h, a) ==
  LET at      == h.attempt
      f       == Binding(at.decision, a)
      gate    == Preflight(at.decision, a, DefaultPolicy, at.evidence,
                           Live(at.evidence))
      reserve == gate = "reserve" /\ ReserveResult(at.key, f) = "new"
      known   == [h EXCEPT !.action = {a}]
  IN  /\ handlers' = handlers \ {h}
      /\ callers' = Answered(known, reserve \/ gate = "allowed",
                             IF reserve THEN issued + 1 ELSE 0)
      /\ ledger' = IF reserve THEN ledger \cup {Reservation(at.key, f)} ELSE ledger
      /\ issued' = IF reserve THEN issued + 1 ELSE issued

(* Shared state: verifyAcceptedDecision and actionDescriptor ...           *)
ReadDescriptor(h) ==
  /\ mode = "shared" /\ h.pc = "descriptor"
  /\ \/ /\ ~VerifyAcceptedDecision(h.attempt.decision)
        /\ Refuse(h)
     \/ /\ VerifyAcceptedDecision(h.attempt.decision) /\ descriptor = {}
        /\ Refuse(h)
     \/ /\ VerifyAcceptedDecision(h.attempt.decision) /\ descriptor # {}
        /\ handlers' = (handlers \ {h}) \cup
             {[h EXCEPT !.pc = "approval", !.action = descriptor]}
        /\ UNCHANGED <<ledger, issued, callers>>
  /\ UNCHANGED <<approvalVars, mode, requests, attempts, effects>>

(* Mutant of Recognised: the store is not asked.                           *)
RecognisedBySignature(evidence) == TRUE

(* verifyRecordedApproval, for evidence that was sent.                     *)
Recognised(evidence) == \A e \in evidence : VerifyRecordedApproval(e)

(* ... then verifyRecordedApproval ...                                     *)
ReadApproval(h) ==
  /\ mode = "shared" /\ h.pc = "approval"
  /\ IF Recognised(h.attempt.evidence)
     THEN /\ handlers' = (handlers \ {h}) \cup {[h EXCEPT !.pc = "reserve"]}
          /\ UNCHANGED <<ledger, issued, callers>>
     ELSE Refuse(h)
  /\ UNCHANGED <<approvalVars, mode, requests, attempts, effects>>

(* ... then the gate with what was read, and the transaction that reserves.*)
Reserve(h) ==
  /\ mode = "shared" /\ h.pc = "reserve"
  /\ \E a \in h.action : GateAndReserve(h, a)
  /\ UNCHANGED <<approvalVars, mode, requests, attempts, effects>>

(* SQLite: the same checks in one synchronous call.                        *)
EvaluateHere(h) ==
  /\ mode = "single"
  /\ LET accepted == VerifyAcceptedDecision(h.attempt.decision)
     IN  \/ ~accepted /\ Refuse(h)
         \/ accepted /\ descriptor = {} /\ Refuse(h)
         \/ /\ accepted /\ descriptor # {}
            /\ ~Recognised(h.attempt.evidence)
            /\ Refuse(h)
         \/ /\ accepted /\ Recognised(h.attempt.evidence)
            /\ \E a \in descriptor : GateAndReserve(h, a)
  /\ UNCHANGED <<approvalVars, mode, requests, attempts, effects>>

(* The server crashes before it reserves.                                  *)
HandlerDies(h) ==
  /\ handlers' = handlers \ {h}
  /\ UNCHANGED <<approvalVars, mode, ledger, issued, callers, requests,
                 attempts, effects>>

(* In one process: the gate is called directly, with the application's own *)
(* classification and policy, and verifies evidence by its signature.      *)
GateHere(c) ==
  /\ mode = "local" /\ callers[c].pc = "validated"
  /\ \E evidence \in Presentable(callers[c].attempt.decision), a \in descriptor :
       LET at      == Asked(c, evidence)
           f       == Binding(at.decision, a)
           gate    == Preflight(at.decision, a, LocalPolicy, evidence,
                                Live(evidence))
           reserve == gate = "reserve" /\ ReserveResult(at.key, f) = "new"
       IN  /\ callers' = [callers EXCEPT ![c] =
                IF reserve \/ gate = "allowed"
                THEN Process("decided", at, {a}, IF reserve THEN issued + 1 ELSE 0)
                ELSE Idle]
           /\ ledger' = IF reserve THEN ledger \cup {Reservation(at.key, f)}
                        ELSE ledger
           /\ issued' = IF reserve THEN issued + 1 ELSE issued
  /\ UNCHANGED <<approvalVars, mode, handlers, requests, attempts, effects>>
-----------------------------------------------------------------------------
(* Callers after the evaluation.                                           *)

(* onActionDecision returned.                                              *)
Proceed(c) ==
  /\ callers[c].pc = "decided"
  /\ Move(c, "executing")
  /\ UNCHANGED <<approvalVars, mode, ledger, issued, handlers, requests,
                 attempts, effects>>

(* onActionDecision threw.  A reservation that was made stays.             *)
HookThrows(c) ==
  /\ callers[c].pc = "decided"
  /\ Finish(c)
  /\ UNCHANGED <<approvalVars, mode, ledger, issued, handlers, requests,
                 attempts, effects>>

(* execute() reaches the downstream system, and returns.                   *)
Execute(c) ==
  /\ callers[c].pc = "executing"
  /\ Move(c, "executed")
  /\ effects' = effects \cup
       {[key |-> callers[c].attempt.key, id |-> callers[c].id,
         number |-> callers[c].attempt.number] :
          a \in {x \in callers[c].action : x.side_effect # "none"}}
  /\ UNCHANGED <<approvalVars, mode, ledger, issued, handlers, requests,
                 attempts>>

(* The outcome is reported: in process at once, otherwise by a request.    *)
(* Without a reservation the SDK of a local ledger has nothing to report;  *)
(* the managed one reports anyway and is refused.                          *)
Report(c, kind) ==
  \E a \in callers[c].action :
    LET at == callers[c].attempt
        f  == Binding(at.decision, a)
    IN  IF mode = "local"
        THEN /\ ledger' = IF callers[c].id = 0 THEN ledger
                          ELSE Settled(kind, at.key, f)
             /\ Finish(c)
             /\ UNCHANGED requests
        ELSE /\ requests' = requests \cup
                  {[kind |-> kind, caller |-> c, number |-> at.number,
                    key |-> at.key, fingerprint |-> f, id |-> callers[c].id]}
             /\ Move(c, "settling")
             /\ UNCHANGED ledger

ReportCompletion(c) ==
  /\ callers[c].pc = "executed"
  /\ Report(c, "complete")
  /\ UNCHANGED <<approvalVars, mode, issued, handlers, attempts, effects>>

(* execute() threw.                                                        *)
ExecuteThrows(c) ==
  /\ callers[c].pc = "executing"
  /\ Report(c, "release")
  /\ UNCHANGED <<approvalVars, mode, issued, handlers, attempts, effects>>

(* The server handles a complete or release request and answers.           *)
HandleRequest(r) ==
  /\ requests' = requests \ {r}
  /\ ledger' = Settled(r.kind, r.key, r.fingerprint)
  /\ IF /\ callers[r.caller].pc = "settling"
        /\ callers[r.caller].attempt.number = r.number
     THEN Finish(r.caller)
     ELSE UNCHANGED callers
  /\ UNCHANGED <<approvalVars, mode, issued, handlers, attempts, effects>>

LoseRequest(r) ==
  /\ requests' = requests \ {r}
  /\ UNCHANGED <<approvalVars, mode, ledger, issued, callers, handlers,
                 attempts, effects>>

Crash(c) ==
  /\ mode # "local" /\ callers[c] # Idle
  /\ Finish(c)
  /\ UNCHANGED <<approvalVars, mode, ledger, issued, handlers, requests,
                 attempts, effects>>

(* Nobody will use or settle the reservation any more.                     *)
Abandoned(id) ==
  /\ \A c \in Callers : callers[c].id # id
  /\ \A r \in requests : r.id # id

(* Mutant of Reconcile: only what a SchemaGuardActionCompletionError named.*)
ReconcileReported(e) ==
  /\ mode # "local"
  /\ e.state = "pending" /\ Abandoned(e.id)
  /\ \E x \in effects : x.id = e.id
  /\ ledger' = Settled("complete", e.key, e.fingerprint)
  /\ UNCHANGED <<approvalVars, mode, issued, callers, handlers, requests,
                 attempts, effects>>

(* An operator finds an abandoned reservation in the pending list and      *)
(* settles it by what happened.                                            *)
Reconcile(e) ==
  /\ mode # "local"
  /\ e.state = "pending" /\ Abandoned(e.id)
  /\ ledger' = Settled(IF \E x \in effects : x.id = e.id THEN "complete"
                       ELSE "release", e.key, e.fingerprint)
  /\ UNCHANGED <<approvalVars, mode, issued, callers, handlers, requests,
                 attempts, effects>>
-----------------------------------------------------------------------------
Init ==
  /\ ApprovalsInit
  /\ mode \in {"shared", "single", "local"}
  /\ ledger = {} /\ issued = 0
  /\ callers = [c \in Callers |-> Idle]
  /\ handlers = {} /\ requests = {} /\ attempts = 0 /\ effects = {}

CallerNext(c) ==
  \/ Validate(c) \/ Ask(c) \/ GateHere(c) \/ GiveUp(c)
  \/ Proceed(c) \/ HookThrows(c) \/ Execute(c) \/ ReportCompletion(c)
  \/ ExecuteThrows(c) \/ Crash(c)

HandlerNext(h) ==
  ReadDescriptor(h) \/ ReadApproval(h) \/ Reserve(h) \/ EvaluateHere(h)

Next ==
  \/ \E c \in Callers : CallerNext(c)
  \/ \E h \in handlers : HandlerNext(h) \/ HandlerDies(h)
  \/ \E r \in requests : HandleRequest(r) \/ LoseRequest(r)
  \/ \E e \in ledger : Reconcile(e)
  \/ ApprovalsNext /\ UNCHANGED actionVars

(* Promises settle and requests have deadlines, callers that live go on,   *)
(* and operators work through the list of pending reservations.            *)
Fairness ==
  /\ \A c \in Callers :
       /\ WF_vars(GiveUp(c))
       /\ WF_vars(Proceed(c) \/ HookThrows(c))
       /\ WF_vars(Execute(c) \/ ExecuteThrows(c))
       /\ WF_vars(ReportCompletion(c))
  /\ WF_vars(\E r \in requests : HandleRequest(r) \/ LoseRequest(r))
  /\ WF_vars(\E e \in ledger : Reconcile(e))

Spec == Init /\ [][Next]_vars /\ Fairness
-----------------------------------------------------------------------------
(* Properties.                                                             *)

EffectivePolicy == IF mode = "local" THEN LocalPolicy ELSE DefaultPolicy

(* Under one idempotency key one execution at most has its downstream      *)
(* effect, whatever is lost, late, crashed or tried again, by however many *)
(* callers; in particular an uncertain completion never frees the key.  An *)
(* application whose policy asks for no reservations is promised nothing.  *)
EffectAtMostOnce ==
  EffectivePolicy.idempotency =>
    \A x, y \in effects : x.key = y.key => x = y

(* Whoever was told to execute an action that needs an approval holds one  *)
(* that an approver gave for exactly these arguments, repairs, risk and    *)
(* side effect, and that was not already revoked when the evaluation was   *)
(* asked for.                                                              *)
AllowedWithinAuthority ==
  \A c \in Callers : LET p == callers[c] IN
    p.pc \in {"decided", "executing", "executed", "settling"} => \A a \in p.action :
         RequiresApproval(p.attempt.decision, a, EffectivePolicy)
         => \E e \in p.attempt.evidence :
              /\ e.binding = Binding(p.attempt.decision, a)
              /\ mode # "local" => e.challenge \notin p.attempt.revoked

(* Why the effect happens once: a reservation has one holder, the caller   *)
(* that was told of it or, later, one request about it, and it stays       *)
(* pending until the holder settles it; nobody releases one whose effect   *)
(* has happened.                                                           *)
LedgerInv ==
  /\ \A e \in ledger : e.id \in 1..issued /\ e.fingerprint.side_effect # "none"
  /\ \A x, y \in ledger : x.key = y.key \/ x.id = y.id => x = y

Holds(p) ==
  /\ EffectivePolicy.idempotency
  /\ \E e \in ledger :
       /\ e.id = p.id /\ e.key = p.attempt.key /\ e.state = "pending"
       /\ \A a \in p.action : e.fingerprint = Binding(p.attempt.decision, a)
  /\ \A r \in requests : r.id # p.id
  /\ p.pc # "executed" => \A x \in effects : x.id # p.id

HoldersInv ==
  \A c \in Callers : LET p == callers[c] IN
    /\ p.id <= issued
    /\ \A d \in Callers : callers[d].id = p.id /\ p.id # 0 => d = c
    /\ p.pc \in Unreported =>
         /\ \E a \in Actions : p.action = {a}
         /\ IF p.id = 0
            THEN \A a \in p.action : ~RequiresIdempotency(a, EffectivePolicy)
            ELSE Holds(p)

RequestsInv ==
  \A r \in requests :
    /\ mode # "local" /\ r.id <= issued
    /\ r.id = 0 => r.fingerprint.side_effect = "none"
    /\ r.id # 0 =>
         /\ \A q \in requests : q.id = r.id => q = r
         /\ \E e \in ledger :
              /\ e.id = r.id /\ e.key = r.key /\ e.state = "pending"
              /\ e.fingerprint = r.fingerprint
         /\ r.kind = "release" => \A x \in effects : x.id # r.id

EffectsInv ==
  /\ \A x \in effects :
       /\ x.id <= issued
       /\ x.id = 0 <=> ~EffectivePolicy.idempotency
       /\ x.id # 0 => \E e \in ledger : e.id = x.id /\ e.key = x.key
  /\ \A x, y \in effects : x.id = y.id /\ x.id # 0 => x = y

(* Why it happens with authority: what had been revoked stays revoked.     *)
HandlersInv ==
  \A h \in handlers :
    /\ mode # "local"
    /\ \A id \in h.attempt.revoked :
         \E ch \in challenges : ch.id = id /\ ch.status = "revoked"
    /\ h.pc = "reserve" =>
         \A e \in h.attempt.evidence : e.challenge \notin h.attempt.revoked

(* The inductive invariant, which implies the two properties above.        *)
IInv == /\ TypeOK /\ ChallengesInv /\ LedgerInv /\ HoldersInv /\ RequestsInv
        /\ EffectsInv /\ HandlersInv /\ AllowedWithinAuthority

(* The reservations are those of an idempotency ledger in all three modes. *)
Ledger == INSTANCE ActionLedger
            WITH entries <- ledger, Fingerprints <- Bindings

ImplementsLedger == Ledger!Spec

(* With operators at work no reservation stays pending for ever, not even  *)
(* one that its caller never heard of, whose hook threw, or whose          *)
(* settlement was lost.                                                    *)
Pending(id) == \E e \in ledger : e.id = id /\ e.state = "pending"

ReservationsAreSettled ==
  \A id \in 1..MaxAttempts : mode # "local" /\ Pending(id) ~> ~Pending(id)
=============================================================================
