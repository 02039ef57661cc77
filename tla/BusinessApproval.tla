-------------------------- MODULE BusinessApproval --------------------------
(***************************************************************************)
(* opentea-publisher's own database: staff accounts and their sessions,    *)
(* the targets it publishes to, the business-approval requests decided by  *)
(* staff, the credentials it issues to CI/CD, and the audit log.           *)
(*                                                                         *)
(* A form handler takes up to three steps: the middleware resolves the     *)
(* session and checks a role, the handler may read the row it is about to  *)
(* change, and one transaction changes it together with its audit entry.   *)
(* The pool holds one connection, so each of these is atomic and anything  *)
(* may happen between two of them.  A UUID is never used twice.            *)
(***************************************************************************)
EXTENDS Integers, Sequences, FiniteSets

CONSTANTS
    Staff, Targets, Requests, Credentials,  \* the UUIDs of each table
    Handlers,       \* concurrent requests of the GUI
    Profiles,       \* [role, workflowRole] of the accounts to create
    Operations,     \* the forms that are used
    MaxRequired,    \* the largest required_approvals asked for
    MaxAudit,       \* bound on the length of the audit log
    NULL            \* an empty column, an idle handler

Roles == {"admin", "member"}
WorkflowRoles == {"none", "release_manager", "component_maintainer",
                  "security_compliance_approver"}
AllOperations == {"staff.create", "staff.delete", "target.create",
                  "target.delete", "approval_request.create",
                  "approval_request.decide", "cicd_credential.create",
                  "cicd_credential.revoke"}
Decisions == {"approved", "rejected"}

ASSUME NULLAssumption ==
    NULL \notin Staff \cup Targets \cup Requests \cup Credentials
ASSUME UUIDsAssumption == Requests \cap (Staff \cup Targets \cup Credentials) = {}
ASSUME StaffAssumption == IsFiniteSet(Staff)
ASSUME ProfilesAssumption ==
    Profiles \subseteq [role : Roles, workflowRole : WorkflowRoles]
ASSUME OperationsAssumption == Operations \subseteq AllOperations
ASSUME BoundsAssumption == MaxRequired \in Nat \ {0} /\ MaxAudit \in Nat

VARIABLES
    staff,       \* staff[s]: [row, role, workflowRole]
    session,     \* accounts with a session that has not expired
    target,      \* target[t]: whether the row exists
    request,     \* request[q]: [row, target, requestedBy, required, status]
    decision,    \* decision[q]: the approval_decision rows, by id
    credential,  \* credential[c]: [row, target, revoked]
    audit,       \* the audit_log rows, by id
    handler,     \* handler[h]: what a handler holds between its steps
    maker,       \* history: who created request q
    approvers    \* history: who approved request q

tables == <<staff, session, target, request, decision, credential, audit>>
vars == <<tables, handler, maker, approvers>>

\* A row was not inserted yet, is in its table, or was deleted.
Rows == {"unused", "live", "deleted"}
Live(s) == staff[s].row = "live"

\* handler[h] holds the operation, the staff account the session resolved to,
\* the row it names, the form's input, and the row read before the
\* transaction (Unread until it is read, or never read).
Unread == "unread"
Found == "found"

Calls ==
    [op : {"staff.create"}, by : Staff, profile : Profiles]
    \cup [op : {"staff.delete"}, by : Staff, uuid : Staff,
          existing : {Unread, Found}]
    \cup [op : {"target.create"}, by : Staff]
    \cup [op : {"target.delete"}, by : Staff, uuid : Targets,
          existing : {Unread, Found}]
    \cup [op : {"approval_request.create"}, by : Staff, target : Targets,
          required : 1..MaxRequired]
    \cup [op : {"approval_request.decide"}, by : Staff, uuid : Requests,
          decision : Decisions, existing : {Unread, "pending"} \cup Decisions]
    \cup [op : {"cicd_credential.create"}, by : Staff, target : Targets]
    \cup [op : {"cicd_credential.revoke"}, by : Staff, uuid : Credentials,
          existing : {Unread, Found}]

-----------------------------------------------------------------------------
(* The audit log.                                                          *)

\* Mutant: the account the session resolved to is not referenced.
StillExistsUnchecked(s) == TRUE

\* The foreign keys of the rows a handler inserts in its own name are only
\* satisfied by an account that still exists when its transaction runs.
StillExists(s) == Live(s)

\* One row per transaction: the previous and the resulting state, reduced to
\* the status of an approval request.
Entry(op, by, id, previous, resulting) ==
    [op |-> op, by |-> by, id |-> id,
     previous |-> previous, resulting |-> resulting]

RecordAudit(c, id, previous, resulting) ==
    /\ Len(audit) < MaxAudit
    /\ audit' = Append(audit, Entry(c.op, c.by, id, previous, resulting))

-----------------------------------------------------------------------------
Init ==
    /\ staff = [s \in Staff |-> [row |-> "unused", role |-> "member",
                                 workflowRole |-> "none"]]
    /\ session = {}
    /\ target = [t \in Targets |-> "unused"]
    /\ request = [q \in Requests |->
                    [row |-> "unused", target |-> NULL, requestedBy |-> NULL,
                     required |-> 1, status |-> "pending"]]
    /\ decision = [q \in Requests |-> <<>>]
    /\ credential = [c \in Credentials |->
                       [row |-> "unused", target |-> NULL, revoked |-> FALSE]]
    /\ audit = <<>>
    /\ handler = [h \in Handlers |-> NULL]
    /\ maker = [q \in Requests |-> NULL]
    /\ approvers = [q \in Requests |-> {}]

-----------------------------------------------------------------------------
(* Accounts and sessions.                                                  *)

CreateStaff(s, p) ==
    /\ staff[s].row = "unused"
    /\ staff' = [staff EXCEPT ![s] = [row |-> "live", role |-> p.role,
                                      workflowRole |-> p.workflowRole]]

\* The createstaff command: the same insert, without a transaction around it.
RunCreateStaff(s, p) ==
    /\ CreateStaff(s, p)
    /\ UNCHANGED <<session, target, request, decision, credential, audit,
                   handler, maker, approvers>>

\* VerifyLogin and CreateSession; the row's foreign key needs the account.
\* Several sessions of an account count as one that may be opened again.
LoginSubmit(s) ==
    /\ Live(s)
    /\ s \notin session
    /\ session' = session \cup {s}
    /\ UNCHANGED <<staff, target, request, decision, credential, audit,
                   handler, maker, approvers>>

\* Logging out, or the session's 24 hours running out.
SessionEnds(s) ==
    /\ s \in session
    /\ session' = session \ {s}
    /\ UNCHANGED <<staff, target, request, decision, credential, audit,
                   handler, maker, approvers>>

\* requireSession, requireRole(admin), requireApprovalRole.
Permitted(s, op) ==
    CASE op = "approval_request.create" -> TRUE
      [] op = "approval_request.decide" ->
            staff[s].workflowRole = "security_compliance_approver"
      [] OTHER -> staff[s].role = "admin"

Arrive(h, c) ==
    /\ handler[h] = NULL
    /\ c.op \in Operations
    /\ c.by \in session
    /\ Permitted(c.by, c.op)
    /\ handler' = [handler EXCEPT ![h] = c]
    /\ UNCHANGED <<tables, maker, approvers>>

\* Every form posts its own input; what it names may not exist (any more).
Requested(s) ==
    {c \in Calls : c.by = s /\
        ("existing" \in DOMAIN c => c.existing = Unread)}

\* The transaction is rolled back (a check in it fails, a foreign key does,
\* the client is gone), or the row named was not found before it.
Rollback(h) ==
    /\ handler[h] # NULL
    /\ handler' = [handler EXCEPT ![h] = NULL]
    /\ UNCHANGED <<tables, maker, approvers>>

Answered(h) == handler' = [handler EXCEPT ![h] = NULL]

\* The read of the row outside the transaction.
ReadExisting(h, op, exists, value) ==
    /\ handler[h] # NULL
    /\ handler[h].op = op
    /\ handler[h].existing = Unread
    /\ exists
    /\ handler' = [handler EXCEPT ![h].existing = value]
    /\ UNCHANGED <<tables, maker, approvers>>

\* h is about to run the transaction of op, having read what it reads first.
Ready(h, op) ==
    /\ handler[h] # NULL
    /\ handler[h].op = op
    /\ "existing" \in DOMAIN handler[h] => handler[h].existing # Unread

-----------------------------------------------------------------------------
(* Staff management.                                                       *)

CreateStaffForm(h, s) ==
    LET c == handler[h] IN
    /\ Ready(h, "staff.create")
    /\ CreateStaff(s, c.profile)
    /\ StillExists(c.by)
    /\ RecordAudit(c, s, NULL, NULL)
    /\ Answered(h)
    /\ UNCHANGED <<session, target, request, decision, credential,
                   maker, approvers>>

GetStaffByUUID(h) ==
    LET c == handler[h] IN
    ReadExisting(h, "staff.delete", Live(c.uuid), Found)

ErrLastAdmin(s) ==
    /\ staff[s].role = "admin"
    /\ Cardinality({a \in Staff : Live(a) /\ staff[a].role = "admin"}) <= 1

\* Mutant: a request that the account approved is pending again.
ForgetReopening(s) ==
    LET approves(i, q) == decision[q][i] = [by |-> s, decision |-> "approved"]
        approved(q) == \E i \in 1..Len(decision[q]) : approves(i, q)
    IN
    /\ request' = [q \in Requests |-> [request[q] EXCEPT
                     !.requestedBy = IF @ = s THEN NULL ELSE @,
                     !.status = IF approved(q) THEN "pending" ELSE @]]
    /\ decision' = [q \in Requests |-> [i \in 1..Len(decision[q]) |->
                     IF decision[q][i].by = s
                     THEN [decision[q][i] EXCEPT !.by = NULL]
                     ELSE decision[q][i]]]

\* ON DELETE SET NULL in requests, decisions and the audit log.
Forget(s) ==
    /\ request' = [q \in Requests |->
                     IF request[q].requestedBy = s
                     THEN [request[q] EXCEPT !.requestedBy = NULL]
                     ELSE request[q]]
    /\ decision' = [q \in Requests |-> [i \in 1..Len(decision[q]) |->
                     IF decision[q][i].by = s
                     THEN [decision[q][i] EXCEPT !.by = NULL]
                     ELSE decision[q][i]]]

Forgotten(log, s) == [i \in 1..Len(log) |->
    IF log[i].by = s THEN [log[i] EXCEPT !.by = NULL] ELSE log[i]]

\* Mutant: no rule for the last admin, and the audit entry names nobody.
DeleteStaffUnguarded(h, s) ==
    /\ Live(s)
    /\ staff' = [staff EXCEPT ![s].row = "deleted"]
    /\ session' = session \ {s}
    /\ Len(audit) < MaxAudit
    /\ audit' = Append(Forgotten(audit, s),
                       Entry("staff.delete", NULL, s, NULL, NULL))

\* DeleteStaff and its audit entry.  The entry names the account that deletes,
\* so its foreign key fails when an account deletes itself.
DeleteStaff(h, s) ==
    /\ Live(s)
    /\ ~ ErrLastAdmin(s)
    /\ staff' = [staff EXCEPT ![s].row = "deleted"]
    /\ session' = session \ {s}
    /\ StillExists(handler[h].by) /\ handler[h].by # s
    /\ Len(audit) < MaxAudit
    /\ audit' = Append(Forgotten(audit, s),
                       Entry("staff.delete", handler[h].by, s, NULL, NULL))

DeleteStaffForm(h) ==
    LET s == handler[h].uuid IN
    /\ Ready(h, "staff.delete")
    /\ DeleteStaff(h, s)
    /\ Forget(s)
    /\ Answered(h)
    /\ UNCHANGED <<target, credential, maker, approvers>>

-----------------------------------------------------------------------------
(* Targets.                                                                *)

CreateTargetForm(h, t) ==
    /\ Ready(h, "target.create")
    /\ target[t] = "unused"
    /\ target' = [target EXCEPT ![t] = "live"]
    /\ StillExists(handler[h].by)
    /\ RecordAudit(handler[h], t, NULL, NULL)
    /\ Answered(h)
    /\ UNCHANGED <<staff, session, request, decision, credential,
                   maker, approvers>>

GetTarget(h) ==
    ReadExisting(h, "target.delete", target[handler[h].uuid] = "live", Found)

\* Mutant: the credentials of a deleted target stay.
CascadeRequests(t) ==
    /\ request' = [q \in Requests |->
                     IF request[q].row = "live" /\ request[q].target = t
                     THEN [request[q] EXCEPT !.row = "deleted"]
                     ELSE request[q]]
    /\ decision' = [q \in Requests |->
                     IF request[q].row = "live" /\ request[q].target = t
                     THEN <<>> ELSE decision[q]]
    /\ UNCHANGED credential

\* ON DELETE CASCADE: the requests of a target with their decisions, and the
\* CI/CD credentials issued for it.
Cascade(t) ==
    /\ request' = [q \in Requests |->
                     IF request[q].row = "live" /\ request[q].target = t
                     THEN [request[q] EXCEPT !.row = "deleted"]
                     ELSE request[q]]
    /\ decision' = [q \in Requests |->
                     IF request[q].row = "live" /\ request[q].target = t
                     THEN <<>> ELSE decision[q]]
    /\ credential' = [c \in Credentials |->
                        IF credential[c].row = "live" /\ credential[c].target = t
                        THEN [credential[c] EXCEPT !.row = "deleted"]
                        ELSE credential[c]]

\* Mutant: RowsAffected is not looked at.
DeletesAnyRow(t) == target[t] # "unused"

\* DeleteTarget returns ErrNotFound when the DELETE affects no row.
DeletesRow(t) == target[t] = "live"
DeleteTargetForm(h) ==
    LET t == handler[h].uuid IN
    /\ Ready(h, "target.delete")
    /\ DeletesRow(t)
    /\ target' = [target EXCEPT ![t] = "deleted"]
    /\ Cascade(t)
    /\ StillExists(handler[h].by)
    /\ RecordAudit(handler[h], t, NULL, NULL)
    /\ Answered(h)
    /\ UNCHANGED <<staff, session, maker, approvers>>

-----------------------------------------------------------------------------
(* Approval requests.                                                      *)

CreateApprovalRequest(h, q) ==
    LET c == handler[h] IN
    /\ Ready(h, "approval_request.create")
    /\ request[q].row = "unused"
    /\ target[c.target] = "live"
    /\ StillExists(c.by)
    /\ request' = [request EXCEPT ![q] =
                     [row |-> "live", target |-> c.target, requestedBy |-> c.by,
                      required |-> c.required, status |-> "pending"]]
    /\ RecordAudit(c, q, NULL, "pending")
    /\ maker' = [maker EXCEPT ![q] = c.by]
    /\ Answered(h)
    /\ UNCHANGED <<staff, session, target, decision, credential, approvers>>

GetApprovalRequest(h) ==
    LET q == handler[h].uuid IN
    ReadExisting(h, "approval_request.decide", request[q].row = "live",
                 request[q].status)

\* Checked in the transaction, on the row as it is then.
Pending(q) == request[q].status = "pending"
ErrSelfApproval(q, s) == s = request[q].requestedBy

\* COUNT(DISTINCT staff_uuid): a deleted account's NULL is not counted.
Approving(rows) ==
    {s \in Staff : \E i \in 1..Len(rows) :
        rows[i].by = s /\ rows[i].decision = "approved"}

\* Mutant: COUNT(*).
ApprovingRows(rows) ==
    Cardinality({i \in 1..Len(rows) : rows[i].decision = "approved"})

ApprovingCount(rows) == Cardinality(Approving(rows))
\* Mutant: one approval too many is asked for.
OutcomeLate(d, rows, required) ==
    CASE d = "rejected" -> "rejected"
      [] d = "approved" /\ ApprovingCount(rows) > required -> "approved"
      [] OTHER -> "pending"

\* Mutant: the status is not set unless the decision closes the request.
OutcomeUnset(d, rows, required) ==
    CASE d = "rejected" -> "rejected"
      [] d = "approved" /\ ApprovingCount(rows) >= required -> "approved"
      [] OTHER -> ""

\* The status after decision d, which is the last of rows.
Outcome(d, rows, required) ==
    CASE d = "rejected" -> "rejected"
      [] d = "approved" /\ ApprovingCount(rows) >= required -> "approved"
      [] OTHER -> "pending"
RecordApprovalDecision(h) ==
    LET c == handler[h]
        q == c.uuid
        rows == Append(decision[q], [by |-> c.by, decision |-> c.decision])
        status == Outcome(c.decision, rows, request[q].required)
    IN
    /\ Ready(h, "approval_request.decide")
    /\ request[q].row = "live"
    /\ Pending(q)
    /\ ~ ErrSelfApproval(q, c.by)
    /\ StillExists(c.by)
    /\ decision' = [decision EXCEPT ![q] = rows]
    /\ request' = [request EXCEPT ![q].status = status]
    /\ RecordAudit(c, q, c.existing, status)
    /\ approvers' = [approvers EXCEPT ![q] =
                       IF c.decision = "approved" THEN @ \cup {c.by} ELSE @]
    /\ Answered(h)
    /\ UNCHANGED <<staff, session, target, credential, maker>>

-----------------------------------------------------------------------------
(* CI/CD credentials.                                                      *)

CreateCICDCredentialForm(h, k) ==
    LET c == handler[h] IN
    /\ Ready(h, "cicd_credential.create")
    /\ credential[k].row = "unused"
    /\ target[c.target] = "live"
    /\ credential' = [credential EXCEPT ![k] =
                        [row |-> "live", target |-> c.target, revoked |-> FALSE]]
    /\ StillExists(c.by)
    /\ RecordAudit(c, k, NULL, NULL)
    /\ Answered(h)
    /\ UNCHANGED <<staff, session, target, request, decision, maker, approvers>>

ListCICDCredentials(h) ==
    ReadExisting(h, "cicd_credential.revoke",
                 credential[handler[h].uuid].row = "live", Found)

\* Idempotent: revoking again is not an error, and is audited again.
RevokeCICDCredentialForm(h) ==
    LET k == handler[h].uuid IN
    /\ Ready(h, "cicd_credential.revoke")
    /\ credential[k].row = "live"
    /\ credential' = [credential EXCEPT ![k].revoked = TRUE]
    /\ StillExists(handler[h].by)
    /\ RecordAudit(handler[h], k, NULL, NULL)
    /\ Answered(h)
    /\ UNCHANGED <<staff, session, target, request, decision, maker, approvers>>

\* GetCICDCredentialByToken: what a bearer of k's token may act for.
Authenticates(k, t) ==
    credential[k].row = "live" /\ ~ credential[k].revoked
    /\ credential[k].target = t

-----------------------------------------------------------------------------
Next ==
    \/ \E s \in Staff, p \in Profiles : RunCreateStaff(s, p)
    \/ \E s \in Staff : LoginSubmit(s) \/ SessionEnds(s)
    \/ \E h \in Handlers :
        \/ \E s \in session : \E c \in Requested(s) : Arrive(h, c)
        \/ Rollback(h)
        \/ \E s \in Staff : CreateStaffForm(h, s)
        \/ GetStaffByUUID(h) \/ DeleteStaffForm(h)
        \/ \E t \in Targets : CreateTargetForm(h, t)
        \/ GetTarget(h) \/ DeleteTargetForm(h)
        \/ \E q \in Requests : CreateApprovalRequest(h, q)
        \/ GetApprovalRequest(h) \/ RecordApprovalDecision(h)
        \/ \E k \in Credentials : CreateCICDCredentialForm(h, k)
        \/ ListCICDCredentials(h) \/ RevokeCICDCredentialForm(h)

Spec == Init /\ [][Next]_vars

-----------------------------------------------------------------------------
(* Properties.                                                             *)

Ids == Staff \cup Targets \cup Requests \cup Credentials

StaffRow == [row : Rows, role : Roles, workflowRole : WorkflowRoles]
RequestRow == [row : Rows, target : Targets \cup {NULL},
               requestedBy : Staff \cup {NULL}, required : Nat \ {0},
               status : {"pending"} \cup Decisions]
DecisionRow == [by : Staff \cup {NULL}, decision : Decisions]
CredentialRow == [row : Rows, target : Targets \cup {NULL}, revoked : BOOLEAN]
AuditRow == [op : AllOperations, by : Staff \cup {NULL}, id : Ids,
             previous : {NULL, Unread, "pending"} \cup Decisions,
             resulting : {NULL, "pending"} \cup Decisions]

\* Every column holds a value of its type, and every handler what its form
\* and its reads can have given it.
TypeOK ==
    /\ staff \in [Staff -> StaffRow]
    /\ session \subseteq Staff
    /\ target \in [Targets -> Rows]
    /\ request \in [Requests -> RequestRow]
    /\ decision \in [Requests -> Seq(DecisionRow)]
    /\ credential \in [Credentials -> CredentialRow]
    /\ audit \in Seq(AuditRow)
    /\ handler \in [Handlers -> Calls \cup {NULL}]
    /\ maker \in [Requests -> Staff \cup {NULL}]
    /\ approvers \in [Requests -> SUBSET Staff]

\* ErrLastAdmin: once a deployment has had an admin it has one, whatever two
\* admins delete at the same time ("must never be able to lock itself out").
AdminRemains ==
    (\E s \in Staff : staff[s].row # "unused" /\ staff[s].role = "admin")
    => \E s \in Staff : Live(s) /\ staff[s].role = "admin"

\* Maker-checker of RecordApprovalDecision: an approved request was approved
\* by as many different accounts as it asked for, none of them its maker's
\* and each with the approver's role, even after accounts were deleted.
ApprovedByQuorum ==
    \A q \in Requests : request[q].status = "approved" =>
        /\ Cardinality(approvers[q]) >= request[q].required
        /\ maker[q] \notin approvers[q]
        /\ \A s \in approvers[q] :
              staff[s].workflowRole = "security_compliance_approver"

Rejecting(rows) == {i \in 1..Len(rows) : rows[i].decision = "rejected"}

\* The status column agrees with the decision rows it was computed from: one
\* rejection, the last decision, closes a request as rejected; a request does
\* not stay pending once the approvals of existing accounts suffice.
StatusFollowsDecisions ==
    \A q \in Requests : request[q].row = "live" =>
        CASE request[q].status = "rejected" ->
                Rejecting(decision[q]) = {Len(decision[q])}
          [] request[q].status = "approved" -> Rejecting(decision[q]) = {}
          [] OTHER -> /\ Rejecting(decision[q]) = {}
                      /\ Cardinality(Approving(decision[q])) < request[q].required

\* ErrRequestNotPending: a decision that raced another one does not reopen,
\* turn or add to a request that the other one closed.
ClosedIsFinal ==
    [][\A q \in Requests :
          request[q].row = "live" /\ request[q].status # "pending" =>
          /\ request'[q].status = request[q].status
          /\ request'[q].row = "live" =>
                Len(decision'[q]) = Len(decision[q])]_vars

AuditOf(op, id) ==
    {i \in 1..Len(audit) : audit[i].op = op /\ audit[i].id = id}

\* WithTx commits a mutation and its audit entry together: one entry per
\* decision, one per deleted account and target even if two handlers delete
\* the same row, and the states an entry records continue the one before,
\* although the previous state is read outside the transaction.
AuditMatchesTables ==
    /\ \A q \in Requests : request[q].row = "live" =>
          Cardinality(AuditOf("approval_request.decide", q)) = Len(decision[q])
    /\ \A s \in Staff : Cardinality(AuditOf("staff.delete", s))
                          = IF staff[s].row = "deleted" THEN 1 ELSE 0
    /\ \A t \in Targets : Cardinality(AuditOf("target.delete", t))
                            = IF target[t] = "deleted" THEN 1 ELSE 0
    /\ \A i, j \in 1..Len(audit) :
          /\ i < j
          /\ audit[i].id = audit[j].id
          /\ audit[j].op = "approval_request.decide"
          /\ \A k \in i+1..j-1 : audit[k].id # audit[j].id
          => audit[j].previous = audit[i].resulting

\* A handler whose account was deleted after the session was resolved commits
\* nothing: every entry is written by an account that exists after the step.
NothingByTheDeleted ==
    [][Len(audit') > Len(audit) =>
          LET by == audit'[Len(audit')].by IN
          by # NULL /\ staff'[by].row = "live"]_vars

\* The foreign keys: nothing that can be used refers to a deleted account or
\* target (a CI/CD token, a session, an approval request to decide).
NoOrphans ==
    /\ \A s \in session : Live(s)
    /\ \A q \in Requests : request[q].row = "live" =>
          /\ target[request[q].target] = "live"
          /\ request[q].requestedBy # NULL => Live(request[q].requestedBy)
    /\ \A k \in Credentials, t \in Targets :
          Authenticates(k, t) => target[t] = "live"

=============================================================================
