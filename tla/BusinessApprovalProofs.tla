----------------------- MODULE BusinessApprovalProofs -----------------------
(***************************************************************************)
(* Proofs about BusinessApproval, for any number of accounts, targets,     *)
(* requests, credentials and concurrent handlers.                          *)
(***************************************************************************)
EXTENDS BusinessApproval, FiniteSetTheorems, TLAPS

StaffDeletes == [op : {"staff.delete"}, by : Staff, uuid : Staff,
                 existing : {Unread, Found}]
TargetDeletes == [op : {"target.delete"}, by : Staff, uuid : Targets,
                  existing : {Unread, Found}]
Decides == [op : {"approval_request.decide"}, by : Staff, uuid : Requests,
            decision : Decisions, existing : {Unread, "pending"} \cup Decisions]
Revokes == [op : {"cicd_credential.revoke"}, by : Staff, uuid : Credentials,
            existing : {Unread, Found}]
RequestCreates == [op : {"approval_request.create"}, by : Staff,
                   target : Targets, required : 1..MaxRequired]
CredentialCreates == [op : {"cicd_credential.create"}, by : Staff,
                      target : Targets]
StaffCreates == [op : {"staff.create"}, by : Staff, profile : Profiles]

-----------------------------------------------------------------------------
(* What a handler holds, told by its operation.                            *)

\* A call of a form is the record that form posts.
LEMMA CallKinds ==
    ASSUME NEW c \in Calls
    PROVE  /\ c.op \in AllOperations /\ c.by \in Staff
           /\ c.op = "staff.create" => c \in StaffCreates
           /\ c.op = "staff.delete" => c \in StaffDeletes
           /\ c.op = "target.delete" => c \in TargetDeletes
           /\ c.op = "approval_request.create" => c \in RequestCreates
           /\ c.op = "approval_request.decide" => c \in Decides
           /\ c.op = "cicd_credential.create" => c \in CredentialCreates
           /\ c.op = "cicd_credential.revoke" => c \in Revokes
  BY DEF Calls, AllOperations, StaffCreates, StaffDeletes, TargetDeletes,
         RequestCreates, Decides, CredentialCreates, Revokes

LEMMA KindsAreCalls ==
    /\ StaffDeletes \subseteq Calls /\ TargetDeletes \subseteq Calls
    /\ Decides \subseteq Calls /\ Revokes \subseteq Calls
  BY DEF Calls, StaffDeletes, TargetDeletes, Decides, Revokes

-----------------------------------------------------------------------------
(* Type correctness.                                                       *)

\* Changing one column of a row keeps the row's type.
LEMMA RowUpdates ==
    /\ \A r \in StaffRow : [r EXCEPT !.row = "deleted"] \in StaffRow
    /\ \A r \in RequestRow :
          /\ [r EXCEPT !.requestedBy = NULL] \in RequestRow
          /\ [r EXCEPT !.row = "deleted"] \in RequestRow
          /\ \A v \in {"pending"} \cup Decisions :
                [r EXCEPT !.status = v] \in RequestRow
    /\ \A r \in DecisionRow : [r EXCEPT !.by = NULL] \in DecisionRow
    /\ \A r \in CredentialRow :
          /\ [r EXCEPT !.row = "deleted"] \in CredentialRow
          /\ [r EXCEPT !.revoked = TRUE] \in CredentialRow
    /\ \A r \in AuditRow : [r EXCEPT !.by = NULL] \in AuditRow
  BY DEF StaffRow, RequestRow, DecisionRow, CredentialRow, AuditRow, Rows

\* Setting a column of some rows of a log to NULL keeps the log's type.
LEMMA ForgottenType ==
    ASSUME NEW log \in Seq(AuditRow), NEW s
    PROVE  /\ Forgotten(log, s) \in Seq(AuditRow)
           /\ Len(Forgotten(log, s)) = Len(log)
<1>1. \A i \in 1..Len(log) : log[i] \in AuditRow
  OBVIOUS
<1>2. \A i \in 1..Len(log) :
         (IF log[i].by = s THEN [log[i] EXCEPT !.by = NULL] ELSE log[i])
         \in AuditRow
  BY <1>1, RowUpdates
<1> QED  BY <1>2 DEF Forgotten

\* The same for the decisions of a request.
ForgottenRows(rows, s) == [i \in 1..Len(rows) |->
    IF rows[i].by = s THEN [rows[i] EXCEPT !.by = NULL] ELSE rows[i]]

LEMMA ForgottenRowsType ==
    ASSUME NEW rows \in Seq(DecisionRow), NEW s
    PROVE  /\ ForgottenRows(rows, s) \in Seq(DecisionRow)
           /\ Len(ForgottenRows(rows, s)) = Len(rows)
<1>1. \A i \in 1..Len(rows) : rows[i] \in DecisionRow
  OBVIOUS
<1>2. \A i \in 1..Len(rows) :
         (IF rows[i].by = s THEN [rows[i] EXCEPT !.by = NULL] ELSE rows[i])
         \in DecisionRow
  BY <1>1, RowUpdates
<1> QED  BY <1>2 DEF ForgottenRows

\* A read outside the transaction only fills in the row read.
LEMMA ReadType ==
    ASSUME TypeOK, NEW h \in Handlers,
           \/ GetStaffByUUID(h) \/ GetTarget(h) \/ GetApprovalRequest(h)
           \/ ListCICDCredentials(h)
    PROVE  /\ UNCHANGED <<tables, maker, approvers>>
           /\ handler[h] \in Calls
           /\ handler'[h] \in Calls /\ handler'[h].by = handler[h].by
           /\ handler'[h].op = handler[h].op
           /\ handler' = [handler EXCEPT ![h] = handler'[h]]
           /\ handler' \in [Handlers -> Calls \cup {NULL}]
<1> DEFINE c == handler[h]
<1>0. c \in Calls
  BY DEF TypeOK, GetStaffByUUID, GetTarget, GetApprovalRequest,
         ListCICDCredentials, ReadExisting
<1>1. CASE GetStaffByUUID(h)
  <2>1. c \in StaffDeletes
    BY <1>0, <1>1, CallKinds DEF GetStaffByUUID, ReadExisting
  <2>2. [c EXCEPT !.existing = Found] \in StaffDeletes
    BY <2>1 DEF StaffDeletes
  <2>3. handler' = [handler EXCEPT ![h] = [c EXCEPT !.existing = Found]]
    BY <1>1 DEF GetStaffByUUID, ReadExisting
  <2> QED  BY <1>0, <1>1, <2>1, <2>2, <2>3, KindsAreCalls
             DEF GetStaffByUUID, ReadExisting, TypeOK, StaffDeletes
<1>2. CASE GetTarget(h)
  <2>1. c \in TargetDeletes
    BY <1>0, <1>2, CallKinds DEF GetTarget, ReadExisting
  <2>2. [c EXCEPT !.existing = Found] \in TargetDeletes
    BY <2>1 DEF TargetDeletes
  <2>3. handler' = [handler EXCEPT ![h] = [c EXCEPT !.existing = Found]]
    BY <1>2 DEF GetTarget, ReadExisting
  <2> QED  BY <1>0, <1>2, <2>1, <2>2, <2>3, KindsAreCalls
             DEF GetTarget, ReadExisting, TypeOK, TargetDeletes
<1>3. CASE GetApprovalRequest(h)
  <2> DEFINE v == request[c.uuid].status
  <2>1. c \in Decides
    BY <1>0, <1>3, CallKinds DEF GetApprovalRequest, ReadExisting
  <2>2. v \in {"pending"} \cup Decisions
    BY <2>1 DEF TypeOK, Decides, RequestRow
  <2>3. [c EXCEPT !.existing = v] \in Decides
    BY <2>1, <2>2 DEF Decides
  <2>4. handler' = [handler EXCEPT ![h] = [c EXCEPT !.existing = v]]
    BY <1>3 DEF GetApprovalRequest, ReadExisting
  <2> HIDE DEF v
  <2> QED  BY <1>0, <1>3, <2>1, <2>3, <2>4, KindsAreCalls
             DEF GetApprovalRequest, ReadExisting, TypeOK, Decides
<1>4. CASE ListCICDCredentials(h)
  <2>1. c \in Revokes
    BY <1>0, <1>4, CallKinds DEF ListCICDCredentials, ReadExisting
  <2>2. [c EXCEPT !.existing = Found] \in Revokes
    BY <2>1 DEF Revokes
  <2>3. handler' = [handler EXCEPT ![h] = [c EXCEPT !.existing = Found]]
    BY <1>4 DEF ListCICDCredentials, ReadExisting
  <2> QED  BY <1>0, <1>4, <2>1, <2>2, <2>3, KindsAreCalls
             DEF ListCICDCredentials, ReadExisting, TypeOK, Revokes
<1> QED  BY <1>1, <1>2, <1>3, <1>4

\* The types after every step.
LEMMA TypeStep == TypeOK /\ [Next]_vars => TypeOK'
<1> SUFFICES ASSUME TypeOK, [Next]_vars PROVE TypeOK'
  OBVIOUS
<1> USE NULLAssumption, ProfilesAssumption, BoundsAssumption
<1>1. CASE \E s \in Staff, p \in Profiles : RunCreateStaff(s, p)
  <2> PICK s \in Staff, p \in Profiles : RunCreateStaff(s, p)
    BY <1>1
  <2>1. [row |-> "live", role |-> p.role, workflowRole |-> p.workflowRole]
        \in StaffRow
    BY DEF StaffRow, Rows
  <2> QED  BY <2>1 DEF RunCreateStaff, CreateStaff, TypeOK
<1>2. CASE \E s \in Staff : LoginSubmit(s) \/ SessionEnds(s)
  BY <1>2 DEF LoginSubmit, SessionEnds, TypeOK
<1>3. ASSUME NEW h \in Handlers, NEW s \in session, NEW c \in Requested(s),
             Arrive(h, c)
      PROVE  TypeOK'
  BY <1>3 DEF Arrive, Requested, TypeOK, tables
<1>4. ASSUME NEW h \in Handlers, Rollback(h) PROVE TypeOK'
  BY <1>4 DEF Rollback, TypeOK, tables
<1>5. ASSUME NEW h \in Handlers, NEW s \in Staff, CreateStaffForm(h, s)
      PROVE  TypeOK'
  <2>1. handler[h] \in StaffCreates
    BY <1>5, CallKinds DEF CreateStaffForm, Ready, TypeOK
  <2>2. audit' \in Seq(AuditRow)
    BY <1>5, <2>1 DEF CreateStaffForm, RecordAudit, Entry, AuditRow, Ids,
         StaffCreates, TypeOK, AllOperations
  <2>3. staff' \in [Staff -> StaffRow]
    BY <1>5, <2>1 DEF CreateStaffForm, CreateStaff, StaffCreates, TypeOK,
         StaffRow, Rows
  <2> QED  BY <1>5, <2>2, <2>3 DEF CreateStaffForm, Answered, TypeOK, AuditRow
<1>6. ASSUME NEW h \in Handlers, GetStaffByUUID(h) \/ GetTarget(h)
             \/ GetApprovalRequest(h) \/ ListCICDCredentials(h)
      PROVE  TypeOK'
  BY <1>6, ReadType DEF TypeOK, tables
<1>7. ASSUME NEW h \in Handlers, DeleteStaffForm(h) PROVE TypeOK'
  <2> DEFINE u == handler[h].uuid
  <2>1. handler[h] \in StaffDeletes
    BY <1>7, CallKinds DEF DeleteStaffForm, Ready, TypeOK
  <2>1a. u \in Staff /\ handler[h].by \in Staff  BY <2>1 DEF StaffDeletes
  <2>2. audit' \in Seq(AuditRow)
    <3>1. Forgotten(audit, u) \in Seq(AuditRow)
      BY ForgottenType DEF TypeOK, AuditRow
    <3>2. Entry("staff.delete", handler[h].by, u, NULL, NULL) \in AuditRow
      BY <2>1a DEF Entry, AuditRow, Ids, AllOperations
    <3>3. audit' = Append(Forgotten(audit, u),
                     Entry("staff.delete", handler[h].by, u, NULL, NULL))
      BY <1>7 DEF DeleteStaffForm, DeleteStaff
    <3> QED  BY <3>1, <3>2, <3>3
  <2>3. staff' \in [Staff -> StaffRow] /\ session' \subseteq Staff
    BY <1>7, <2>1a, RowUpdates DEF DeleteStaffForm, DeleteStaff, TypeOK
  <2>4. request' \in [Requests -> RequestRow]
    BY <1>7, RowUpdates DEF DeleteStaffForm, Forget, TypeOK
  <2>5. decision' \in [Requests -> Seq(DecisionRow)]
    <3>1. decision' = [q \in Requests |-> ForgottenRows(decision[q], u)]
      BY <1>7 DEF DeleteStaffForm, Forget, ForgottenRows
    <3> QED  BY <3>1, ForgottenRowsType DEF TypeOK
  <2> QED  BY <1>7, <2>2, <2>3, <2>4, <2>5
             DEF DeleteStaffForm, Answered, TypeOK
<1>8. ASSUME NEW h \in Handlers, NEW t \in Targets, CreateTargetForm(h, t)
      PROVE  TypeOK'
  <2>1. handler[h] \in Calls /\ handler[h].by \in Staff
    BY <1>8, CallKinds DEF CreateTargetForm, Ready, TypeOK
  <2>2. audit' \in Seq(AuditRow)
    BY <1>8, <2>1 DEF CreateTargetForm, Ready, RecordAudit, Entry, AuditRow, Ids,
         TypeOK, AllOperations
  <2> QED  BY <1>8, <2>2 DEF CreateTargetForm, Answered, TypeOK, Rows
<1>9. ASSUME NEW h \in Handlers, DeleteTargetForm(h) PROVE TypeOK'
  <2>1. handler[h] \in TargetDeletes
    BY <1>9, CallKinds DEF DeleteTargetForm, Ready, TypeOK
  <2>2. audit' \in Seq(AuditRow)
    BY <1>9, <2>1 DEF DeleteTargetForm, Ready, RecordAudit, Entry, AuditRow, Ids,
         TypeOK, AllOperations, TargetDeletes
  <2>3. request' \in [Requests -> RequestRow]
    BY <1>9, RowUpdates DEF DeleteTargetForm, Cascade, TypeOK
  <2>4. decision' \in [Requests -> Seq(DecisionRow)]
    BY <1>9 DEF DeleteTargetForm, Cascade, TypeOK
  <2>5. credential' \in [Credentials -> CredentialRow]
    BY <1>9, RowUpdates DEF DeleteTargetForm, Cascade, TypeOK
  <2>6. target' \in [Targets -> Rows]
    BY <1>9, <2>1 DEF DeleteTargetForm, TypeOK, Rows
  <2> QED  BY <1>9, <2>2, <2>3, <2>4, <2>5, <2>6
             DEF DeleteTargetForm, Answered, TypeOK
<1>10. ASSUME NEW h \in Handlers, NEW q \in Requests,
              CreateApprovalRequest(h, q)
       PROVE  TypeOK'
  <2>1. handler[h] \in RequestCreates
    BY <1>10, CallKinds DEF CreateApprovalRequest, Ready, TypeOK
  <2>2. audit' \in Seq(AuditRow)
    BY <1>10, <2>1 DEF CreateApprovalRequest, Ready, RecordAudit, Entry,
         AuditRow, Ids, TypeOK, AllOperations, RequestCreates
  <2>3. [row |-> "live", target |-> handler[h].target,
         requestedBy |-> handler[h].by, required |-> handler[h].required,
         status |-> "pending"] \in RequestRow
    BY <2>1 DEF RequestRow, RequestCreates, Rows
  <2>4. request' \in [Requests -> RequestRow]
    BY <1>10, <2>3 DEF CreateApprovalRequest, TypeOK
  <2>5. maker' \in [Requests -> Staff \cup {NULL}]
    BY <1>10, <2>1 DEF CreateApprovalRequest, TypeOK, RequestCreates
  <2> QED  BY <1>10, <2>2, <2>4, <2>5 DEF CreateApprovalRequest, Answered,
             TypeOK
<1>11. ASSUME NEW h \in Handlers, RecordApprovalDecision(h) PROVE TypeOK'
  <2> DEFINE c == handler[h]
             rows == Append(decision[c.uuid],
                            [by |-> c.by, decision |-> c.decision])
             status == Outcome(c.decision, rows, request[c.uuid].required)
  <2>1. c \in Decides
    BY <1>11, CallKinds DEF RecordApprovalDecision, Ready, TypeOK
  <2>2. c.uuid \in Requests /\ c.by \in Staff /\ c.decision \in Decisions
        /\ c.existing \in {Unread, "pending"} \cup Decisions
        /\ c.op \in AllOperations
    BY <2>1 DEF Decides, AllOperations
  <2>3. status \in {"pending"} \cup Decisions
    BY DEF Outcome, Decisions
  <2>4. rows \in Seq(DecisionRow)
    <3>1. [by |-> c.by, decision |-> c.decision] \in DecisionRow
      BY <2>2 DEF DecisionRow
    <3> QED  BY <2>2, <3>1 DEF TypeOK
  <2>5. /\ decision' = [decision EXCEPT ![c.uuid] = rows]
        /\ request' = [request EXCEPT ![c.uuid] =
                          [request[c.uuid] EXCEPT !.status = status]]
        /\ audit' = Append(audit, Entry(c.op, c.by, c.uuid, c.existing, status))
    BY <1>11 DEF RecordApprovalDecision, RecordAudit
  <2> HIDE DEF status, rows
  <2>6. audit' \in Seq(AuditRow)
    BY <2>2, <2>3, <2>5 DEF Entry, AuditRow, Ids, TypeOK
  <2>7. decision' \in [Requests -> Seq(DecisionRow)]
    BY <2>4, <2>5 DEF TypeOK
  <2>8. request' \in [Requests -> RequestRow]
    BY <2>2, <2>3, <2>5, RowUpdates DEF TypeOK
  <2>9. approvers' \in [Requests -> SUBSET Staff]
    BY <1>11, <2>2 DEF RecordApprovalDecision, TypeOK
  <2> QED  BY <1>11, <2>6, <2>7, <2>8, <2>9 DEF RecordApprovalDecision,
             Answered, TypeOK
<1>12. ASSUME NEW h \in Handlers, NEW k \in Credentials,
              CreateCICDCredentialForm(h, k)
       PROVE  TypeOK'
  <2>1. handler[h] \in CredentialCreates
    BY <1>12, CallKinds DEF CreateCICDCredentialForm, Ready, TypeOK
  <2>2. audit' \in Seq(AuditRow)
    BY <1>12, <2>1 DEF CreateCICDCredentialForm, Ready, RecordAudit, Entry,
         AuditRow, Ids, TypeOK, AllOperations, CredentialCreates
  <2>3. [row |-> "live", target |-> handler[h].target, revoked |-> FALSE]
        \in CredentialRow
    BY <2>1 DEF CredentialCreates, CredentialRow, Rows
  <2> QED  BY <1>12, <2>2, <2>3 DEF CreateCICDCredentialForm, Answered, TypeOK
<1>13. ASSUME NEW h \in Handlers, RevokeCICDCredentialForm(h) PROVE TypeOK'
  <2>1. handler[h] \in Revokes
    BY <1>13, CallKinds DEF RevokeCICDCredentialForm, Ready, TypeOK
  <2>2. audit' \in Seq(AuditRow)
    BY <1>13, <2>1 DEF RevokeCICDCredentialForm, Ready, RecordAudit, Entry,
         AuditRow, Ids, TypeOK, AllOperations, Revokes
  <2>3. credential' \in [Credentials -> CredentialRow]
    <3>1. credential' = [credential EXCEPT ![handler[h].uuid] =
                           [credential[handler[h].uuid] EXCEPT !.revoked = TRUE]]
      BY <1>13 DEF RevokeCICDCredentialForm
    <3> QED  BY <2>1, <3>1, RowUpdates DEF TypeOK, Revokes
  <2> QED  BY <1>13, <2>2, <2>3 DEF RevokeCICDCredentialForm, Answered, TypeOK
<1>14. CASE UNCHANGED vars
  BY <1>14 DEF vars, tables, TypeOK
<1> QED  BY <1>1, <1>2, <1>3, <1>4, <1>5, <1>6, <1>7, <1>8, <1>9, <1>10,
            <1>11, <1>12, <1>13, <1>14 DEF Next

\* The columns of opentea-publisher's tables and the values its handlers
\* carry keep their types.
THEOREM TypeCorrect == Spec => []TypeOK
<1>1. Init => TypeOK
  BY DEF Init, TypeOK, StaffRow, RequestRow, CredentialRow, Rows, Roles, WorkflowRoles, Decisions
<1> QED  BY <1>1, TypeStep, PTL DEF Spec

-----------------------------------------------------------------------------
(* Accounts: a UUID's role is fixed when its row is inserted, and a deleted *)
(* row never comes back.                                                   *)

AccountsKept ==
    \A s \in Staff : staff[s].row # "unused" =>
        /\ staff'[s].role = staff[s].role
        /\ staff'[s].workflowRole = staff[s].workflowRole
        /\ staff'[s].row # "unused"
        /\ staff[s].row = "deleted" => staff'[s].row = "deleted"

\* The three statements that touch the staff table.
LEMMA AccountStep ==
    ASSUME TypeOK, [Next]_vars
    PROVE  /\ AccountsKept
           /\ \/ UNCHANGED staff
              \/ \E s \in Staff, p \in Profiles : CreateStaff(s, p)
              \/ \E h \in Handlers, s \in Staff :
                    /\ handler[h] # NULL /\ handler[h].uuid = s
                    /\ DeleteStaff(h, s) /\ DeleteStaffForm(h)
<1>1. CASE UNCHANGED staff
  BY <1>1 DEF AccountsKept
<1>2. ASSUME NEW s \in Staff, NEW p \in Profiles, CreateStaff(s, p)
      PROVE  AccountsKept
  BY <1>2 DEF CreateStaff, AccountsKept, TypeOK
<1>3. ASSUME NEW h \in Handlers, NEW s \in Staff, DeleteStaff(h, s)
      PROVE  AccountsKept
  BY <1>3 DEF DeleteStaff, AccountsKept, TypeOK, StaffRow
<1>4. ASSUME NEW h \in Handlers, DeleteStaffForm(h)
      PROVE  /\ handler[h].uuid \in Staff /\ handler[h] # NULL
             /\ DeleteStaff(h, handler[h].uuid)
  <2>1. handler[h] \in StaffDeletes
    BY <1>4, CallKinds DEF DeleteStaffForm, Ready, TypeOK
  <2> QED  BY <1>4, <2>1 DEF DeleteStaffForm, StaffDeletes, Ready
<1>5. ASSUME NEW h \in Handlers, NEW s \in Staff, CreateStaffForm(h, s)
      PROVE  \E p \in Profiles : CreateStaff(s, p)
  <2>1. handler[h] \in StaffCreates
    BY <1>5, CallKinds DEF CreateStaffForm, Ready, TypeOK
  <2> QED  BY <1>5, <2>1 DEF CreateStaffForm, StaffCreates
<1>6. \/ UNCHANGED staff
      \/ \E s \in Staff, p \in Profiles : CreateStaff(s, p)
      \/ \E h \in Handlers : DeleteStaffForm(h)
  BY <1>5 DEF Next, vars, tables, RunCreateStaff, LoginSubmit, SessionEnds,
     Arrive, Rollback, GetStaffByUUID, GetTarget, GetApprovalRequest,
     ListCICDCredentials, ReadExisting, CreateTargetForm, DeleteTargetForm,
     CreateApprovalRequest, RecordApprovalDecision, CreateCICDCredentialForm,
     RevokeCICDCredentialForm
<1> QED  BY <1>1, <1>2, <1>3, <1>4, <1>6

\* If a is the only live admin, the count of DeleteStaff is 1.
LEMMA OtherAdmin ==
    ASSUME NEW a \in Staff, staff[a].role = "admin", Live(a), ~ ErrLastAdmin(a)
    PROVE  \E b \in Staff : b # a /\ Live(b) /\ staff[b].role = "admin"
<1> DEFINE admins == {b \in Staff : Live(b) /\ staff[b].role = "admin"}
<1> SUFFICES ASSUME \A b \in admins : b = a PROVE FALSE
  OBVIOUS
<1>1. admins = {a}
  OBVIOUS
<1>2. Cardinality(admins) = 1
  BY <1>1, FS_Singleton
<1> QED  BY <1>2 DEF ErrLastAdmin

\* DeleteStaff never leaves a deployment without an admin, whatever handlers
\* run at the same time, for any number of accounts.
THEOREM AdminRemainsHolds == Spec => []AdminRemains
<1>1. Init => AdminRemains
  BY DEF Init, AdminRemains
<1>2. TypeOK /\ AdminRemains /\ [Next]_vars => AdminRemains'
  <2> SUFFICES ASSUME TypeOK, AdminRemains, [Next]_vars PROVE AdminRemains'
    OBVIOUS
  <2>1. CASE UNCHANGED staff
    BY <2>1 DEF AdminRemains, Live
  <2>2. ASSUME NEW s \in Staff, NEW p \in Profiles, CreateStaff(s, p)
        PROVE  AdminRemains'
    BY <2>2 DEF CreateStaff, AdminRemains, Live, TypeOK
  <2>3. ASSUME NEW h \in Handlers, NEW s \in Staff, DeleteStaff(h, s)
        PROVE  AdminRemains'
    <3>1. \A b \in Staff : b # s => staff'[b] = staff[b]
      BY <2>3 DEF DeleteStaff, TypeOK
    <3>2. staff'[s].role = staff[s].role /\ Live(s) /\ ~ ErrLastAdmin(s)
      BY <2>3 DEF DeleteStaff, TypeOK, StaffRow
    <3>3. CASE staff[s].role = "admin"
      BY <3>1, <3>2, <3>3, OtherAdmin DEF AdminRemains, Live
    <3>4. CASE staff[s].role # "admin"
      BY <3>1, <3>2, <3>4 DEF AdminRemains, Live
    <3> QED  BY <3>3, <3>4
  <2> QED  BY <2>1, <2>2, <2>3, AccountStep
<1> QED  BY <1>1, <1>2, TypeCorrect, PTL DEF Spec

-----------------------------------------------------------------------------
(* Sessions, and what a handler that passed its gate may rely on.          *)

SessionsLive == \A s \in session : Live(s)

\* A handler that decides runs for an account with the approver's role.
HandlersGated ==
    \A h \in Handlers :
        handler[h] # NULL /\ handler[h].op = "approval_request.decide" =>
        /\ staff[handler[h].by].row # "unused"
        /\ staff[handler[h].by].workflowRole = "security_compliance_approver"

\* The steps that change the session table.
LEMMA SessionStep ==
    ASSUME TypeOK, SessionsLive, [Next]_vars PROVE SessionsLive'
<1>1. CASE UNCHANGED <<session, staff>>
  BY <1>1 DEF SessionsLive, Live
<1>2. ASSUME NEW s \in Staff, NEW p \in Profiles, CreateStaff(s, p),
             UNCHANGED session
      PROVE  SessionsLive'
  BY <1>2 DEF CreateStaff, SessionsLive, Live, TypeOK
<1>3. CASE \E s \in Staff : LoginSubmit(s) \/ SessionEnds(s)
  BY <1>3 DEF LoginSubmit, SessionEnds, SessionsLive, Live
<1>4. ASSUME NEW h \in Handlers, DeleteStaffForm(h) PROVE SessionsLive'
  BY <1>4 DEF DeleteStaffForm, DeleteStaff, SessionsLive, Live, TypeOK
<1>5. ASSUME NEW h \in Handlers, NEW s \in Staff, CreateStaffForm(h, s)
      PROVE  SessionsLive'
  <2>1. handler[h] \in StaffCreates
    BY <1>5, CallKinds DEF CreateStaffForm, Ready, TypeOK
  <2> QED  BY <1>2, <1>5, <2>1 DEF CreateStaffForm, StaffCreates
<1> QED
  BY <1>1, <1>2, <1>3, <1>4, <1>5 DEF Next, vars, tables, RunCreateStaff,
     Arrive, Rollback, GetStaffByUUID, GetTarget, GetApprovalRequest,
     ListCICDCredentials, ReadExisting, CreateTargetForm, DeleteTargetForm,
     CreateApprovalRequest, RecordApprovalDecision, CreateCICDCredentialForm,
     RevokeCICDCredentialForm

\* The handlers after a step: one arrived, read, or was answered.
LEMMA HandlerStep ==
    ASSUME TypeOK, [Next]_vars, NEW g \in Handlers, handler'[g] # NULL
    PROVE  \/ handler'[g] = handler[g]
           \/ /\ handler[g] # NULL /\ handler'[g].by = handler[g].by
              /\ handler'[g].op = handler[g].op
           \/ /\ handler'[g].by \in session /\ UNCHANGED tables
              /\ Permitted(handler'[g].by, handler'[g].op)
<1>1. ASSUME NEW h \in Handlers, handler' = [handler EXCEPT ![h] = NULL]
      PROVE  handler'[g] = handler[g]
  BY <1>1 DEF TypeOK
<1>2. CASE UNCHANGED handler
  BY <1>2
<1>3. ASSUME NEW h \in Handlers, NEW s \in session, NEW c \in Requested(s),
             Arrive(h, c)
      PROVE  \/ handler'[g] = handler[g]
             \/ /\ handler'[g].by \in session /\ UNCHANGED tables
                /\ Permitted(handler'[g].by, handler'[g].op)
  BY <1>3 DEF Arrive, TypeOK
<1>4. ASSUME NEW h \in Handlers, GetStaffByUUID(h) \/ GetTarget(h)
             \/ GetApprovalRequest(h) \/ ListCICDCredentials(h)
      PROVE  \/ handler'[g] = handler[g]
             \/ /\ handler[g] # NULL /\ handler'[g].by = handler[g].by
                /\ handler'[g].op = handler[g].op
  <2>1. handler' = [handler EXCEPT ![h] = handler'[h]]
        /\ handler'[h].by = handler[h].by /\ handler'[h].op = handler[h].op
    BY <1>4, ReadType
  <2>2. handler[h] # NULL
    BY <1>4 DEF GetStaffByUUID, GetTarget, GetApprovalRequest,
       ListCICDCredentials, ReadExisting
  <2> QED  BY <2>1, <2>2 DEF TypeOK
<1> QED
  BY <1>1, <1>2, <1>3, <1>4 DEF Next, vars, RunCreateStaff, LoginSubmit,
     SessionEnds, Rollback, CreateStaffForm, DeleteStaffForm, CreateTargetForm,
     DeleteTargetForm, CreateApprovalRequest, RecordApprovalDecision,
     CreateCICDCredentialForm, RevokeCICDCredentialForm, Answered

\* The role a handler was let in with is still its account's role.
LEMMA GatedStep ==
    ASSUME TypeOK, SessionsLive, HandlersGated, [Next]_vars
    PROVE  HandlersGated'
<1> SUFFICES ASSUME NEW g \in Handlers, handler'[g] # NULL,
                    handler'[g].op = "approval_request.decide"
             PROVE  /\ staff'[handler'[g].by].row # "unused"
                    /\ staff'[handler'[g].by].workflowRole
                         = "security_compliance_approver"
  BY DEF HandlersGated
<1> DEFINE s == handler'[g].by
<1>1. s \in Staff
  <2>1. handler'[g] \in Calls
    BY TypeStep DEF TypeOK
  <2> QED  BY <2>1, CallKinds
<1>2. AccountsKept
  BY AccountStep
<1>3. CASE handler[g] # NULL /\ handler[g].by = s
           /\ handler[g].op = "approval_request.decide"
  BY <1>1, <1>2, <1>3 DEF HandlersGated, AccountsKept
<1>4. CASE /\ s \in session /\ UNCHANGED tables
           /\ Permitted(s, "approval_request.decide")
  BY <1>4 DEF SessionsLive, Live, Permitted, tables
<1> QED  BY <1>3, <1>4, HandlerStep

-----------------------------------------------------------------------------
(* Makers and approvers.                                                   *)

\* Who made a request is known while the account exists; once its row is gone
\* it can decide nothing.  Every counted approval is one that was given.
QuorumAt(q) ==
    /\ request[q].row = "unused" => approvers[q] = {}
    /\ request[q].row # "unused" =>
          /\ maker[q] \in Staff
          /\ staff[maker[q]].row # "unused"
          /\ request[q].requestedBy = maker[q]
             \/ staff[maker[q]].row = "deleted"
    /\ Approving(decision[q]) \subseteq approvers[q]
    /\ \A s \in approvers[q] :
          /\ s # maker[q]
          /\ staff[s].row # "unused"
          /\ staff[s].workflowRole = "security_compliance_approver"
    /\ request[q].status = "approved" =>
          Cardinality(approvers[q]) >= request[q].required

QuorumInv == \A q \in Requests : QuorumAt(q)

\* The steps that change requests, decisions and their history.
LEMMA RequestStep ==
    ASSUME [Next]_vars
    PROVE  \/ UNCHANGED <<request, decision, maker, approvers>>
           \/ \E h \in Handlers : DeleteStaffForm(h)
           \/ \E h \in Handlers : DeleteTargetForm(h)
           \/ \E h \in Handlers, q \in Requests : CreateApprovalRequest(h, q)
           \/ \E h \in Handlers : RecordApprovalDecision(h)
  BY DEF Next, vars, tables, RunCreateStaff, LoginSubmit, SessionEnds, Arrive,
     Rollback, CreateStaffForm, GetStaffByUUID, GetTarget, GetApprovalRequest,
     ListCICDCredentials, ReadExisting, CreateTargetForm,
     CreateCICDCredentialForm, RevokeCICDCredentialForm

\* Deleting an account can only lower the count of approvals.
LEMMA ForgottenApprovals ==
    ASSUME NEW rows \in Seq(DecisionRow), NEW u \in Staff
    PROVE  Approving(ForgottenRows(rows, u)) \subseteq Approving(rows)
<1> DEFINE left == ForgottenRows(rows, u)
<1>1. Len(left) = Len(rows)
  BY ForgottenRowsType
<1>2. ASSUME NEW i \in 1..Len(rows), left[i].by # NULL
      PROVE  left[i] = rows[i]
  <2>1. rows[i] \in DecisionRow
    OBVIOUS
  <2>2. [rows[i] EXCEPT !.by = NULL].by = NULL
    BY <2>1 DEF DecisionRow
  <2> QED  BY <1>2, <2>2 DEF ForgottenRows
<1> HIDE DEF left
<1>3. Approving(left) \subseteq Approving(rows)
  BY <1>1, <1>2, NULLAssumption DEF Approving
<1> QED  BY <1>3 DEF left

\* One decision adds at most its own account to the approving ones.
LEMMA AppendedApproval ==
    ASSUME NEW rows \in Seq(DecisionRow), NEW s \in Staff,
           NEW d \in Decisions
    PROVE  Approving(Append(rows, [by |-> s, decision |-> d]))
             \subseteq Approving(rows) \cup
                       (IF d = "approved" THEN {s} ELSE {})
  BY DEF Approving, DecisionRow

LEMMA QuorumStep ==
    ASSUME TypeOK, SessionsLive, HandlersGated, QuorumInv, [Next]_vars
    PROVE  QuorumInv'
<1> SUFFICES ASSUME NEW q \in Requests PROVE QuorumAt(q)'
  BY DEF QuorumInv
<1>0. QuorumAt(q) /\ AccountsKept /\ TypeOK'
  BY AccountStep, TypeStep DEF QuorumInv
<1>a. approvers[q] \subseteq Staff
  BY DEF TypeOK
<1>1. CASE UNCHANGED <<request, decision, maker, approvers>>
  BY <1>0, <1>1, <1>a DEF QuorumAt, AccountsKept, Approving
<1>2. ASSUME NEW h \in Handlers, DeleteStaffForm(h) PROVE QuorumAt(q)'
  <2> DEFINE u == handler[h].uuid
  <2>1. handler[h] \in StaffDeletes
    BY <1>2, CallKinds DEF DeleteStaffForm, Ready, TypeOK
  <2>2. u \in Staff  BY <2>1 DEF StaffDeletes
  <2>3. /\ decision'[q] = ForgottenRows(decision[q], u)
        /\ UNCHANGED <<maker, approvers>>
        /\ staff'[u].row = "deleted"
    BY <1>2, <2>2 DEF DeleteStaffForm, DeleteStaff, Forget, ForgottenRows,
         TypeOK, StaffRow
  <2>4. /\ request'[q].row = request[q].row
        /\ request'[q].status = request[q].status
        /\ request'[q].required = request[q].required
        /\ request'[q].requestedBy = request[q].requestedBy
           \/ request[q].requestedBy = u
    BY <1>2 DEF DeleteStaffForm, Forget, TypeOK, RequestRow
  <2>5. Approving(decision[q])' \subseteq Approving(decision[q])
    <3>1. decision[q] \in Seq(DecisionRow)  BY DEF TypeOK
    <3>2. Approving(ForgottenRows(decision[q], u)) \subseteq Approving(decision[q])
      BY <2>2, <3>1, ForgottenApprovals
    <3>3. Approving(decision[q])' = Approving(decision'[q])
      BY DEF Approving
    <3> QED  BY <2>3, <3>2, <3>3
  <2> QED  BY <1>0, <1>a, <2>2, <2>3, <2>4, <2>5 DEF QuorumAt, AccountsKept
<1>3. ASSUME NEW h \in Handlers, DeleteTargetForm(h) PROVE QuorumAt(q)'
  <2>1. /\ UNCHANGED <<maker, approvers>>
        /\ decision'[q] = decision[q] \/ decision'[q] = <<>>
        /\ request'[q].row = "unused" <=> request[q].row = "unused"
        /\ request'[q].status = request[q].status
        /\ request'[q].required = request[q].required
        /\ request'[q].requestedBy = request[q].requestedBy
    BY <1>3 DEF DeleteTargetForm, Cascade, TypeOK, RequestRow
  <2>2. Approving(decision[q])' \subseteq Approving(decision[q])
    BY <2>1 DEF Approving
  <2> QED  BY <1>0, <1>a, <2>1, <2>2 DEF QuorumAt, AccountsKept
<1>4. ASSUME NEW h \in Handlers, NEW r \in Requests,
             CreateApprovalRequest(h, r)
      PROVE  QuorumAt(q)'
  <2>1. handler[h] \in RequestCreates
    BY <1>4, CallKinds DEF CreateApprovalRequest, Ready, TypeOK
  <2>2. UNCHANGED <<decision, approvers, staff>>
        /\ Approving(decision[q])' = Approving(decision[q])
    BY <1>4 DEF CreateApprovalRequest, Approving
  <2>3. CASE r = q
    <3>1. /\ request'[q].row = "live" /\ request'[q].status = "pending"
          /\ request'[q].requestedBy = handler[h].by
          /\ maker'[q] = handler[h].by
          /\ request[q].row = "unused"
          /\ handler[h].by \in Staff /\ Live(handler[h].by)
      BY <1>4, <2>1, <2>3 DEF CreateApprovalRequest, TypeOK, RequestCreates,
           StillExists
    <3> QED  BY <1>0, <2>2, <3>1 DEF QuorumAt, Live
  <2>4. CASE r # q
    BY <1>0, <1>4, <2>2, <2>4 DEF CreateApprovalRequest, QuorumAt, TypeOK
  <2> QED  BY <2>3, <2>4
<1>5. ASSUME NEW h \in Handlers, RecordApprovalDecision(h) PROVE QuorumAt(q)'
  <2> DEFINE c == handler[h]
             row == [by |-> c.by, decision |-> c.decision]
             rows == Append(decision[c.uuid], row)
             status == Outcome(c.decision, rows, request[c.uuid].required)
  <2>1. c \in Decides /\ c # NULL /\ c.op = "approval_request.decide"
    BY <1>5, CallKinds DEF RecordApprovalDecision, Ready, TypeOK
  <2>2. c.uuid \in Requests /\ c.by \in Staff /\ c.decision \in Decisions
    BY <2>1 DEF Decides
  <2>3. /\ decision' = [decision EXCEPT ![c.uuid] = rows]
        /\ request' = [request EXCEPT ![c.uuid] =
                          [request[c.uuid] EXCEPT !.status = status]]
        /\ approvers' = [approvers EXCEPT ![c.uuid] =
              IF c.decision = "approved" THEN approvers[c.uuid] \cup {c.by}
              ELSE approvers[c.uuid]]
        /\ UNCHANGED <<maker, staff>>
        /\ request[c.uuid].row = "live" /\ Live(c.by)
        /\ c.by # request[c.uuid].requestedBy
    BY <1>5 DEF RecordApprovalDecision, StillExists, ErrSelfApproval
  <2>4. CASE c.uuid # q
    <3>1. /\ decision'[q] = decision[q] /\ request'[q] = request[q]
          /\ approvers'[q] = approvers[q]
      BY <2>2, <2>3, <2>4 DEF TypeOK
    <3>2. Approving(decision[q])' = Approving(decision[q])
      BY <3>1 DEF Approving
    <3> QED  BY <1>0, <2>3, <3>1, <3>2 DEF QuorumAt
  <2>5. CASE c.uuid = q
    <3>1. /\ request'[q].row = request[q].row
          /\ request'[q].requestedBy = request[q].requestedBy
          /\ request'[q].required = request[q].required
          /\ request'[q].status = status
      BY <2>2, <2>3, <2>5 DEF TypeOK, RequestRow
    <3>2. decision'[q] = rows
      BY <2>2, <2>3, <2>5 DEF TypeOK
    <3>3. approvers'[q] = approvers[q] \cup
                          (IF c.decision = "approved" THEN {c.by} ELSE {})
      BY <2>2, <2>3, <2>5 DEF TypeOK
    <3>4. Approving(rows) \subseteq approvers'[q]
      <4>1. decision[q] \in Seq(DecisionRow)  BY DEF TypeOK
      <4>2. Approving(rows) \subseteq Approving(decision[q]) \cup
                          (IF c.decision = "approved" THEN {c.by} ELSE {})
        BY <2>2, <2>5, <4>1, AppendedApproval
      <4> HIDE DEF rows
      <4> QED  BY <1>0, <3>3, <4>2 DEF QuorumAt
    <3>5. c.by # maker[q]
      BY <1>0, <2>2, <2>3, <2>5 DEF QuorumAt, Live
    <3>6. /\ staff[c.by].row # "unused"
          /\ staff[c.by].workflowRole = "security_compliance_approver"
      BY <2>1 DEF HandlersGated
    <3>7. status = "approved" => Cardinality(approvers'[q]) >= request[q].required
      <4> SUFFICES ASSUME status = "approved"
                   PROVE  Cardinality(approvers'[q]) >= request[q].required
        OBVIOUS
      <4>1. Cardinality(Approving(rows)) >= request[q].required
        <5> HIDE DEF rows
        <5> QED  BY <2>5 DEF Outcome, ApprovingCount
      <4>2. approvers'[q] \subseteq Staff
        BY <1>0 DEF TypeOK
      <4>3. IsFiniteSet(approvers'[q])
        BY <4>2, StaffAssumption, FS_Subset
      <4>4. /\ Cardinality(Approving(rows)) <= Cardinality(approvers'[q])
            /\ IsFiniteSet(Approving(rows))
        BY <3>4, <4>3, FS_Subset
      <4>5. /\ Cardinality(Approving(rows)) \in Nat
            /\ Cardinality(approvers'[q]) \in Nat
            /\ request[q].required \in Nat
        BY <4>3, <4>4, FS_CardinalityType DEF TypeOK, RequestRow
      <4> HIDE DEF rows
      <4> QED  BY <4>1, <4>4, <4>5
    <3>8. Approving(decision[q])' = Approving(rows)
      BY <3>2 DEF Approving
    <3> HIDE DEF rows, status
    <3> QED  BY <1>0, <2>3, <2>5, <3>1, <3>3, <3>4, <3>5, <3>6, <3>7, <3>8
               DEF QuorumAt
  <2> QED  BY <2>4, <2>5
<1> QED  BY <1>1, <1>2, <1>3, <1>4, <1>5, RequestStep

Inv == TypeOK /\ SessionsLive /\ HandlersGated /\ QuorumInv

LEMMA InvHolds == Spec => []Inv
<1>1. Init => Inv
  <2> SUFFICES ASSUME Init PROVE Inv
    OBVIOUS
  <2>1. TypeOK
    BY DEF Init, TypeOK, StaffRow, RequestRow, CredentialRow, Rows, Roles,
           WorkflowRoles, Decisions
  <2>2. SessionsLive /\ HandlersGated
    BY DEF Init, SessionsLive, HandlersGated
  <2>3. QuorumInv
    BY DEF Init, QuorumInv, QuorumAt, Approving
  <2> QED  BY <2>1, <2>2, <2>3 DEF Inv
<1>2. Inv /\ [Next]_vars => Inv'
  BY TypeStep, SessionStep, GatedStep, QuorumStep DEF Inv
<1> QED  BY <1>1, <1>2, PTL DEF Spec

\* A request is only ever approved by as many different accounts as it asked
\* for, with the approver's role and not the maker's, for any number of
\* accounts, handlers and required approvals.
THEOREM ApprovedByQuorumHolds == Spec => []ApprovedByQuorum
<1>1. Inv => ApprovedByQuorum
  BY DEF Inv, QuorumInv, QuorumAt, ApprovedByQuorum
<1> QED  BY <1>1, InvHolds, PTL

\* A closed request is not reopened, turned or decided again: the pending
\* check is made in the transaction that records the decision.
THEOREM ClosedIsFinalHolds == Spec => ClosedIsFinal
<1> DEFINE Final == \A q \in Requests :
              request[q].row = "live" /\ request[q].status # "pending" =>
              /\ request'[q].status = request[q].status
              /\ request'[q].row = "live" =>
                    Len(decision'[q]) = Len(decision[q])
<1>1. Inv /\ [Next]_vars => Final
  <2> SUFFICES ASSUME Inv, [Next]_vars, NEW q \in Requests,
                      request[q].row = "live", request[q].status # "pending"
               PROVE  /\ request'[q].status = request[q].status
                      /\ request'[q].row = "live" =>
                            Len(decision'[q]) = Len(decision[q])
    OBVIOUS
  <2> USE DEF Inv
  <2>1. CASE UNCHANGED <<request, decision, maker, approvers>>
    BY <2>1
  <2>2. ASSUME NEW h \in Handlers, DeleteStaffForm(h)
        PROVE  /\ request'[q].status = request[q].status
               /\ Len(decision'[q]) = Len(decision[q])
    <3>1. decision'[q] = ForgottenRows(decision[q], handler[h].uuid)
      BY <2>2 DEF DeleteStaffForm, Forget, ForgottenRows
    <3>2. decision[q] \in Seq(DecisionRow)
      BY DEF TypeOK
    <3> QED  BY <2>2, <3>1, <3>2, ForgottenRowsType
               DEF DeleteStaffForm, Forget, TypeOK, RequestRow
  <2>3. ASSUME NEW h \in Handlers, DeleteTargetForm(h)
        PROVE  /\ request'[q].status = request[q].status
               /\ request'[q].row = "live" => decision'[q] = decision[q]
    BY <2>3 DEF DeleteTargetForm, Cascade, TypeOK, RequestRow
  <2>4. ASSUME NEW h \in Handlers, NEW r \in Requests,
               CreateApprovalRequest(h, r)
        PROVE  request'[q] = request[q] /\ decision' = decision
    BY <2>4 DEF CreateApprovalRequest, TypeOK
  <2>5. ASSUME NEW h \in Handlers, RecordApprovalDecision(h)
        PROVE  request'[q] = request[q] /\ decision'[q] = decision[q]
    <3>1. handler[h].uuid # q
      BY <2>5 DEF RecordApprovalDecision, Pending
    <3> QED  BY <2>5, <3>1 DEF RecordApprovalDecision, TypeOK
  <2> QED  BY <2>1, <2>2, <2>3, <2>4, <2>5, RequestStep
<1>2. Inv /\ [Next]_vars => [Final]_vars
  BY <1>1
<1> QED  BY <1>2, InvHolds, PTL DEF Spec, ClosedIsFinal

\* A handler whose account is gone commits nothing: every audit entry is
\* written by an account that exists when the entry is committed.
THEOREM NothingByTheDeletedHolds == Spec => NothingByTheDeleted
<1> DEFINE ByTheLiving == Len(audit') > Len(audit) =>
              LET by == audit'[Len(audit')].by IN
              by # NULL /\ staff'[by].row = "live"
<1>1. Inv /\ [Next]_vars => ByTheLiving
  <2> SUFFICES ASSUME Inv, [Next]_vars, Len(audit') > Len(audit)
               PROVE  audit'[Len(audit')].by # NULL
                      /\ staff'[audit'[Len(audit')].by].row = "live"
    OBVIOUS
  <2> USE DEF Inv
  <2>1. ASSUME NEW s \in Staff, NEW log \in Seq(AuditRow), NEW op, NEW id,
               NEW p, NEW r, staff'[s].row = "live",
               audit' = Append(log, Entry(op, s, id, p, r))
        PROVE  audit'[Len(audit')].by # NULL
               /\ staff'[audit'[Len(audit')].by].row = "live"
    <3>1. audit'[Len(audit')] = Entry(op, s, id, p, r)
      BY <2>1
    <3> QED  BY <2>1, <3>1, NULLAssumption DEF Entry
  <2>2. ASSUME NEW h \in Handlers, handler[h] # NULL, NEW id, NEW p, NEW r,
               RecordAudit(handler[h], id, p, r), StillExists(handler[h].by),
               AccountsKept,
               staff'[handler[h].by].row = "live" \/ UNCHANGED staff
        PROVE  audit'[Len(audit')].by # NULL
               /\ staff'[audit'[Len(audit')].by].row = "live"
    <3>1. handler[h].by \in Staff
      BY <2>2, CallKinds DEF TypeOK
    <3>2. staff'[handler[h].by].row = "live"
      BY <2>2 DEF StillExists, Live
    <3>3. audit \in Seq(AuditRow)
      BY DEF TypeOK
    <3> QED  BY <2>1, <2>2, <3>1, <3>2, <3>3 DEF RecordAudit
  <2>3. AccountsKept
    BY AccountStep
  <2>4. ASSUME NEW h \in Handlers, DeleteStaffForm(h)
        PROVE  audit'[Len(audit')].by # NULL
               /\ staff'[audit'[Len(audit')].by].row = "live"
    <3> DEFINE u == handler[h].uuid
    <3>1. handler[h].by \in Staff
      BY <2>4, CallKinds DEF DeleteStaffForm, Ready, TypeOK
    <3>2. /\ audit' = Append(Forgotten(audit, u),
                        Entry("staff.delete", handler[h].by, u, NULL, NULL))
          /\ staff' = [staff EXCEPT ![u].row = "deleted"]
          /\ Live(handler[h].by) /\ handler[h].by # u
      BY <2>4 DEF DeleteStaffForm, DeleteStaff, StillExists
    <3>3. staff'[handler[h].by].row = "live"
      BY <3>1, <3>2 DEF Live, TypeOK
    <3>4. Forgotten(audit, u) \in Seq(AuditRow)
      BY ForgottenType DEF TypeOK
    <3> QED  BY <2>1, <3>1, <3>2, <3>3, <3>4
  <2>5. ASSUME NEW h \in Handlers, NEW s \in Staff, CreateStaffForm(h, s)
        PROVE  audit'[Len(audit')].by # NULL
               /\ staff'[audit'[Len(audit')].by].row = "live"
    <3>1. handler[h].by \in Staff /\ handler[h] # NULL
      BY <2>5, CallKinds DEF CreateStaffForm, Ready, TypeOK
    <3>2. staff'[handler[h].by].row = "live"
      BY <2>5, <3>1 DEF CreateStaffForm, CreateStaff, StillExists, Live, TypeOK
    <3> QED  BY <2>2, <2>3, <2>5, <3>1, <3>2 DEF CreateStaffForm
  <2>6. CASE \E h \in Handlers :
               \/ \E t \in Targets : CreateTargetForm(h, t)
               \/ DeleteTargetForm(h)
               \/ \E q \in Requests : CreateApprovalRequest(h, q)
               \/ RecordApprovalDecision(h)
               \/ \E k \in Credentials : CreateCICDCredentialForm(h, k)
               \/ RevokeCICDCredentialForm(h)
    BY <2>2, <2>3, <2>6 DEF CreateTargetForm, DeleteTargetForm,
       CreateApprovalRequest, RecordApprovalDecision, CreateCICDCredentialForm,
       RevokeCICDCredentialForm, Ready
  <2>7. CASE UNCHANGED audit
    <3>1. Len(audit) \in Nat  BY DEF TypeOK
    <3> QED  BY <2>7, <3>1
  <2> QED
    BY <2>4, <2>5, <2>6, <2>7 DEF Next, vars, tables, RunCreateStaff,
       LoginSubmit, SessionEnds, Arrive, Rollback, GetStaffByUUID, GetTarget,
       GetApprovalRequest, ListCICDCredentials, ReadExisting
<1>2. Inv /\ [Next]_vars => [ByTheLiving]_vars
  BY <1>1
<1> QED  BY <1>2, InvHolds, PTL DEF Spec, NothingByTheDeleted

-----------------------------------------------------------------------------
(* What may be used refers to rows that exist.                             *)

\* A request that can be decided, and a credential whose row exists, have
\* their target; a request's maker is an account or NULL.
ReferencesLive ==
    /\ \A q \in Requests : request[q].row = "live" =>
          /\ request[q].target \in Targets /\ target[request[q].target] = "live"
          /\ request[q].requestedBy # NULL => Live(request[q].requestedBy)
    /\ \A k \in Credentials : credential[k].row = "live" =>
          credential[k].target \in Targets /\ target[credential[k].target] = "live"

LEMMA ReferenceStep ==
    ASSUME TypeOK, ReferencesLive, [Next]_vars PROVE ReferencesLive'
<1>a. \A q \in Requests : /\ request[q] \in RequestRow
                          /\ request[q].requestedBy \in Staff \cup {NULL}
  BY DEF TypeOK, RequestRow
<1>1. CASE UNCHANGED <<staff, target, request, credential>>
  BY <1>1 DEF ReferencesLive, Live
<1>2. ASSUME NEW s \in Staff, NEW p \in Profiles, CreateStaff(s, p),
             UNCHANGED <<target, request, credential>>
      PROVE  ReferencesLive'
  <2>1. \A u \in Staff : Live(u) => Live(u)'
    BY <1>2 DEF CreateStaff, Live, TypeOK
  <2> QED  BY <1>2, <1>a, <2>1 DEF ReferencesLive
<1>3. ASSUME NEW h \in Handlers, NEW s \in Staff, CreateStaffForm(h, s)
      PROVE  ReferencesLive'
  <2>1. handler[h] \in StaffCreates
    BY <1>3, CallKinds DEF CreateStaffForm, Ready, TypeOK
  <2> QED  BY <1>2, <1>3, <2>1 DEF CreateStaffForm, StaffCreates
<1>4. ASSUME NEW h \in Handlers, DeleteStaffForm(h) PROVE ReferencesLive'
  <2> DEFINE u == handler[h].uuid
  <2>1. /\ staff' = [staff EXCEPT ![u].row = "deleted"]
        /\ UNCHANGED <<target, credential>>
        /\ \A q \in Requests : request'[q] = IF request[q].requestedBy = u
                THEN [request[q] EXCEPT !.requestedBy = NULL] ELSE request[q]
    BY <1>4 DEF DeleteStaffForm, DeleteStaff, Forget
  <2>2. \A s \in Staff : s # u /\ Live(s) => Live(s)'
    BY <2>1 DEF Live, TypeOK
  <2>3. \A q \in Requests :
            /\ request'[q].row = request[q].row
            /\ request'[q].target = request[q].target
            /\ request'[q].requestedBy # NULL =>
                /\ request'[q].requestedBy = request[q].requestedBy
                /\ request'[q].requestedBy # u
    BY <1>a, <2>1 DEF RequestRow
  <2> QED  BY <1>a, <2>1, <2>2, <2>3 DEF ReferencesLive
<1>5. ASSUME NEW h \in Handlers, NEW t \in Targets, CreateTargetForm(h, t)
      PROVE  ReferencesLive'
  BY <1>5 DEF CreateTargetForm, ReferencesLive, Live, TypeOK
<1>6. ASSUME NEW h \in Handlers, DeleteTargetForm(h) PROVE ReferencesLive'
  <2> DEFINE t == handler[h].uuid
  <2>1. /\ target' = [target EXCEPT ![t] = "deleted"] /\ UNCHANGED staff
        /\ \A q \in Requests : request'[q] =
              IF request[q].row = "live" /\ request[q].target = t
              THEN [request[q] EXCEPT !.row = "deleted"] ELSE request[q]
        /\ \A k \in Credentials : credential'[k] =
              IF credential[k].row = "live" /\ credential[k].target = t
              THEN [credential[k] EXCEPT !.row = "deleted"] ELSE credential[k]
    BY <1>6 DEF DeleteTargetForm, Cascade
  <2>2. \A q \in Requests : request'[q].row = "live" =>
            /\ request[q].row = "live" /\ request'[q] = request[q]
            /\ request[q].target # t
    BY <1>a, <2>1 DEF RequestRow
  <2>3. \A k \in Credentials : credential'[k].row = "live" =>
            /\ credential[k].row = "live" /\ credential'[k] = credential[k]
            /\ credential[k].target # t
    BY <2>1 DEF TypeOK, CredentialRow
  <2> QED  BY <2>1, <2>2, <2>3 DEF ReferencesLive, Live, TypeOK
<1>7. ASSUME NEW h \in Handlers, NEW q \in Requests, CreateApprovalRequest(h, q)
      PROVE  ReferencesLive'
  <2>1. handler[h] \in RequestCreates
    BY <1>7, CallKinds DEF CreateApprovalRequest, Ready, TypeOK
  <2> QED  BY <1>7, <2>1 DEF CreateApprovalRequest, StillExists, RequestCreates,
             ReferencesLive, Live, TypeOK
<1>8. ASSUME NEW h \in Handlers, RecordApprovalDecision(h) PROVE ReferencesLive'
  <2>1. \A q \in Requests : /\ request'[q].row = request[q].row
                            /\ request'[q].target = request[q].target
                            /\ request'[q].requestedBy = request[q].requestedBy
    BY <1>8, <1>a DEF RecordApprovalDecision, TypeOK, RequestRow
  <2> QED  BY <1>8, <2>1 DEF RecordApprovalDecision, ReferencesLive, Live
<1>9. ASSUME NEW h \in Handlers, NEW k \in Credentials, CreateCICDCredentialForm(h, k)
      PROVE  ReferencesLive'
  <2>1. handler[h] \in CredentialCreates
    BY <1>9, CallKinds DEF CreateCICDCredentialForm, Ready, TypeOK
  <2> QED  BY <1>9, <2>1 DEF CreateCICDCredentialForm, CredentialCreates,
             ReferencesLive, Live, TypeOK
<1>10. ASSUME NEW h \in Handlers, RevokeCICDCredentialForm(h) PROVE ReferencesLive'
  <2>1. \A k \in Credentials : /\ credential'[k].row = credential[k].row
                               /\ credential'[k].target = credential[k].target
    BY <1>10 DEF RevokeCICDCredentialForm, TypeOK, CredentialRow
  <2> QED  BY <1>10, <2>1 DEF RevokeCICDCredentialForm, ReferencesLive, Live
<1> QED
  BY <1>1, <1>2, <1>3, <1>4, <1>5, <1>6, <1>7, <1>8, <1>9, <1>10
     DEF Next, vars, tables, RunCreateStaff, LoginSubmit, SessionEnds, Arrive, Rollback,
         GetStaffByUUID, GetTarget, GetApprovalRequest, ListCICDCredentials, ReadExisting

\* Nothing that can be used refers to a deleted account or target: foreign keys
\* are checked in the transaction that inserts, and deletions cascade in theirs.
THEOREM NoOrphansHolds == Spec => []NoOrphans
<1>1. Init => ReferencesLive
  BY DEF Init, ReferencesLive
<1>2. Inv /\ ReferencesLive /\ [Next]_vars => ReferencesLive'
  BY ReferenceStep DEF Inv
<1>3. Inv /\ ReferencesLive => NoOrphans
  BY DEF Inv, SessionsLive, ReferencesLive, NoOrphans, Authenticates
<1> QED  BY <1>1, <1>2, <1>3, InvHolds, PTL DEF Spec

-----------------------------------------------------------------------------
(* The status column and the decisions it was computed from.               *)

StatusAt(q) ==
    /\ request[q].row = "unused" => decision[q] = <<>>
    /\ request[q].row = "live" =>
        /\ request[q].status = "rejected" => Rejecting(decision[q]) = {Len(decision[q])}
        /\ request[q].status # "rejected" => Rejecting(decision[q]) = {}
        /\ request[q].status = "pending" =>
              Cardinality(Approving(decision[q])) < request[q].required

StatusInv == \A q \in Requests : StatusAt(q)

LEMMA ForgottenRejecting ==
    ASSUME NEW rows \in Seq(DecisionRow), NEW u
    PROVE  Rejecting(ForgottenRows(rows, u)) = Rejecting(rows)
<1>1. \A i \in 1..Len(rows) : ForgottenRows(rows, u)[i].decision = rows[i].decision
  BY DEF ForgottenRows, DecisionRow
<1> QED  BY <1>1, ForgottenRowsType DEF Rejecting

LEMMA AppendedRejecting ==
    ASSUME NEW rows \in Seq(DecisionRow), NEW s, NEW d
    PROVE  Rejecting(Append(rows, [by |-> s, decision |-> d]))
             = Rejecting(rows) \cup (IF d = "rejected" THEN {Len(rows) + 1} ELSE {})
<1> DEFINE new == Append(rows, [by |-> s, decision |-> d])
<1>1. /\ Len(new) = Len(rows) + 1 /\ Len(rows) \in Nat
      /\ new[Len(rows) + 1].decision = d
      /\ \A i \in 1..Len(rows) : new[i] = rows[i]
  OBVIOUS
<1>2. 1..Len(rows) + 1 = (1..Len(rows)) \cup {Len(rows) + 1}
  BY <1>1
<1> HIDE DEF new
<1> QED  BY <1>1, <1>2 DEF Rejecting, new

\* The accounts that approve are finitely many.
LEMMA ApprovingCounts ==
    ASSUME NEW rows
    PROVE  /\ IsFiniteSet(Approving(rows)) /\ Cardinality(Approving(rows)) \in Nat
           /\ \A S \in SUBSET Approving(rows) :
                Cardinality(S) \in Nat /\ Cardinality(S) <= Cardinality(Approving(rows))
<1>1. IsFiniteSet(Approving(rows))
  BY StaffAssumption, FS_Subset DEF Approving
<1> QED  BY <1>1, FS_Subset, FS_CardinalityType

LEMMA StatusStep ==
    ASSUME TypeOK, StatusInv, [Next]_vars PROVE StatusInv'
<1> SUFFICES ASSUME NEW q \in Requests PROVE StatusAt(q)'
  BY DEF StatusInv
<1>0. /\ StatusAt(q) /\ request[q] \in RequestRow /\ decision[q] \in Seq(DecisionRow)
      /\ request[q].required \in Nat \ {0} /\ TypeOK'
  BY TypeStep DEF StatusInv, TypeOK, RequestRow
<1>1. CASE UNCHANGED <<request, decision, maker, approvers>>
  BY <1>0, <1>1 DEF StatusAt, Rejecting, Approving
<1>2. ASSUME NEW h \in Handlers, DeleteStaffForm(h) PROVE StatusAt(q)'
  <2> DEFINE u == handler[h].uuid
  <2>1. u \in Staff
    BY <1>2, CallKinds DEF DeleteStaffForm, Ready, TypeOK, StaffDeletes
  <2>2. decision'[q] = ForgottenRows(decision[q], u)
    BY <1>2 DEF DeleteStaffForm, Forget, ForgottenRows
  <2>3. /\ request'[q].row = request[q].row /\ request'[q].status = request[q].status
        /\ request'[q].required = request[q].required
    BY <1>0, <1>2 DEF DeleteStaffForm, Forget, RequestRow
  <2>4. /\ Rejecting(decision[q])' = Rejecting(decision[q])
        /\ Len(decision'[q]) = Len(decision[q])
    <3>1. Rejecting(decision[q])' = Rejecting(decision'[q])
      BY DEF Rejecting
    <3> QED  BY <1>0, <2>2, <3>1, ForgottenRejecting, ForgottenRowsType
  <2>5. Cardinality(Approving(decision[q])') <= Cardinality(Approving(decision[q]))
        /\ Cardinality(Approving(decision[q])') \in Nat
    <3>1. Approving(decision[q])' = Approving(decision'[q])
      BY DEF Approving
    <3>2. Approving(decision[q])' \subseteq Approving(decision[q])
      BY <1>0, <2>1, <2>2, <3>1, ForgottenApprovals
    <3> QED  BY <3>2, ApprovingCounts
  <2>6. decision[q] = <<>> => decision'[q] = <<>>
    <3>1. \A rows \in Seq(DecisionRow) : Len(rows) = 0 => rows = <<>>
      OBVIOUS
    <3>2. /\ decision'[q] \in Seq(DecisionRow) /\ Len(decision'[q]) = Len(decision[q])
          /\ decision[q] = <<>> => Len(decision[q]) = 0
      BY <1>0, <2>2, ForgottenRowsType
    <3> QED  BY <3>1, <3>2
  <2>7. Cardinality(Approving(decision[q])) \in Nat
    BY ApprovingCounts
  <2> QED  BY <1>0, <2>3, <2>4, <2>5, <2>6, <2>7 DEF StatusAt
<1>3. ASSUME NEW h \in Handlers, DeleteTargetForm(h) PROVE StatusAt(q)'
  <2>1. \/ request'[q] = request[q] /\ decision'[q] = decision[q]
        \/ request'[q].row = "deleted"
    BY <1>0, <1>3 DEF DeleteTargetForm, Cascade, RequestRow
  <2> QED  BY <1>0, <2>1 DEF StatusAt, Rejecting, Approving
<1>4. ASSUME NEW h \in Handlers, NEW r \in Requests, CreateApprovalRequest(h, r)
      PROVE  StatusAt(q)'
  <2>1. decision'[q] = decision[q]
    BY <1>4 DEF CreateApprovalRequest
  <2>2. CASE r = q
    <3>1. decision'[q] = <<>> /\ request'[q].row = "live" /\ request'[q].status = "pending"
      BY <1>0, <1>4, <2>1, <2>2 DEF CreateApprovalRequest, TypeOK, StatusAt
    <3>2. Rejecting(decision[q])' = {} /\ Approving(decision[q])' = {}
      BY <3>1 DEF Rejecting, Approving
    <3>3. Cardinality(Approving(decision[q])') = 0
      BY <3>2, FS_EmptySet
    <3>4. request'[q].required \in Nat \ {0}
      BY <1>0 DEF TypeOK, RequestRow
    <3> QED  BY <3>1, <3>2, <3>3, <3>4 DEF StatusAt
  <2>3. CASE r # q
    BY <1>0, <1>4, <2>1, <2>3 DEF CreateApprovalRequest, TypeOK, StatusAt, Rejecting, Approving
  <2> QED  BY <2>2, <2>3
<1>5. ASSUME NEW h \in Handlers, RecordApprovalDecision(h) PROVE StatusAt(q)'
  <2> DEFINE c == handler[h]
             rows == Append(decision[c.uuid], [by |-> c.by, decision |-> c.decision])
             status == Outcome(c.decision, rows, request[c.uuid].required)
  <2>1. c \in Decides
    BY <1>5, CallKinds DEF RecordApprovalDecision, Ready, TypeOK
  <2>2. c.uuid \in Requests /\ c.by \in Staff /\ c.decision \in Decisions
    BY <2>1 DEF Decides
  <2>3. /\ decision' = [decision EXCEPT ![c.uuid] = rows]
        /\ request' = [request EXCEPT ![c.uuid].status = status]
        /\ request[c.uuid].row = "live" /\ request[c.uuid].status = "pending"
    BY <1>5 DEF RecordApprovalDecision, Pending
  <2>4. CASE c.uuid # q
    <3>1. request'[q] = request[q] /\ decision'[q] = decision[q]
      BY <2>2, <2>3, <2>4 DEF TypeOK
    <3> QED  BY <1>0, <3>1 DEF StatusAt, Rejecting, Approving
  <2>5. CASE c.uuid = q
    <3>1. /\ request'[q].row = "live" /\ request'[q].status = status
          /\ request'[q].required = request[q].required /\ decision'[q] = rows
      BY <1>0, <2>2, <2>3, <2>5 DEF TypeOK, RequestRow
    <3>2. Rejecting(decision[q]) = {}
      BY <1>0, <2>3, <2>5 DEF StatusAt
    <3>3. Rejecting(rows) = (IF c.decision = "rejected" THEN {Len(decision[q]) + 1} ELSE {})
      <4>1. /\ decision[q] \in Seq(DecisionRow)
            /\ rows = Append(decision[q], [by |-> c.by, decision |-> c.decision])
        BY <1>0, <2>5
      <4> HIDE DEF c, rows
      <4>2. Rejecting(rows) = Rejecting(decision[q]) \cup
              (IF c.decision = "rejected" THEN {Len(decision[q]) + 1} ELSE {})
        BY <4>1, AppendedRejecting
      <4> QED  BY <3>2, <4>2
    <3>4. Len(rows) = Len(decision[q]) + 1
      BY <1>0, <2>5
    <3>5. Rejecting(decision[q])' = Rejecting(rows) /\ Approving(decision[q])' = Approving(rows)
      BY <3>1 DEF Rejecting, Approving
    <3> HIDE DEF rows
    <3>6. /\ status = "rejected" <=> c.decision = "rejected"
          /\ status = "pending" /\ c.decision # "rejected" =>
                ~(Cardinality(Approving(rows)) >= request[q].required)
      BY <2>2, <2>5 DEF Outcome, ApprovingCount, Decisions
    <3>7. Cardinality(Approving(rows)) \in Nat
      BY ApprovingCounts
    <3> HIDE DEF status
    <3>8. status = "pending" => Cardinality(Approving(rows)) < request[q].required
      BY <1>0, <3>6, <3>7
    <3> QED  BY <3>1, <3>3, <3>4, <3>5, <3>6, <3>8 DEF StatusAt
  <2> QED  BY <2>4, <2>5
<1> QED  BY <1>1, <1>2, <1>3, <1>4, <1>5, RequestStep

\* The status column agrees with the decisions it was computed from, also after
\* the accounts that took them were deleted (their rows keep the decision and
\* lose the name, so that the approvals that count can only become fewer).
THEOREM StatusFollowsDecisionsHolds == Spec => []StatusFollowsDecisions
<1>1. Init => StatusInv
  BY DEF Init, StatusInv, StatusAt
<1>2. Inv /\ StatusInv /\ [Next]_vars => StatusInv'
  BY StatusStep DEF Inv
<1>3. Inv /\ StatusInv => StatusFollowsDecisions
  <2> SUFFICES ASSUME Inv, StatusInv, NEW q \in Requests, request[q].row = "live"
               PROVE  CASE request[q].status = "rejected" ->
                              Rejecting(decision[q]) = {Len(decision[q])}
                        [] request[q].status = "approved" -> Rejecting(decision[q]) = {}
                        [] OTHER -> /\ Rejecting(decision[q]) = {}
                                    /\ Cardinality(Approving(decision[q])) < request[q].required
    BY DEF StatusFollowsDecisions
  <2>1. StatusAt(q) /\ request[q].status \in {"pending", "approved", "rejected"}
    BY DEF Inv, TypeOK, RequestRow, Decisions, StatusInv
  <2> QED  BY <2>1 DEF StatusAt
<1> QED  BY <1>1, <1>2, <1>3, InvHolds, PTL DEF Spec

-----------------------------------------------------------------------------
(* The audit log and the tables.                                           *)

\* The entries of a log about one operation on one row.
EntriesOf(log, op, id) == {i \in 1..Len(log) : log[i].op = op /\ log[i].id = id}
Count(log, op, id) == Cardinality(EntriesOf(log, op, id))

\* One entry is added; an older one may lose the account it names.
Logged(op, id, previous, resulting) ==
    /\ Len(audit) \in Nat /\ Len(audit') = Len(audit) + 1
    /\ \A i \in 1..Len(audit) :
          /\ audit'[i].op = audit[i].op /\ audit'[i].id = audit[i].id
          /\ audit'[i].previous = audit[i].previous
          /\ audit'[i].resulting = audit[i].resulting
    /\ audit'[Len(audit) + 1].op = op /\ audit'[Len(audit) + 1].id = id
    /\ audit'[Len(audit) + 1].previous = previous
    /\ audit'[Len(audit) + 1].resulting = resulting

LEMMA AppendedLogged ==
    ASSUME NEW log, log \in Seq(AuditRow), audit \in Seq(AuditRow),
           Len(log) = Len(audit),
           \A i \in 1..Len(audit) :
              /\ log[i].op = audit[i].op /\ log[i].id = audit[i].id
              /\ log[i].previous = audit[i].previous
              /\ log[i].resulting = audit[i].resulting,
           NEW op, NEW by, NEW id, NEW previous, NEW resulting,
           audit' = Append(log, Entry(op, by, id, previous, resulting))
    PROVE  Logged(op, id, previous, resulting)
<1> DEFINE e == Entry(op, by, id, previous, resulting)
<1>1. /\ e.op = op /\ e.id = id /\ e.previous = previous /\ e.resulting = resulting
  BY DEF Entry
<1> HIDE DEF e
<1>2. /\ Len(log) \in Nat /\ Len(audit') = Len(log) + 1 /\ audit'[Len(log) + 1] = e
      /\ \A i \in 1..Len(log) : audit'[i] = log[i]
  BY DEF e
<1> QED  BY <1>1, <1>2 DEF Logged

LEMMA RecordLogged ==
    ASSUME TypeOK, NEW c, NEW id, NEW previous, NEW resulting,
           RecordAudit(c, id, previous, resulting)
    PROVE  Logged(c.op, id, previous, resulting)
<1>1. audit \in Seq(AuditRow)
  BY DEF TypeOK
<1> QED  BY <1>1, AppendedLogged DEF RecordAudit

LEMMA DeleteStaffLogged ==
    ASSUME TypeOK, NEW h, NEW s, DeleteStaff(h, s)
    PROVE  Logged("staff.delete", s, NULL, NULL)
<1>1. audit \in Seq(AuditRow) /\ \A i \in 1..Len(audit) : audit[i] \in AuditRow
  BY DEF TypeOK
<1>2. /\ Forgotten(audit, s) \in Seq(AuditRow) /\ Len(Forgotten(audit, s)) = Len(audit)
  BY <1>1, ForgottenType
<1>3. \A i \in 1..Len(audit) :
         /\ Forgotten(audit, s)[i].op = audit[i].op
         /\ Forgotten(audit, s)[i].id = audit[i].id
         /\ Forgotten(audit, s)[i].previous = audit[i].previous
         /\ Forgotten(audit, s)[i].resulting = audit[i].resulting
  BY <1>1 DEF Forgotten, AuditRow
<1>4. audit' = Append(Forgotten(audit, s),
                      Entry("staff.delete", handler[h].by, s, NULL, NULL))
  BY DEF DeleteStaff
<1> QED  BY <1>1, <1>2, <1>3, <1>4, AppendedLogged

\* An entry is counted for its own operation and row only.
LEMMA CountStep ==
    ASSUME TypeOK, NEW op, NEW id, NEW previous, NEW resulting,
           Logged(op, id, previous, resulting), NEW o, NEW x
    PROVE  /\ Count(audit, o, x) \in Nat
           /\ Count(audit', o, x)
                = Count(audit, o, x) + (IF o = op /\ x = id THEN 1 ELSE 0)
<1> DEFINE n == Len(audit)
           old == EntriesOf(audit, o, x)
           new == EntriesOf(audit', o, x)
<1>1. n \in Nat /\ IsFiniteSet(1..n)
  <2>1. n \in Nat
    BY DEF Logged
  <2> HIDE DEF n
  <2> QED  BY <2>1, FS_Interval
<1>2. old \subseteq 1..n /\ IsFiniteSet(old)
  <2>1. old \subseteq 1..n
    BY DEF EntriesOf
  <2> HIDE DEF old, n
  <2> QED  BY <1>1, <2>1, FS_Subset
<1>3. n + 1 \notin old
  BY <1>1, <1>2
<1>4. new = IF o = op /\ x = id THEN old \cup {n + 1} ELSE old
  <2>1. 1..n + 1 = (1..n) \cup {n + 1}
    BY <1>1
  <2>2. /\ Len(audit') = n + 1
        /\ \A i \in 1..n : audit'[i].op = audit[i].op /\ audit'[i].id = audit[i].id
        /\ audit'[n + 1].op = op /\ audit'[n + 1].id = id
    BY DEF Logged
  <2>3. \A i \in 1..n : i \in new <=> i \in old
    BY <1>1, <2>1, <2>2 DEF EntriesOf
  <2>4. n + 1 \in new <=> o = op /\ x = id
    BY <1>1, <2>2 DEF EntriesOf
  <2>5. new \subseteq (1..n) \cup {n + 1}
    BY <2>1, <2>2 DEF EntriesOf
  <2>6. old \subseteq 1..n /\ n + 1 \notin old
    BY <1>2, <1>3
  <2> HIDE DEF old, new, n
  <2>7. CASE o = op /\ x = id
    <3>1. \A i : i \in new <=> i \in old \cup {n + 1}
      BY <2>3, <2>4, <2>5, <2>6, <2>7
    <3> QED  BY <2>7, <3>1
  <2>8. CASE ~(o = op /\ x = id)
    <3>1. \A i : i \in new <=> i \in old
      BY <2>3, <2>4, <2>5, <2>6, <2>8
    <3> QED  BY <2>8, <3>1
  <2> QED  BY <2>7, <2>8
<1>5. Cardinality(old) \in Nat /\ Cardinality(old \cup {n + 1}) = Cardinality(old) + 1
  BY <1>2, <1>3, FS_AddElement, FS_CardinalityType
<1> QED  BY <1>4, <1>5 DEF Count

\* What the log is compared with: requests with their decisions, and which
\* accounts and targets are deleted.
Untouched ==
    /\ UNCHANGED <<request, decision>>
    /\ \A s \in Staff : staff'[s].row = "deleted" <=> staff[s].row = "deleted"
    /\ \A t \in Targets : target'[t] = "deleted" <=> target[t] = "deleted"

\* The forms whose entries are about rows that are not compared.
LogsOther ==
    \E op \in {"staff.create", "target.create", "cicd_credential.create",
               "cicd_credential.revoke"}, id \in Ids \ Requests :
        Logged(op, id, NULL, NULL)

LEMMA AuditStep ==
    ASSUME TypeOK, [Next]_vars
    PROVE  \/ Untouched /\ (UNCHANGED audit \/ LogsOther)
           \/ \E h \in Handlers : DeleteStaffForm(h)
           \/ \E h \in Handlers : DeleteTargetForm(h)
           \/ \E h \in Handlers, q \in Requests : CreateApprovalRequest(h, q)
           \/ \E h \in Handlers : RecordApprovalDecision(h)
<1> DEFINE Other == Untouched /\ (UNCHANGED audit \/ LogsOther)
<1>a. (Staff \cup Targets \cup Credentials) \subseteq Ids \ Requests
  BY UUIDsAssumption DEF Ids
<1>1. ASSUME UNCHANGED <<staff, target, request, decision, audit>> PROVE Other
  BY <1>1 DEF Untouched
<1>2. ASSUME NEW s \in Staff, NEW p \in Profiles, CreateStaff(s, p),
             UNCHANGED <<target, request, decision>>
      PROVE  Untouched
  BY <1>2 DEF CreateStaff, Untouched, TypeOK
<1>3. ASSUME NEW h \in Handlers, NEW s \in Staff, CreateStaffForm(h, s) PROVE Other
  <2>1. handler[h] \in StaffCreates
    BY <1>3, CallKinds DEF CreateStaffForm, Ready, TypeOK
  <2>2. Untouched
    BY <1>2, <1>3, <2>1 DEF CreateStaffForm, StaffCreates
  <2>3. Logged("staff.create", s, NULL, NULL)
    BY <1>3, RecordLogged DEF CreateStaffForm, Ready
  <2> QED  BY <1>a, <2>2, <2>3 DEF LogsOther
<1>4. ASSUME NEW h \in Handlers, NEW t \in Targets, CreateTargetForm(h, t) PROVE Other
  <2>1. Untouched
    BY <1>4 DEF CreateTargetForm, Untouched, TypeOK
  <2>2. Logged("target.create", t, NULL, NULL)
    BY <1>4, RecordLogged DEF CreateTargetForm, Ready
  <2> QED  BY <1>a, <2>1, <2>2 DEF LogsOther
<1>5. ASSUME NEW h \in Handlers, NEW k \in Credentials, CreateCICDCredentialForm(h, k)
      PROVE  Other
  <2>1. Untouched
    BY <1>5 DEF CreateCICDCredentialForm, Untouched
  <2>2. Logged("cicd_credential.create", k, NULL, NULL)
    BY <1>5, RecordLogged DEF CreateCICDCredentialForm, Ready
  <2> QED  BY <1>a, <2>1, <2>2 DEF LogsOther
<1>6. ASSUME NEW h \in Handlers, RevokeCICDCredentialForm(h) PROVE Other
  <2>1. handler[h] \in Revokes
    BY <1>6, CallKinds DEF RevokeCICDCredentialForm, Ready, TypeOK
  <2>2. Untouched /\ handler[h].uuid \in Credentials
    BY <1>6, <2>1 DEF RevokeCICDCredentialForm, Untouched, Revokes
  <2>3. Logged("cicd_credential.revoke", handler[h].uuid, NULL, NULL)
    BY <1>6, RecordLogged DEF RevokeCICDCredentialForm, Ready
  <2> QED  BY <1>a, <2>2, <2>3 DEF LogsOther
<1>7. ASSUME NEW s \in Staff, NEW p \in Profiles, RunCreateStaff(s, p) PROVE Other
  BY <1>2, <1>7 DEF RunCreateStaff
<1> HIDE DEF Other
<1> QED
  BY <1>1, <1>3, <1>4, <1>5, <1>6, <1>7
     DEF Next, vars, tables, Other, LoginSubmit, SessionEnds, Arrive, Rollback,
         GetStaffByUUID, GetTarget, GetApprovalRequest, ListCICDCredentials, ReadExisting

\* One entry per decision of a request that exists, per deleted account and
\* per deleted target.
CountsMatch ==
    /\ \A q \in Requests : request[q].row # "deleted" =>
          Count(audit, "approval_request.decide", q) = Len(decision[q])
    /\ \A s \in Staff : Count(audit, "staff.delete", s)
                          = IF staff[s].row = "deleted" THEN 1 ELSE 0
    /\ \A t \in Targets : Count(audit, "target.delete", t)
                            = IF target[t] = "deleted" THEN 1 ELSE 0

LEMMA CountsStep ==
    ASSUME TypeOK, CountsMatch, [Next]_vars PROVE CountsMatch'
<1>1. ASSUME Untouched, UNCHANGED audit PROVE CountsMatch'
  BY <1>1 DEF Untouched, CountsMatch
<1>2. ASSUME Untouched, LogsOther PROVE CountsMatch'
  <2>1. PICK op \in {"staff.create", "target.create", "cicd_credential.create",
                     "cicd_credential.revoke"}, id \in Ids \ Requests :
                Logged(op, id, NULL, NULL)
    BY <1>2 DEF LogsOther
  <2>2. \A o \in {"approval_request.decide", "staff.delete", "target.delete"} : \A x :
            Count(audit', o, x) = Count(audit, o, x)
    BY <2>1, CountStep
  <2> QED  BY <1>2, <2>2 DEF Untouched, CountsMatch
<1>3. ASSUME NEW h \in Handlers, DeleteStaffForm(h) PROVE CountsMatch'
  <2> DEFINE u == handler[h].uuid
  <2>1. u \in Staff
    BY <1>3, CallKinds DEF DeleteStaffForm, Ready, TypeOK, StaffDeletes
  <2>2. /\ staff' = [staff EXCEPT ![u].row = "deleted"] /\ staff[u].row = "live"
        /\ UNCHANGED target /\ Logged("staff.delete", u, NULL, NULL)
    BY <1>3, DeleteStaffLogged DEF DeleteStaffForm, DeleteStaff, Live
  <2>3. \A o, x : /\ Count(audit, o, x) \in Nat
                  /\ Count(audit', o, x) = Count(audit, o, x)
                        + (IF o = "staff.delete" /\ x = u THEN 1 ELSE 0)
    BY <2>2, CountStep
  <2>4. \A s \in Staff : staff'[s].row = IF s = u THEN "deleted" ELSE staff[s].row
    BY <2>1, <2>2 DEF TypeOK, StaffRow
  <2>5. \A q \in Requests : /\ request'[q].row = request[q].row
                            /\ Len(decision'[q]) = Len(decision[q])
    <3>1. \A q \in Requests : decision'[q] = ForgottenRows(decision[q], u)
      BY <1>3 DEF DeleteStaffForm, Forget, ForgottenRows
    <3>2. \A q \in Requests : request'[q].row = request[q].row
      BY <1>3 DEF DeleteStaffForm, Forget, TypeOK, RequestRow
    <3> QED  BY <3>1, <3>2, ForgottenRowsType DEF TypeOK
  <2> HIDE DEF u
  <2>6. \A s \in Staff : Count(audit', "staff.delete", s)
                           = IF staff'[s].row = "deleted" THEN 1 ELSE 0
    <3> TAKE s \in Staff
    <3>1. Count(audit, "staff.delete", s) = IF staff[s].row = "deleted" THEN 1 ELSE 0
      BY DEF CountsMatch
    <3>2. CASE s = u
      BY <2>2, <2>3, <2>4, <3>1, <3>2
    <3>3. CASE s # u
      BY <2>3, <2>4, <3>1, <3>3
    <3> QED  BY <3>2, <3>3
  <2>7. \A o, x : o # "staff.delete" => Count(audit', o, x) = Count(audit, o, x)
    BY <2>3
  <2> QED  BY <2>2, <2>5, <2>6, <2>7 DEF CountsMatch
<1>4. ASSUME NEW h \in Handlers, DeleteTargetForm(h) PROVE CountsMatch'
  <2> DEFINE t == handler[h].uuid
  <2>1. t \in Targets
    BY <1>4, CallKinds DEF DeleteTargetForm, Ready, TypeOK, TargetDeletes
  <2>2. /\ target' = [target EXCEPT ![t] = "deleted"] /\ target[t] = "live"
        /\ UNCHANGED staff /\ Logged("target.delete", t, NULL, NULL)
    BY <1>4, RecordLogged DEF DeleteTargetForm, DeletesRow, Ready
  <2>3. \A o, x : /\ Count(audit, o, x) \in Nat
                  /\ Count(audit', o, x) = Count(audit, o, x)
                        + (IF o = "target.delete" /\ x = t THEN 1 ELSE 0)
    BY <2>2, CountStep
  <2>4. \A q \in Requests : request'[q].row # "deleted" =>
            request[q].row # "deleted" /\ decision'[q] = decision[q]
    BY <1>4 DEF DeleteTargetForm, Cascade, TypeOK, RequestRow
  <2>5. \A v \in Targets : target'[v] = IF v = t THEN "deleted" ELSE target[v]
    BY <2>1, <2>2 DEF TypeOK
  <2> QED  BY <2>1, <2>2, <2>3, <2>4, <2>5 DEF CountsMatch
<1>5. ASSUME NEW h \in Handlers, NEW q \in Requests, CreateApprovalRequest(h, q)
      PROVE  CountsMatch'
  <2>1. /\ UNCHANGED <<staff, target, decision>>
        /\ Logged("approval_request.create", q, NULL, "pending")
        /\ request[q].row = "unused"
        /\ \A r \in Requests : r # q => request'[r] = request[r]
    BY <1>5, RecordLogged DEF CreateApprovalRequest, Ready, TypeOK
  <2>2. \A o, x : o # "approval_request.create" =>
            Count(audit', o, x) = Count(audit, o, x)
    BY <2>1, CountStep
  <2> QED  BY <2>1, <2>2 DEF CountsMatch
<1>6. ASSUME NEW h \in Handlers, RecordApprovalDecision(h) PROVE CountsMatch'
  <2> DEFINE q == handler[h].uuid
  <2>1. q \in Requests
    BY <1>6, CallKinds DEF RecordApprovalDecision, Ready, TypeOK, Decides
  <2>2. PICK row, status :
            /\ decision' = [decision EXCEPT ![q] = Append(decision[q], row)]
            /\ request' = [request EXCEPT ![q].status = status]
            /\ RecordAudit(handler[h], q, handler[h].existing, status)
    BY <1>6 DEF RecordApprovalDecision
  <2>3. /\ Logged("approval_request.decide", q, handler[h].existing, status)
        /\ UNCHANGED <<staff, target>>
    BY <1>6, <2>2, RecordLogged DEF RecordApprovalDecision, Ready
  <2>4. \A o, x : /\ Count(audit, o, x) \in Nat
                  /\ Count(audit', o, x) = Count(audit, o, x)
                        + (IF o = "approval_request.decide" /\ x = q THEN 1 ELSE 0)
    BY <2>3, CountStep
  <2>5. \A r \in Requests :
            /\ request'[r].row = request[r].row
            /\ r # q => decision'[r] = decision[r]
    BY <2>1, <2>2 DEF TypeOK, RequestRow
  <2>6. Len(decision'[q]) = Len(decision[q]) + 1
    BY <2>1, <2>2 DEF TypeOK
  <2> HIDE DEF q
  <2> QED  BY <2>1, <2>3, <2>4, <2>5, <2>6 DEF CountsMatch
<1> QED  BY <1>1, <1>2, <1>3, <1>4, <1>5, <1>6, AuditStep

\* A handler that read a closed request, read it of a request that stays
\* closed: what it read is not what its transaction will find.
ReadsClosed ==
    \A h \in Handlers :
        handler[h] # NULL /\ handler[h].op = "approval_request.decide"
        /\ handler[h].existing \in Decisions =>
            /\ request[handler[h].uuid].row # "unused"
            /\ request[handler[h].uuid].status # "pending"

LEMMA ClosedStays ==
    ASSUME TypeOK, [Next]_vars, NEW q \in Requests,
           request[q].row # "unused", request[q].status # "pending"
    PROVE  request'[q].row # "unused" /\ request'[q].status # "pending"
<1>1. ASSUME NEW h \in Handlers, RecordApprovalDecision(h)
      PROVE  request'[q] = request[q]
  <2>1. handler[h].uuid # q
    BY <1>1 DEF RecordApprovalDecision, Pending
  <2> QED  BY <1>1, <2>1 DEF RecordApprovalDecision, TypeOK
<1>2. ASSUME NEW h \in Handlers, NEW r \in Requests, CreateApprovalRequest(h, r)
      PROVE  request'[q] = request[q]
  BY <1>2 DEF CreateApprovalRequest, TypeOK
<1>3. ASSUME NEW h \in Handlers, DeleteStaffForm(h)
      PROVE  request'[q].row # "unused" /\ request'[q].status # "pending"
  BY <1>3 DEF DeleteStaffForm, Forget, TypeOK, RequestRow
<1>4. ASSUME NEW h \in Handlers, DeleteTargetForm(h)
      PROVE  request'[q].row # "unused" /\ request'[q].status # "pending"
  BY <1>4 DEF DeleteTargetForm, Cascade, TypeOK, RequestRow
<1> QED  BY <1>1, <1>2, <1>3, <1>4, RequestStep

LEMMA ReadsStep ==
    ASSUME TypeOK, ReadsClosed, [Next]_vars PROVE ReadsClosed'
<1> SUFFICES ASSUME NEW g \in Handlers, handler'[g] # NULL,
                    handler'[g].op = "approval_request.decide",
                    handler'[g].existing \in Decisions
             PROVE  /\ request'[handler'[g].uuid].row # "unused"
                    /\ request'[handler'[g].uuid].status # "pending"
  BY DEF ReadsClosed
<1>1. handler'[g] \in Decides
  BY TypeStep, CallKinds DEF TypeOK
<1>2. handler'[g].uuid \in Requests
  BY <1>1 DEF Decides
<1>3. CASE handler'[g] = handler[g]
  BY <1>2, <1>3, ClosedStays DEF ReadsClosed
<1>4. CASE GetApprovalRequest(g)
  <2>1. handler[g] \in Decides
    BY <1>4, CallKinds DEF GetApprovalRequest, ReadExisting, TypeOK
  <2>2. /\ handler'[g].uuid = handler[g].uuid
        /\ handler'[g].existing = request[handler[g].uuid].status
        /\ request[handler[g].uuid].row = "live" /\ UNCHANGED request
    BY <1>4, <2>1 DEF GetApprovalRequest, ReadExisting, TypeOK, Decides, tables
  <2> QED  BY <2>2 DEF Decisions
<1>5. ASSUME NEW s \in session, NEW c \in Requested(s), Arrive(g, c) PROVE FALSE
  <2>1. handler'[g] = c
    BY <1>5 DEF Arrive, TypeOK
  <2>2. c \in Decides /\ "existing" \in DOMAIN c
    BY <1>1, <2>1 DEF Decides
  <2>3. c.existing = Unread
    BY <2>2 DEF Requested
  <2> QED  BY <2>1, <2>3 DEF Decisions, Unread
<1>6. CASE GetStaffByUUID(g) \/ GetTarget(g) \/ ListCICDCredentials(g)
  BY <1>6, ReadType DEF GetStaffByUUID, GetTarget, ListCICDCredentials, ReadExisting
<1>7. \/ handler'[g] = handler[g] \/ handler'[g] = NULL
      \/ GetApprovalRequest(g)
      \/ GetStaffByUUID(g) \/ GetTarget(g) \/ ListCICDCredentials(g)
      \/ \E s \in session : \E c \in Requested(s) : Arrive(g, c)
  <2> USE DEF TypeOK
  <2>1. CASE UNCHANGED handler
    BY <2>1
  <2>2. ASSUME NEW h \in Handlers, Answered(h) \/ Rollback(h)
        PROVE  handler'[g] = handler[g] \/ handler'[g] = NULL
    BY <2>2 DEF Answered, Rollback
  <2>3. ASSUME NEW h \in Handlers, NEW c, Arrive(h, c)
        PROVE  handler'[g] = handler[g] \/ h = g
    BY <2>3 DEF Arrive
  <2>4. ASSUME NEW h \in Handlers, GetApprovalRequest(h) \/ GetStaffByUUID(h)
               \/ GetTarget(h) \/ ListCICDCredentials(h)
        PROVE  handler'[g] = handler[g] \/ h = g
    BY <2>4 DEF GetApprovalRequest, GetStaffByUUID, GetTarget, ListCICDCredentials,
                ReadExisting
  <2> HIDE DEF TypeOK
  <2> QED
    BY <2>1, <2>2, <2>3, <2>4 DEF Next, vars, RunCreateStaff, LoginSubmit, SessionEnds,
       CreateStaffForm, DeleteStaffForm, CreateTargetForm, DeleteTargetForm,
       CreateApprovalRequest, RecordApprovalDecision, CreateCICDCredentialForm,
       RevokeCICDCredentialForm
<1> QED  BY <1>3, <1>4, <1>5, <1>6, <1>7

\* The last entry about a request that exists records its present status.
LastEntryAt(q) ==
    request[q].row = "live" =>
        \A i \in 1..Len(audit) :
            audit[i].id = q /\ (\A k \in i+1..Len(audit) : audit[k].id # q)
            => audit[i].resulting = request[q].status

\* The entries about a row continue one another.
ChainedAt(j) ==
    audit[j].op = "approval_request.decide" =>
        \A i \in 1..j-1 :
            audit[i].id = audit[j].id
            /\ (\A k \in i+1..j-1 : audit[k].id # audit[j].id)
            => audit[j].previous = audit[i].resulting

ChainInv ==
    /\ \A q \in Requests : LastEntryAt(q)
    /\ \A j \in 1..Len(audit) : ChainedAt(j)

\* The old entries stay chained, and a request the new one is not about keeps
\* its last entry.
LEMMA LoggedElsewhere ==
    ASSUME TypeOK, ChainInv, NEW op, NEW id, NEW previous, NEW resulting,
           Logged(op, id, previous, resulting)
    PROVE  /\ \A j \in 1..Len(audit) : ChainedAt(j)'
           /\ \A q \in Requests :
                 /\ id # q
                 /\ request'[q].row = "live" =>
                       request[q].row = "live" /\ request'[q].status = request[q].status
                 => LastEntryAt(q)'
<1> DEFINE n == Len(audit)
<1>0. /\ n \in Nat /\ Len(audit') = n + 1 /\ audit'[n + 1].id = id
      /\ \A i \in 1..n :
            /\ audit'[i].op = audit[i].op /\ audit'[i].id = audit[i].id
            /\ audit'[i].previous = audit[i].previous
            /\ audit'[i].resulting = audit[i].resulting
  BY DEF Logged
<1>1. ASSUME NEW j \in 1..n PROVE ChainedAt(j)'
  <2>1. ChainedAt(j)
    BY DEF ChainInv
  <2>2. j \in Nat /\ j <= n /\ j \in 1..n
    BY <1>0
  <2>3. \A i \in 1..j-1 : i \in 1..n
    BY <2>2, <1>0
  <2>4. \A i \in 1..j-1 : \A k \in i+1..j-1 : k \in 1..n
    BY <2>2, <1>0
  <2> HIDE DEF n
  <2> QED  BY <1>0, <2>1, <2>2, <2>3, <2>4 DEF ChainedAt
<1>2. ASSUME NEW q \in Requests, id # q, request'[q].row = "live",
             request[q].row = "live", request'[q].status = request[q].status,
             NEW i \in 1..n + 1, audit'[i].id = q,
             \A k \in i+1..n + 1 : audit'[k].id # q
      PROVE  audit'[i].resulting = request'[q].status
  <2>1. i \in 1..n
    BY <1>0, <1>2
  <2>2. \A k \in i+1..n : audit[k].id # q
    <3>1. \A k \in i+1..n : k \in 1..n /\ k \in i+1..n + 1
      BY <1>0, <2>1
    <3> QED  BY <1>0, <1>2, <3>1
  <2>3. LastEntryAt(q)
    BY DEF ChainInv
  <2> QED  BY <1>0, <1>2, <2>1, <2>2, <2>3 DEF LastEntryAt
<1> QED  BY <1>0, <1>1, <1>2 DEF LastEntryAt

LEMMA ChainStep ==
    ASSUME TypeOK, ChainInv, ReadsClosed, [Next]_vars PROVE ChainInv'
<1> DEFINE Kept(q) == request'[q].row = "live" =>
              request[q].row = "live" /\ request'[q].status = request[q].status
\* A step that logs something about id and keeps the other requests.
<1>1. ASSUME NEW op, NEW id, NEW previous, NEW resulting,
             Logged(op, id, previous, resulting),
             \A q \in Requests : q # id => Kept(q),
             id \in Requests /\ request'[id].row = "live" =>
                resulting = request'[id].status,
             op = "approval_request.decide" =>
                /\ id \in Requests /\ request[id].row = "live"
                /\ previous = request[id].status
      PROVE  ChainInv'
  <2> PICK m : m = Len(audit)
    OBVIOUS
  <2>0. m \in Nat
    BY DEF TypeOK
  <2>1. \A j \in 1..m : ChainedAt(j)'
    BY <1>1, LoggedElsewhere
  <2>2. \A q \in Requests : q # id => LastEntryAt(q)'
    BY <1>1, LoggedElsewhere
  <2>3. /\ Len(audit') = m + 1
        /\ audit'[m + 1].op = op /\ audit'[m + 1].id = id
        /\ audit'[m + 1].previous = previous /\ audit'[m + 1].resulting = resulting
        /\ \A i \in 1..m : /\ audit'[i].id = audit[i].id
                           /\ audit'[i].resulting = audit[i].resulting
    BY <1>1 DEF Logged
  <2>4. id \in Requests => LastEntryAt(id)'
    <3> SUFFICES ASSUME id \in Requests, request'[id].row = "live",
                        NEW i \in 1..m + 1, audit'[i].id = id,
                        \A k \in i+1..m + 1 : audit'[k].id # id
                 PROVE  audit'[i].resulting = request'[id].status
      BY <2>3 DEF LastEntryAt
    <3>1. i = m + 1
      BY <2>0, <2>3
    <3> QED  BY <1>1, <2>3, <3>1
  <2>5. ChainedAt(m + 1)'
    <3> SUFFICES ASSUME op = "approval_request.decide",
                        NEW i \in 1..m, audit'[i].id = id,
                        \A k \in i+1..m : audit'[k].id # id
                 PROVE  previous = audit'[i].resulting
      BY <2>0, <2>3 DEF ChainedAt
    <3>1. LastEntryAt(id) /\ request[id].row = "live"
      BY <1>1 DEF ChainInv
    <3>2. \A k \in i+1..m : audit[k].id # id
      BY <2>0, <2>3
    <3> QED  BY <1>1, <2>3, <3>1, <3>2 DEF LastEntryAt
  <2>6. \A j \in 1..m + 1 : j \in 1..m \/ j = m + 1
    BY <2>0
  <2> QED  BY <2>1, <2>2, <2>3, <2>4, <2>5, <2>6 DEF ChainInv
<1>2. CASE Untouched /\ UNCHANGED audit
  BY <1>2 DEF ChainInv, LastEntryAt, ChainedAt, Untouched
<1>3. CASE Untouched /\ LogsOther
  <2>1. \A q \in Requests : Kept(q)
    BY <1>3 DEF Untouched
  <2> HIDE DEF Kept
  <2>2. PICK op \in {"staff.create", "target.create", "cicd_credential.create",
                     "cicd_credential.revoke"}, id \in Ids \ Requests :
                Logged(op, id, NULL, NULL)
    BY <1>3 DEF LogsOther
  <2> QED  BY <1>1, <2>1, <2>2
<1>4. ASSUME NEW h \in Handlers, DeleteStaffForm(h) PROVE ChainInv'
  <2>1. handler[h].uuid \in Staff
    BY <1>4, CallKinds DEF DeleteStaffForm, Ready, TypeOK, StaffDeletes
  <2>2. Logged("staff.delete", handler[h].uuid, NULL, NULL)
    BY <1>4, DeleteStaffLogged DEF DeleteStaffForm
  <2>3. \A q \in Requests : Kept(q)
    BY <1>4 DEF DeleteStaffForm, Forget, TypeOK, RequestRow
  <2> HIDE DEF Kept
  <2> QED  BY <1>1, <2>1, <2>2, <2>3, UUIDsAssumption
<1>5. ASSUME NEW h \in Handlers, DeleteTargetForm(h) PROVE ChainInv'
  <2>1. handler[h].uuid \in Targets
    BY <1>5, CallKinds DEF DeleteTargetForm, Ready, TypeOK, TargetDeletes
  <2>2. Logged("target.delete", handler[h].uuid, NULL, NULL)
    BY <1>5, RecordLogged DEF DeleteTargetForm, Ready
  <2>3. \A q \in Requests : Kept(q)
    BY <1>5 DEF DeleteTargetForm, Cascade, TypeOK, RequestRow
  <2> HIDE DEF Kept
  <2> QED  BY <1>1, <2>1, <2>2, <2>3, UUIDsAssumption
<1>6. ASSUME NEW h \in Handlers, NEW q \in Requests, CreateApprovalRequest(h, q)
      PROVE  ChainInv'
  <2>1. Logged("approval_request.create", q, NULL, "pending")
    BY <1>6, RecordLogged DEF CreateApprovalRequest, Ready
  <2>2. /\ \A r \in Requests : r # q => Kept(r)
        /\ request'[q].status = "pending"
    BY <1>6 DEF CreateApprovalRequest, TypeOK
  <2> HIDE DEF Kept
  <2> QED  BY <1>1, <2>1, <2>2
<1>7. ASSUME NEW h \in Handlers, RecordApprovalDecision(h) PROVE ChainInv'
  <2> DEFINE q == handler[h].uuid
  <2>1. /\ q \in Requests /\ handler[h].existing \in {Unread, "pending"} \cup Decisions
        /\ handler[h].op = "approval_request.decide"
    BY <1>7, CallKinds DEF RecordApprovalDecision, Ready, TypeOK, Decides
  <2>2. handler[h].existing # Unread
    <3>1. handler[h] \in Decides
      BY <1>7, CallKinds DEF RecordApprovalDecision, Ready, TypeOK
    <3> QED  BY <1>7, <3>1 DEF RecordApprovalDecision, Ready, Decides
  <2>3. /\ request[q].row = "live" /\ request[q].status = "pending"
    BY <1>7 DEF RecordApprovalDecision, Pending
  <2>4. handler[h].existing = "pending"
    BY <1>7, <2>1, <2>2, <2>3 DEF ReadsClosed, RecordApprovalDecision, Ready
  <2>5. PICK status :
            /\ request' = [request EXCEPT ![q].status = status]
            /\ RecordAudit(handler[h], q, handler[h].existing, status)
    BY <1>7 DEF RecordApprovalDecision
  <2>6. Logged("approval_request.decide", q, "pending", status)
    BY <2>1, <2>4, <2>5, RecordLogged
  <2>7. /\ \A r \in Requests : r # q => Kept(r)
        /\ request'[q].status = status
    BY <2>1, <2>5 DEF TypeOK, RequestRow
  <2> HIDE DEF Kept, q
  <2> QED  BY <1>1, <2>1, <2>3, <2>6, <2>7
<1> QED  BY <1>2, <1>3, <1>4, <1>5, <1>6, <1>7, AuditStep

AuditInv == CountsMatch /\ ReadsClosed /\ ChainInv

\* Every decision, deleted account and deleted target has its one entry, and
\* the states the entries about a request record continue one another although
\* the previous one is read outside the transaction: a handler that read an
\* open request and commits finds it still open.
THEOREM AuditMatchesTablesHolds == Spec => []AuditMatchesTables
<1>1. Init => AuditInv
  <2> SUFFICES ASSUME Init PROVE AuditInv
    OBVIOUS
  <2>1. \A o, x : Count(audit, o, x) = 0
    <3>1. \A o, x : EntriesOf(audit, o, x) = {}
      BY DEF Init, EntriesOf
    <3> QED  BY <3>1, FS_EmptySet DEF Count
  <2>2. CountsMatch
    BY <2>1 DEF Init, CountsMatch
  <2>3. ReadsClosed /\ ChainInv
    BY DEF Init, ReadsClosed, ChainInv, LastEntryAt, ChainedAt
  <2> QED  BY <2>2, <2>3 DEF AuditInv
<1>2. Inv /\ AuditInv /\ [Next]_vars => AuditInv'
  BY CountsStep, ReadsStep, ChainStep DEF Inv, AuditInv
<1>3. Inv /\ AuditInv => AuditMatchesTables
  <2> SUFFICES ASSUME Inv, AuditInv PROVE AuditMatchesTables
    OBVIOUS
  <2>1. \A o, x : Cardinality(AuditOf(o, x)) = Count(audit, o, x)
    BY DEF AuditOf, Count, EntriesOf
  <2>2. ASSUME NEW i \in 1..Len(audit), NEW j \in 1..Len(audit), i < j,
               audit[i].id = audit[j].id, audit[j].op = "approval_request.decide",
               \A k \in i+1..j-1 : audit[k].id # audit[j].id
        PROVE  audit[j].previous = audit[i].resulting
    <3>1. ChainedAt(j) /\ i \in 1..j-1
      BY <2>2 DEF AuditInv, ChainInv, Inv, TypeOK
    <3> QED  BY <2>2, <3>1 DEF ChainedAt
  <2> QED  BY <2>1, <2>2 DEF AuditInv, CountsMatch, AuditMatchesTables
<1> QED  BY <1>1, <1>2, <1>3, InvHolds, PTL DEF Spec
=============================================================================
