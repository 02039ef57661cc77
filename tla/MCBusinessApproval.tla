------------------------- MODULE MCBusinessApproval -------------------------
(***************************************************************************)
(* Instances of BusinessApproval for TLC.                                  *)
(***************************************************************************)
EXTENDS BusinessApproval, TLC

AdminApprover == [role |-> "admin",
                  workflowRole |-> "security_compliance_approver"]
Manager == [role |-> "member", workflowRole |-> "release_manager"]

AdminProfiles == {AdminApprover, Manager}

ApprovalOperations == {"target.create", "staff.delete",
                       "approval_request.create", "approval_request.decide"}

Issued == {s \in Staff : staff[s].row # "unused"}

HandlerOps == {handler[h].op : h \in {g \in Handlers : handler[g] # NULL}}

\* Three accounts that may all approve.  One form at a time until there is a
\* request; from then on decisions and deletions of accounts race.
Deciding ==
    /\ \A s \in Issued : staff[s].workflowRole = AdminApprover.workflowRole
    /\ \A i \in 1..Len(audit) : audit[i].op \in ApprovalOperations
    /\ IF \A q \in Requests : request[q].row = "unused"
       THEN /\ Cardinality({h \in Handlers : handler[h] # NULL}) <= 1
            /\ HandlerOps \subseteq {"target.create", "approval_request.create"}
       ELSE HandlerOps \subseteq {"staff.delete", "approval_request.decide"}

\* Two accounts and every form.
Administering == Cardinality(Issued) <= 2 /\ Len(audit) <= 3

\* The states TLC goes on from.
Focus == Deciding \/ Administering

Symmetry == Permutations(Staff) \cup Permutations(Requests)
            \cup Permutations(Handlers) \cup Permutations(Targets)
            \cup Permutations(Credentials)
=============================================================================
