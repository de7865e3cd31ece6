------------------------------ MODULE MCPurge ------------------------------
(***************************************************************************)
(* Constants of the model-checking runs of PurgeExecution.                 *)
(***************************************************************************)
EXTENDS PurgeProperties, TLC

CONSTANTS own, ctl, rco, nobody, e1, e2, noexec, h1

\* Three people with overlapping duties: own may request, approve first,
\* administer policies and hold; ctl may request, approve second and execute;
\* rco may approve first and second, and execute.
Staff(roles) == [tenant |-> TRUE, company |-> TRUE, member |-> TRUE,
                 roles |-> roles, assurance |-> 1]
MCProfile ==
    own :> Staff({"accountant", "tenant_records_owner"}) @@
    ctl :> Staff({"controller"}) @@
    rco :> Staff({"records_compliance_officer", "tax_responsible"})

MCKinds == {"legal", "other"}

\* Policy contents for an object of period 2: single approval with every kind
\* of hold blocking, dual approval with legal holds blocking, and a floor the
\* object has not reached.  A new version thus changes the number of approvals,
\* what blocks and whether anything is due.
Single    == [enabled |-> TRUE, minPeriod |-> 1, dual |-> FALSE, kinds |-> MCKinds]
Dual      == [Single EXCEPT !.dual = TRUE, !.kinds = {"legal"}]
NotDue    == [Single EXCEPT !.minPeriod = 3]
Disabled  == [Dual EXCEPT !.enabled = FALSE]
Drifting  == {Single, Dual, NotDue, Disabled}

\* The hold blocks under the first and the third.
OneOther  == h1 :> "other"

=============================================================================
