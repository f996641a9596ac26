------------------------------ MODULE MCReports ------------------------------
(* A small instance of both ends of a settlement: the amounts of its report, *)
(* typed in every way, and the rows of its reconciliation.  The two share a  *)
(* run and no state: rows are added while no text has been typed, and a text *)
(* is typed while there is nothing to reconcile.                             *)
EXTENDS MCReconciliation, DecimalAmount

FewExponents == -4..4

ReportInit == Init /\ TextInit

Reconcile == text = Blank(FALSE) /\ Next /\ UNCHANGED text

Read == merchants = << >> /\ records = << >> /\ TextNext /\ UNCHANGED vars

ReportNext == Reconcile \/ Read

ReportSpec == ReportInit /\ [][ReportNext]_<<vars, text>>
=============================================================================
