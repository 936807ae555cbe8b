------------------------------ MODULE MCPortal ------------------------------
(* A small instance for TLC of what the officers' portal is about: the sign-in *)
(* (DpoAuth), the overview (Dashboard) and the reports and previews of columns *)
(* (PiiColumn).  They share no state: a behaviour is of one of them.  It goes  *)
(* through a few samples of a column, or through as many as a scan takes of a  *)
(* column of e-mails with gaps.                                                *)
EXTENDS DpoAuth, Dashboard, PiiColumn

VARIABLE subject

CONSTANTS t1, t2, s1, s2

BothOfficers == <<"dpo_admin", "auditor_vikram">>
TwoTokens == {t1, t2}
TwoPolls == {s1, s2}

Plain(shape, size) == [NoValue EXCEPT !.shape = shape, !.size = size]
Mail(shape, user) == [NoValue EXCEPT !.shape = shape, !.size = user + 6, !.user = user]
Number(size, v, l, in) ==
  [NoValue EXCEPT !.shape = "number", !.size = size, !.verhoeff = v, !.luhn = l, !.indian = in]

MCValues ==
  {Mail("email", 1), Mail("email", 3), Mail("address", 0), Mail("address", 2),
   Plain("pan", 10), Mail("upi", 3), Mail("provider", 9), Number(10, FALSE, FALSE, TRUE),
   Number(12, TRUE, FALSE, TRUE), Number(13, TRUE, TRUE, TRUE),
   Number(12, FALSE, FALSE, FALSE), Number(16, TRUE, FALSE, FALSE),
   Plain("text", 4), Plain("text", 5)}

SparseValues == {Mail("email", 3), Plain("text", 4)}

(* The samples of a column of any values; MaxSamples bounds one of SparseValues. *)
FewSamples == 4

MCColumnTypes == {"NONE", "PHONE", "EMAIL", "NAME"}

MCInit ==
  /\ AuthInit /\ DashboardInit /\ ColumnInit
  /\ \/ subject \in {"auth", "dashboard"} /\ suggested = "NONE"
     \/ subject = "column"
     \/ subject = "sparse column" /\ suggested \in {"NONE", "EMAIL"}
MCNext ==
  \/ subject = "auth" /\ AuthNext /\ UNCHANGED <<dashboardVars, columnVars, subject>>
  \/ subject = "dashboard" /\ DashboardNext /\ UNCHANGED <<authVars, columnVars, subject>>
  \/ /\ subject = "column" /\ sampled < FewSamples
     /\ ColumnNext
     /\ UNCHANGED <<authVars, dashboardVars, subject>>
  \/ /\ subject = "sparse column"
     /\ \E v \in SparseValues : ClassifySample(v)
     /\ UNCHANGED <<authVars, dashboardVars, subject>>
MCSpec ==
  /\ MCInit /\ [][MCNext]_<<authVars, dashboardVars, columnVars, subject>>
  /\ subject = "dashboard" => DashboardFairness
=============================================================================
