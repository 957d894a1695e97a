------------------------------ MODULE Conditions ------------------------------
(***************************************************************************)
(* Status conditions of the custom resources, as the controllers use the   *)
(* condition package of lib-common.  A condition list is a function from   *)
(* condition types to a status; a type that is not in the list has status  *)
(* "Absent", and the nil list is the one in which every type is absent.    *)
(* Reasons, severities, messages and transition times are left out: the    *)
(* controllers only ever branch on a status.                               *)
(***************************************************************************)

Status == {"Absent", "Unknown", "False", "True"}

\* The list of a freshly created resource (instance.Status.Conditions == nil).
NilConditions(types) == [t \in types |-> "Absent"]

\* Conditions.MarkTrue, MarkUnknown and Set(FalseCondition(...)).
Mark(conds, t, status) == [conds EXCEPT ![t] = status]

\* Conditions.Init: Ready and every listed type become Unknown.
InitConditions(conds, listed) ==
  [t \in DOMAIN conds |-> IF t \in listed \cup {"Ready"} THEN "Unknown" ELSE conds[t]]

\* Conditions.AllSubConditionIsTrue: every entry of the list other than Ready.
AllSubConditionIsTrue(conds) ==
  \A t \in DOMAIN conds \ {"Ready"} : conds[t] \in {"Absent", "True"}

\* Conditions.Mirror: the status of the most critical entry of the list.
Mirror(conds) ==
  LET present == {conds[t] : t \in DOMAIN conds}
  IN  CASE "False" \in present -> "False"
        [] "False" \notin present /\ "Unknown" \in present -> "Unknown"
        [] OTHER -> "True"

\* Mutant: Ready is True as soon as no condition is False.
UpdateReadyTooSoon(conds) ==
  IF \A t \in DOMAIN conds \ {"Ready"} : conds[t] # "False"
  THEN Mark(conds, "Ready", "True")
  ELSE Mark(conds, "Ready", "False")

\* The deferred function that every Reconcile installs: Ready is recomputed
\* from the other conditions before the instance is patched.
UpdateReady(conds) ==
  IF AllSubConditionIsTrue(conds)
  THEN Mark(conds, "Ready", "True")
  ELSE Mark(conds, "Ready", Mirror(Mark(conds, "Ready", "Unknown")))
===============================================================================
