------------------------- MODULE MCDailyTimesheets -------------------------
(***************************************************************************)
(* Instances of DailyTimesheets for TLC.                                   *)
(***************************************************************************)
EXTENDS DailyTimesheets, TLC

\* One employee each, with one interval of the day.
MCPayloads == {{l} : l \in Labour}

\* Ids are drawn in order: which of two rows a scan locks first follows their
\* age.
MCInOrder ==
  \A s \in Sheets : sheets[s].status # "absent" =>
    \A o \in Sheets : o < s => sheets[o].status # "absent"

MCSymmetry == Permutations(Requests) \cup Permutations(Employees)

=============================================================================
