--------------------------- MODULE MCSpecialistTask ---------------------------
(***************************************************************************)
(* Instances of SpecialistTask for TLC: reference counts at and past the   *)
(* edges of the bands (none, one, two, more than a finding quotes), hashes *)
(* at both ends, in the middle and where rounding is a tie.                *)
(***************************************************************************)
EXTENDS SpecialistTask

Numbers(m, l, d) == [metrics |-> m, logs |-> l, deploy |-> d]

MCInputs ==
    {[metrics |-> m, logs |-> l, deploy |-> d, suspicious |-> l = 2, hash |-> h] :
     m \in {0, 1, 17}, l \in {0, 1, 2}, d \in {"absent", "other", "release"},
     h \in {Numbers(0, 999, 999), Numbers(999, 250, 999)}}

PlainInputs == {[metrics |-> 1, logs |-> 0, deploy |-> "absent", suspicious |-> FALSE,
                 hash |-> Numbers(500, 500, 500)]}
=============================================================================
