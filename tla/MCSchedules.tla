----------------------------- MODULE MCSchedules -----------------------------
(* Small instances of Schedules for TLC.                                    *)
EXTENDS Schedules

\* The default, the shortest schedule, one shorter than any phase, and one of
\* several phases none of whose sums fits it exactly; limits that are negative,
\* zero, below, at and above the floor of a sustained load.
RandomInputs ==
    [kind : {"random"}, duration : {-1, 0, 1, 2, 8, 11}, hasCPU : BOOLEAN, hasMem : BOOLEAN,
     cpuMax : {-1, 0, 1, 2, 4}, memMax : {-1, 0, 2}]

\* Limits that are negative, zero, odd, the usual ones, and such that shares of
\* them are whole numbers.
OtherInputs ==
    [kind : Kinds \ {"random"}, duration : {0}, hasCPU : {TRUE}, hasMem : {TRUE},
     cpuMax : {-90, 0, 7, 85, 90, 100}, memMax : {-7, 0, 666}]

MCInputs == RandomInputs \cup OtherInputs
MCWaves == {0, 1, 500, 999, 1000}
=============================================================================
