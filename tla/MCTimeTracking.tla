--------------------------- MODULE MCTimeTracking ---------------------------
(* The time-tracking service on a small instance: two sessions of one week,
   hours of two seconds at three cents. *)
EXTENDS TimeTracking, TLC

CONSTANTS s1, s2, t1, t2, w1, h1, h2

MCScores == {[seconds |-> 1, suspicious |-> FALSE],
             [seconds |-> 2, suspicious |-> TRUE]}

(* Sessions, slices and handlers are interchangeable. *)
MCSymmetry == Permutations(Sessions) \cup Permutations(Starts)
                \cup Permutations(Handlers)

MCSheetOf == [s \in Sessions |-> w1]
=============================================================================
