----------------------------- MODULE MCSlaClock -----------------------------
(* Small instances of SlaClock: a target of two units, a chain of two      *)
(* levels, and a maintenance window planned over the deadline or none.     *)
EXTENDS SlaClock

CONSTANTS w1, w2

MCAllClasses == {"run", "pause", "stop", "none"}
MCNoNone == {"run", "pause", "stop"}
MCCloseLevels == <<0, 1>>
MCLevels == <<0, 2>>
MCWindows == {{}, {2, 3}}
MCNoWindow == {{}}
MCOneWorker == {w1}
MCWorkers == {w1, w2}

MCSymmetry == {[w \in MCWorkers |-> w],
               [w \in MCWorkers |-> IF w = w1 THEN w2 ELSE w1]}

=============================================================================
