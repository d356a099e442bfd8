---------------------------- MODULE MCGateInputs ----------------------------
(* Small diffs for GateInputs: up to four files with three retained, one of   *)
(* them changed differently in two diffs, one without a patch, two too long.  *)
EXTENDS GateInputs

CONSTANTS a, b, c, d

File(path, text, size) == [path |-> path, text |-> text, size |-> size]

Diffs == {<<File(a, 1, 0), File(b, 1, 1)>>,
          <<File(a, 1, 1), File(b, 1, 1), File(c, 1, 1)>>,
          <<File(a, 1, 1), File(b, 1, 1), File(c, 2, 1)>>,
          <<File(a, 1, 1), File(b, 1, 2), File(c, 2, 2)>>,
          <<File(a, 1, 1), File(b, 1, 1), File(c, 1, 1), File(d, 1, 1)>>}

SmallHistories == [diff : Diffs, commits : {<<1>>, <<1, 2>>}]

=============================================================================
