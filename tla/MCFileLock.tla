----------------------------- MODULE MCFileLock -----------------------------
(***************************************************************************)
(* Instances of FileLock.  Three processes with one task each; p1 and p3   *)
(* share a process id, so that p3 can only run when p1 does not, and is    *)
(* taken for p1 by anybody who looks at the id alone.                      *)
(***************************************************************************)
EXTENDS FileLock, Naturals

CONSTANTS p1, p2, p3, t1, t2, t3, hostA

MCProcess == {p1, p2, p3}
MCTask == {t1, t2, t3}
MCProcessOf == [t \in Task |-> CASE t = t1 -> p1 [] t = t2 -> p2 [] t = t3 -> p3]
MCPidOf == [p \in Process |-> IF p = p2 THEN 2 ELSE 1]

\* One machine, start times readable.
OneHost == [p \in Process |-> hostA]
ReadableStart == [p \in Process |-> IF p = p1 THEN 10 ELSE IF p = p2 THEN 20 ELSE 30]
=============================================================================
