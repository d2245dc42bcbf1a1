----------------------------- MODULE MCTaskRunner -----------------------------
(* Instances of TaskRunner for TLC: the job descriptions and the symmetry.  *)
EXTENDS TaskRunnerInv, TLC

Description(c, p, n, y, t) ==
    [cancellable |-> c, priority |-> p, repeat |-> n, retry |-> y, time |-> t]

\* A cancellable job that repeats forever and an urgent one that retries.
KindsMixed == {Description(TRUE, REGULAR, Forever, "none", "now"),
               Description(FALSE, HIGH, 1, "later", "now")}

\* Jobs that come and go, one that repeats forever, one that is retried at once
\* when it fails, and one that nobody may cancel.
KindsRepeating == {Description(TRUE, REGULAR, Forever, "none", "now")}
KindsCancellable == {Description(TRUE, REGULAR, 0, "none", "now")}
KindsRequests == {Description(TRUE, REGULAR, 0, "now", "now")}
KindsUrgent == {Description(FALSE, HIGH, 0, "none", "now")}
KindsLive == {Description(TRUE, REGULAR, Forever, "later", "now"),
              Description(TRUE, REGULAR, 0, "none", "later")}

Symmetric == Permutations(Jobs) \cup Permutations(Futures) \cup Permutations(Requests)
=============================================================================
