---------------------------- MODULE MCController ----------------------------
(* An instance of Controller for TLC: --jobs above and below --max-jobs, a *)
(* memory budget that bites, and a rate cap from each of its two sources.  *)
EXTENDS Controller

MCOptions ==
  { [percent |-> 80, jobs |-> 1, max_jobs |-> 3, limit_rate |-> 3,
     scheme |-> "s3", sizes |-> <<2, 1>>],
    [percent |-> 50, jobs |-> 3, max_jobs |-> -1, limit_rate |-> 0,
     scheme |-> "gcs", sizes |-> <<1, 3, 2>>],
    [percent |-> 100, jobs |-> 0, max_jobs |-> 0, limit_rate |-> 0,
     scheme |-> "s3", sizes |-> <<>>] }

MCBackendRates ==
  [s3 |-> [read |-> 0, write |-> 0], gcs |-> [read |-> 4, write |-> 2]]
=============================================================================
