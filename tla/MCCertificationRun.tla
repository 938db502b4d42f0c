--------------------------- MODULE MCCertificationRun ---------------------------
(* The last lead has a worker; the other teams have a lead only.            *)
EXTENDS CertificationRun

CONSTANTS lead1, lead2, worker2

Fine == <<"VERIFIED", "report", "fixture">>
Outcomes == lead1 :> {Fine}
  @@ lead2 :> {Fine, <<"FAILED", "report", "fixture">>}
FewOutcomes == {Fine}
OneWorker == worker2 :> lead2
=============================================================================
