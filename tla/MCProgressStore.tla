-------------------------- MODULE MCProgressStore ---------------------------
(* Instances of ProgressStore, and ProgressRead over small tables, for TLC. *)
EXTENDS ProgressStore, ProgressRead

ASSUME ListingAssumption == ListingIsComplete(4)
ASSUME LookupAssumption == ListedIsFound(4)
ASSUME SitesAssumption == SitesArePartitioned(4)
ASSUME LimitsAssumption == LimitsAreKept
=============================================================================
