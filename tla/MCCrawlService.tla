--------------------------- MODULE MCCrawlService ---------------------------
(* Instances of CrawlService for TLC. *)
EXTENDS CrawlService, TLC

CONSTANTS j1, j2, w1, w2, r1

OneURL == [j \in Jobs |-> 1]
\* The first job has two URLs.
MixedURLs == [j \in Jobs |-> IF j = j1 THEN 2 ELSE 1]

JobWorkerSymmetry == Permutations(Jobs) \cup Permutations(Workers)
=============================================================================
