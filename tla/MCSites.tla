-------------------------------- MODULE MCSites --------------------------------
(* Two sites, two domains and the file of an nginx that was there before.  *)
EXTENDS SiteMaintenance, TLC

Alike == Permutations(SiteIds) \cup Permutations(Domains) \cup Permutations(Htmls)
         \cup Permutations(Certs)
=============================================================================
