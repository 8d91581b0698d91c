----------------------------- MODULE MCRepoFetch -----------------------------
(* A fetch over the node's cache for model checking: the bounds are in the configuration. *)
EXTENDS RepoFetch
=============================================================================
