----------------------------- MODULE MCMaintenance -----------------------------
(* The instance of Maintenance the runs check: a release with the WAL-reset    *)
(* fix, the last release before it, and a backport, which knows no limit of    *)
(* its own for PRAGMA optimize, next to the branch above it.                  *)
EXTENDS Maintenance

MCVersions == {<<3, 51, 3>>, <<3, 51, 2>>, <<3, 44, 6>>, <<3, 45, 0>>}
================================================================================
