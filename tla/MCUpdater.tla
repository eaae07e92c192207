------------------------------ MODULE MCUpdater ------------------------------
(* Updater for TLC: a release, its successor's candidate, and the successor;   *)
(* the candidate's archive holds the client alone.                            *)
EXTENDS Updater

Both == {"sa05", "sa05ctl"}
Version(major, minor, preRelease) ==
  [major |-> major, minor |-> minor, patch |-> 0, preRelease |-> preRelease]
MCReleases ==
  <<[version |-> Version(0, 9, 0), binaries |-> Both],
    [version |-> Version(0, 10, 1), binaries |-> {"sa05"}],
    [version |-> Version(0, 10, 0), binaries |-> Both]>>
=============================================================================
