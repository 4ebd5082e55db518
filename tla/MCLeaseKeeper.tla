--------------------------- MODULE MCLeaseKeeper ---------------------------
(* Instances of LeaseKeeper for TLC. *)
EXTENDS LeaseKeeper, TLC

CONSTANTS i1, i2, core_leader

Instances == {i1, i2}
OneInstance == {i1}
Leases    == {core_leader}
Symmetry  == Permutations(Instances)

NoReleases  == {"stop", "crash", "unreachable"}
OnlyRelease == {"release_now"}
ByHand      == {"forget", "release_now", "force_release"}

\* At most two releases under way at any time.
FewReleases == Cardinality(UNION {{<<i, r>> : r \in releases[i]} : i \in Keeper}) <= 2
=============================================================================
