----------------------------- MODULE MCFollower ----------------------------
\* The follower and its tables in the small world.
EXTENDS FollowerSafety, MCWorld
=============================================================================
