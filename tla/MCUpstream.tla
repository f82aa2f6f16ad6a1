----------------------------- MODULE MCUpstream -----------------------------
\* The follower and one API request calling two URLs.
EXTENDS Upstream
MCCallers == {"follower", "api"}
=============================================================================
