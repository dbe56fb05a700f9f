------------------------------- MODULE MCLake -------------------------------
\* Instances of Lake for TLC: the cfg files give its constants their values.
EXTENDS Lake, TLC

\* One stream numbered 1; the partitions of its days are ordered as paths are.
OneStream == {1}
=============================================================================
