--------------------------- MODULE MCShareFetcher ---------------------------
(* Instances of ShareFetcher for TLC.                                      *)
EXTENDS ShareFetcher, TLC

\* MAX_RETRIES as deployed, cut to 2, and the negative value that
\* LoadSidecarConfig lets through.
MCRetryLimits == {-1, 2}
=============================================================================
