--------------------------- MODULE MCRateLimiter ----------------------------
(* The rate limiter for TLC: the instance is given in limiter.cfg.         *)
EXTENDS RateLimiter
=============================================================================
