---------------------------- MODULE MCRedisCache ----------------------------
(* Model-checking instance of RedisCache: clients are interchangeable, and *)
(* so are keys.                                                            *)
EXTENDS RedisCache

Symmetry == Permutations(Clients) \cup Permutations(Keys)
=============================================================================
