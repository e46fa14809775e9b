--------------------------- MODULE MCScanPipeline ---------------------------
(* Instances of ScanPipeline for TLC.                                      *)
EXTENDS ScanPipeline

F(c, k, s) == [check |-> c, key |-> k, severity |-> s]

\* Two findings of one fingerprint and a second fingerprint where it matters.
MCProduces ==
  [c \in {"deps", "disclosure", "injection", "stored", "envelope", "upload", "csrf", "fixation",
          "logout", "weak", "headers"} |->
     IF c \in {"headers", "injection"} THEN <<F(c, 1, "high"), F(c, 1, "low"), F(c, 2, "low")>>
     ELSE <<F(c, 1, "low")>>]

MCConfigs == [mode : {"passive", "active"}, attested : BOOLEAN, 
              on : {x \union y : x \in SUBSET {"login", "test_logout", "stored_xss", "file_upload", "har"},
                                 y \in {{}, {"static", "post_forms", "openapi", "csrf_confirm", "probe", "osv"}}}]

\* A disabled set leaves at most four checks, so that every order they end in is explored.
MCDisabled ==
  LET keep == {{"headers", "deps", "disclosure"}, {"injection", "stored", "csrf", "headers"},
               {"upload", "envelope", "logout"}, {"fixation", "weak", "headers"}}
  IN {DOMAIN MCProduces \ k : k \in keep} \union {(DOMAIN MCProduces \ {"headers"}) \union {"typo"}}
=============================================================================
