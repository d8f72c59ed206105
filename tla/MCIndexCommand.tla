--------------------------- MODULE MCIndexCommand ---------------------------
(* Instance of IndexCommand: a plain file, a file in a folder that one of the  *)
(* two requests excludes, and a file of a second root.                         *)
EXTENDS IndexCommand

MCFiles == {"plain", "cached", "other"}
MCRootOf == [f \in MCFiles |-> IF f = "other" THEN "r2" ELSE "r1"]
MCPatternOf == [f \in MCFiles |-> IF f = "cached" THEN "cache" ELSE "name"]
MCDefault == [roots |-> {"r1"}, excl |-> {"cache"}, rebuild |-> TRUE]
MCRequests ==
    { MCDefault, [roots |-> {"r1", "r2"}, excl |-> {}, rebuild |-> TRUE],
      [roots |-> {"r1"}, excl |-> {}, rebuild |-> FALSE] }
=============================================================================
