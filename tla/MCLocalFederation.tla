-------------------------- MODULE MCLocalFederation --------------------------
(* Values for the constants of LocalFederation: the calls of the example's  *)
(* main while beta follows alpha, with one more Follow before the post.     *)
EXTENDS LocalFederation

Call(op, by, name, domain) == [op |-> op, by |-> by, name |-> name, domain |-> domain]

MCServers == {"alpha", "beta"}

MCCalls == {"follow", "post", "back", "again"}

MCCallOf == [c \in MCCalls |->
    CASE c = "follow" -> Call("follow", "alpha", "beta", "beta")
      [] c = "post"   -> Call("post", "beta", "beta", "beta")
      [] c = "back"   -> Call("follow", "beta", "alpha", "alpha")
      [] c = "again"  -> Call("follow", "alpha", "beta", "beta")]

MCAfter == [c \in MCCalls |->
    CASE c = "again" -> {"follow", "back"}
      [] c = "post"  -> {"again"}
      [] OTHER       -> {}]
=============================================================================
