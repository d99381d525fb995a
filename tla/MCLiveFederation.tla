-------------------------- MODULE MCLiveFederation --------------------------
(* Values for the constants of LiveFederation: an author who posts and      *)
(* follows the bot, which does not understand that.                         *)
EXTENDS LiveFederation

MCAuthors == {"author"}

MCPosts == {"post", "follow"}

MCPostOf == [p \in MCPosts |->
    [by |-> "author", kind |-> IF p = "follow" THEN "follow" ELSE "create"]]

MCIdentifiers == [name : {"alison", "bob"}, domain : {"example.com", "example.org"}]
=============================================================================
