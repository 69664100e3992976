--------------------------- MODULE MCUserCommands ---------------------------
EXTENDS UserCommands, TLC

\* Two commands that write the session or the binding, and one that cleans up
\* or deletes under them.
MCCommands == 1 :> {"login", "init", "sync"}
           @@ 2 :> {"login", "logout", "init", "relink", "unlink"}
           @@ 3 :> {"delete", "list"}
=============================================================================
