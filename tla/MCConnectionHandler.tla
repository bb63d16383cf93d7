------------------------ MODULE MCConnectionHandler ------------------------
(* Inputs for the runs of ConnectionHandler.                              *)
EXTENDS ConnectionHandler

CONSTANT Named    \* a prepared statement with a name

Single(S) == {<<s>> : s \in S}

(* Everything a Query may hold.                                           *)
QueryScripts ==
    Single(Statements)
    \cup {<<"work", "work">>, <<"work", "begin", "work">>, <<"begin", "work", "commit">>,
          <<"work", "commit", "work">>, <<"work", "rollback", "work">>,
          <<"deallocate", "work">>, <<"work", "deallocate">>,
          <<"work", "copyIn", "work">>, <<"copyFile", "work", "commit">>}

CopyScripts == Single({"copyIn", "work", "copyOut", "discard"})

CopyFileScripts == Single({"copyFile", "work"})

CopyBlockScripts == Single({"begin", "copyIn", "work"})

=============================================================================
