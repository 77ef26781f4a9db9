--------------------------- MODULE MCWorkerThread ---------------------------
EXTENDS WorkerThread
OnceOrTwice == [kind \in Kinds \cup {"post"} |->
                  IF kind \in {"message", "post"} THEN 1 ELSE 2]
=============================================================================
