--------------------------- MODULE MCFinderHandler ---------------------------
(* MakeFindResponse checked against FindResponse, the one-step             *)
(* specification of the response it must build, over every request of up  *)
(* to MaxReq multihashes.                                                  *)
EXTENDS FinderHandler

\* The response as the caller sees it: nothing until the call returns.
Response ==
    [status    |-> IF status \in {"done", "error"} THEN status ELSE "pending",
     results   |-> IF status = "done" THEN results ELSE << >>,
     providers |-> IF status = "done" THEN providerResults ELSE << >>]

FR == INSTANCE FindResponse WITH response <- Response

(* MakeFindResponse implements FindResponse: it returns, and what it       *)
(* returns is an error exactly when a lookup fails, and otherwise the      *)
(* found multihashes in request order and the registered providers once    *)
(* each in first-seen order.                                               *)
ImplementsFindResponse == FR!Spec
=============================================================================
