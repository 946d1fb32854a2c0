--------------------------- MODULE MCToolRequests ---------------------------
(* A small instance of ToolRequests: one operation, two businesses, two of  *)
(* the layouts and no layout, and raw paths of every kind.                  *)
EXTENDS ToolRequests, TLC

SomeLayouts == {"", "Service", "TimeBilling"}

OneUid == {"u1"}

SomePaths ==
    {<<>>, <<"https:", "api.myob.com">>, <<"Sale", "..">>, <<"Sale", "?">>,
     <<"Banking", "TransferMoneyTxn">>,
     <<"Sale", "Invoice", "Service", "u1">>, <<"Sale", "CustomerPayment">>,
     <<"Contact", "Customer", "u1">>, <<"GeneralLedger", "GeneralJournal">>,
     <<"Inventory", "Item">>}

Symmetry == Permutations(Business)

=============================================================================
