----------------------------- MODULE Endpoints -----------------------------
(***************************************************************************)
(* The registry of MYOB endpoints, the paths and methods that tools accept *)
(* and the risk of an operation.  A path is the sequence of its segments;  *)
(* a leading slash is added where it is missing, so it is not a segment.   *)
(***************************************************************************)
EXTENDS Sequences

UidField == "{uid}"
LayoutField == "{layout}"

-----------------------------------------------------------------------------
(* ENTITY_ENDPOINTS.                                                       *)

list_path ==
    [account          |-> <<"GeneralLedger", "Account">>,
     tax_code         |-> <<"GeneralLedger", "TaxCode">>,
     job              |-> <<"GeneralLedger", "Job">>,
     customer         |-> <<"Contact", "Customer">>,
     supplier         |-> <<"Contact", "Supplier">>,
     employee         |-> <<"Contact", "Employee">>,
     invoice          |-> <<"Sale", "Invoice">>,
     sales_order      |-> <<"Sale", "Order">>,
     customer_payment |-> <<"Sale", "CustomerPayment">>,
     bill             |-> <<"Purchase", "Bill">>,
     supplier_payment |-> <<"Purchase", "SupplierPayment">>,
     bank_account     |-> <<"Banking", "BankAccount">>,
     spend_money      |-> <<"Banking", "SpendMoneyTxn">>,
     receive_money    |-> <<"Banking", "ReceiveMoneyTxn">>,
     journal          |-> <<"GeneralLedger", "GeneralJournal">>,
     item             |-> <<"Inventory", "Item">>]

Entity == DOMAIN list_path

Contacts == {"customer", "supplier", "employee"}
HaveLayouts == {"invoice", "sales_order", "bill"}
Transactions == {"customer_payment", "supplier_payment", "spend_money", "receive_money", "journal"}
Maintained == {"customer", "supplier", "item"}

\* The entities that have a path for what a call does.
Supporting ==
    [list   |-> Entity,
     get    |-> Entity \ {"tax_code", "bank_account"},
     create |-> Maintained \cup HaveLayouts \cup Transactions,
     update |-> Maintained \cup HaveLayouts,
     delete |-> HaveLayouts]

\* The path registered for it.
Template(entity, does) ==
    LET base == list_path[entity]
        layouts == IF entity \in HaveLayouts THEN Append(base, LayoutField) ELSE base
    IN  [list   |-> base,
         get    |-> IF entity \in Contacts THEN <<"Contact", UidField>> ELSE Append(base, UidField),
         create |-> layouts,
         update |-> Append(layouts, UidField),
         delete |-> Append(layouts, UidField)][does]

\* replace("{layout}", layout or "").replace("{uid}", uid)
Filled(template, layout, uid) ==
    [i \in DOMAIN template |->
        IF template[i] = LayoutField THEN layout
        ELSE IF template[i] = UidField THEN uid
        ELSE template[i]]

-----------------------------------------------------------------------------
(* validate_relative_path, validate_method.                                *)

\* A scheme, a parent directory or a query string anywhere in a path.
Unsafe == {"https:", "..", "?"}

ValidPath(path) == path # <<>> /\ \A i \in DOMAIN path : path[i] \notin Unsafe

Mutating == {"POST", "PUT", "PATCH", "DELETE"}

ValidMethod(method) == method \in Mutating

-----------------------------------------------------------------------------
(* classify_operation.                                                     *)

\* The words of types, methods and paths that contain a term, in any case.
Spelled ==
    [delete       |-> {"delete", "DELETE"},
     void         |-> {"void", "Void"},
     payment      |-> {"customer_payment", "supplier_payment", "CustomerPayment", "SupplierPayment"},
     spendmoney   |-> {"SpendMoneyTxn"},
     receivemoney |-> {"ReceiveMoneyTxn"},
     journal      |-> {"journal", "GeneralJournal"},
     invoice      |-> {"invoice", "Invoice"},
     bill         |-> {"bill", "Bill", "TimeBilling"},
     order        |-> {"sales_order", "Order"},
     attachment   |-> {"attachment", "Attachment"},
     customer     |-> {"customer", "customer_payment", "Customer", "CustomerPayment"},
     supplier     |-> {"supplier", "supplier_payment", "Supplier", "SupplierPayment"},
     contact      |-> {"Contact"}]

Mentions(words, terms) == \E t \in terms : words \cap Spelled[t] # {}

FaultyClassify(type, method, path, body) ==
    LET words == {type[i] : i \in DOMAIN type} \cup {method} \cup {path[i] : i \in DOMAIN path}
    IN  IF Mentions(words, {"delete", "void"}) THEN "critical"
        ELSE IF Mentions(words, {"customer", "supplier", "contact"}) THEN "low"
        ELSE IF Mentions(words, {"payment", "spendmoney", "receivemoney", "journal"}) THEN "high"
        ELSE "medium"

\* The first rule that applies: a customer payment is a payment.
classify_operation(type, method, path, body) ==
    LET words == {type[i] : i \in DOMAIN type} \cup {method} \cup {path[i] : i \in DOMAIN path}
    IN  IF Mentions(words, {"delete", "void"}) THEN "critical"
        ELSE IF Mentions(words, {"payment", "spendmoney", "receivemoney", "journal"}) THEN "high"
        ELSE IF Mentions(words, {"invoice", "bill", "order", "attachment"}) THEN "medium"
        ELSE IF Mentions(words, {"customer", "supplier", "contact"}) THEN "low"
        ELSE IF body THEN "medium"
        ELSE "low"

=============================================================================
