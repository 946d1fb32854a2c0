---------------------------- MODULE ToolRequests ----------------------------
(***************************************************************************)
(* From the arguments of a tool to the request that MYOB gets: what a      *)
(* write tool prepares and shows to the person who approves it, and what   *)
(* is sent when it is committed, after other calls, which select other     *)
(* businesses, and restarts, which may find another configuration.         *)
(*                                                                         *)
(* Whether an operation may be committed is the subject of ApprovalBroker; *)
(* here any prepared one is, any number of times.  How the business in use *)
(* comes about is that of TokenRegistry; here it may change at any moment. *)
(* A uid that is no GUID, a path or a method that is refused, and an       *)
(* entity without an endpoint end the call before it does anything; but    *)
(* the tools that add a uid to a layout take an empty one as one that is   *)
(* left out, and prepare a request that names no record.                   *)
(*                                                                         *)
(* An operator named Faulty... is a plausible mistake in the one after it; *)
(* no action uses it, the mutation runs substitute it.                     *)
(***************************************************************************)
EXTENDS Configuration, Endpoints

CONSTANTS
    Operation,      \* operation ids
    Layout,         \* the layouts MYOB has (registry.py 44), and NotGiven
    Uid,            \* GUIDs of records
    RawPath,        \* paths a caller may give to the raw tools, good or bad
    MaxFiles        \* bound: candidates that may name a configuration file

\* What the code takes for an argument that is left out.
NotGiven == ""

\* No GUID is empty or contains a term that the rules for risks look for, nor do
\* MYOB's layouts contain one of the rules that come before that for sales.  The
\* code checks the form of a GUID, and takes any text for a layout.
PlainWords ==
    /\ NotGiven \notin Uid
    /\ \A term \in DOMAIN Spelled : Uid \cap Spelled[term] = {}
    /\ ~Mentions(Layout, {"delete", "void", "payment", "spendmoney", "receivemoney", "journal"})

ASSUME WordsArePlain == PlainWords

VARIABLES
    config,     \* what load_config returned when the server started
    forbidden,  \* history: WritesForbidden then
    active,     \* MyobOAuth.business_id(): the business in use, or None
    store,      \* store[o]: the prepared operation, as shown
    sent        \* history: the last mutation sent to MYOB, and what was shown of it

toolsVars == <<config, forbidden, active, store, sent>>

NotPrepared == [prepared |-> FALSE]
NothingSent == [sent |-> FALSE]

\* What a caller of an entity tool, or of a tool named for an entity, asks for.
Intent(entity, does, layout, uid) ==
    [entity |-> entity, does |-> does, layout |-> layout, uid |-> uid]

NoIntent == Intent("any", "any", NotGiven, NotGiven)

\* Every configuration a server can start with.
Starts ==
    {[config |-> load_config(files, env), forbidden |-> WritesForbidden(files, env)] :
        files \in Candidates(MaxFiles), env \in Environment}

ToolsInit ==
    /\ \E start \in Starts : config = start.config /\ forbidden = start.forbidden
    /\ active \in Business \cup {None}
    /\ store = [o \in Operation |-> NotPrepared]
    /\ sent = NothingSent

-----------------------------------------------------------------------------
(* The tools named for what they do.                                       *)

Tool(type, method, path, risk) == [type |-> type, method |-> method, path |-> path, risk |-> risk]

WriteTools ==
    {Tool(<<"customer", "create">>, "POST", <<"Contact", "Customer">>, None),
     Tool(<<"customer", "update">>, "PUT", <<"Contact", "Customer">>, None),
     Tool(<<"supplier", "create">>, "POST", <<"Contact", "Supplier">>, None),
     Tool(<<"supplier", "update">>, "PUT", <<"Contact", "Supplier">>, None),
     Tool(<<"invoice", "create">>, "POST", <<"Sale", "Invoice">>, None),
     Tool(<<"invoice", "update">>, "PUT", <<"Sale", "Invoice">>, None),
     Tool(<<"invoice", "delete">>, "DELETE", <<"Sale", "Invoice">>, "critical"),
     Tool(<<"sales_order", "create">>, "POST", <<"Sale", "Order">>, None),
     Tool(<<"bill", "create">>, "POST", <<"Purchase", "Bill">>, None),
     Tool(<<"bill", "update">>, "PUT", <<"Purchase", "Bill">>, None),
     Tool(<<"customer_payment", "record">>, "POST", <<"Sale", "CustomerPayment">>, "high"),
     Tool(<<"supplier_payment", "record">>, "POST", <<"Purchase", "SupplierPayment">>, "high"),
     Tool(<<"spend_money", "create">>, "POST", <<"Banking", "SpendMoneyTxn">>, "high"),
     Tool(<<"receive_money", "create">>, "POST", <<"Banking", "ReceiveMoneyTxn">>, "high"),
     Tool(<<"journal", "create">>, "POST", <<"GeneralLedger", "GeneralJournal">>, "high"),
     Tool(<<"inventory_item", "create">>, "POST", <<"Inventory", "Item">>, None)}

\* The entity and the operation of the registry that a tool is about.
AsEntity(name) == IF name = "inventory_item" THEN "item" ELSE name
AsOperation(name) == IF name = "record" THEN "create" ELSE name

\* _layout_path leaves out the segments of a layout and a uid that are not given.
LayoutPath(base, layout, uid) ==
    LET laid_out == IF layout = NotGiven THEN base ELSE Append(base, layout)
    IN  IF uid = NotGiven THEN laid_out ELSE Append(laid_out, uid)

\* A tool for one of the documents that have layouts takes one, and a tool that
\* changes a record takes its uid.
PathOf(tool, layout, uid) ==
    LayoutPath(tool.path, IF tool.type[1] \in HaveLayouts THEN layout ELSE NotGiven,
               IF tool.method = "POST" THEN NotGiven ELSE uid)

\* The paths of the list tools, and of the get tools without what an argument
\* adds, by the entity they are named for.
ListTools ==
    [account |-> <<"GeneralLedger", "Account">>, tax_code |-> <<"GeneralLedger", "TaxCode">>,
     job |-> <<"GeneralLedger", "Job">>, customer |-> <<"Contact", "Customer">>,
     supplier |-> <<"Contact", "Supplier">>, employee |-> <<"Contact", "Employee">>,
     invoice |-> <<"Sale", "Invoice">>, bill |-> <<"Purchase", "Bill">>,
     customer_payment |-> <<"Sale", "CustomerPayment">>,
     supplier_payment |-> <<"Purchase", "SupplierPayment">>,
     bank_account |-> <<"Banking", "BankAccount">>, spend_money |-> <<"Banking", "SpendMoneyTxn">>,
     receive_money |-> <<"Banking", "ReceiveMoneyTxn">>, item |-> <<"Inventory", "Item">>,
     journal |-> <<"GeneralLedger", "GeneralJournal">>]

GetTools ==
    [account |-> <<"GeneralLedger", "Account">>, customer |-> <<"Contact">>,
     supplier |-> <<"Contact">>, employee |-> <<"Contact">>,
     invoice |-> <<"Sale", "Invoice">>,
     bill |-> <<"Purchase", "Bill">>]

-----------------------------------------------------------------------------
(* Preparing.                                                              *)

\* _business_id of the write tools: the one shown, and stored.
Shown(business) == Or(business, Or(active, config.default_business_id))

\* _prepare, and ApprovalBroker.prepare.
Prepares(o, type, method, path, business, risk, body, intent) ==
    /\ store[o] = NotPrepared
    /\ ValidPath(path) /\ ValidMethod(method)
    /\ config.allow_writes
    /\ store' = [store EXCEPT ![o] =
          [method |-> method, path |-> path, business |-> Shown(business), intent |-> intent,
           risk |-> Or(risk, classify_operation(type, method, path, body)),
           chosen |-> risk # None /\ intent = NoIntent]]
    /\ UNCHANGED <<config, forbidden, active, sent>>

\* myob_raw_prepare_mutation.
PrepareRaw(o, business) ==
    \E method \in Mutating \cup {"GET", "TRACE"}, path \in RawPath, body \in BOOLEAN,
       risk \in {None, "low", "high"} :
        Prepares(o, <<"raw", "mutation">>, method, path, business, risk, body, NoIntent)

\* myob_entity_prepare_create, myob_entity_prepare_update.
PrepareEntity(o, business) ==
    \E does \in {"create", "update"}, layout \in Layout, uid \in Uid, body \in BOOLEAN :
    \E entity \in Supporting[does] :
        Prepares(o, <<entity, does>>, IF does = "create" THEN "POST" ELSE "PUT",
                 Filled(Template(entity, does), layout, uid), business, None, body,
                 Intent(entity, does, layout, uid))

\* myob_customer_prepare_create, and the others.  Those that leave the uid to
\* _layout_path, which has only one that is not empty validated, take an empty one.
PrepareNamed(o, business) ==
    \E tool \in WriteTools, layout \in Layout, uid \in Uid \cup {NotGiven}, body \in BOOLEAN :
        /\ uid = NotGiven => tool.type[1] \in HaveLayouts
        /\ Prepares(o, tool.type, tool.method, PathOf(tool, layout, uid), business,
                    tool.risk, body,
                    Intent(AsEntity(tool.type[1]), AsOperation(tool.type[2]), layout, uid))

\* myob_attachment_prepare_upload: the parent is validated before the rest is added.
PrepareAttachment(o, business) ==
    \E parent \in RawPath :
        /\ ValidPath(parent)
        /\ Prepares(o, <<"attachment", "upload">>, "POST", Append(parent, "Attachment"),
                    business, "medium", TRUE, NoIntent)

-----------------------------------------------------------------------------
(* Sending.                                                                *)

FaultySelected(business) == Or(active, Or(business, config.default_business_id))

\* MyobClient._business_id: once for the headers and the URL of a request.
Selected(business) == Or(business, Or(active, config.default_business_id))

\* _commit, as far as the request; without a business it raises.
Commit(o) ==
    /\ store[o] # NotPrepared
    /\ Selected(store[o].business) # None
    /\ sent' = [shown |-> store[o],
                got |-> [method |-> store[o].method, path |-> store[o].path,
                         business |-> Selected(store[o].business)]]
    /\ active' = Selected(store[o].business)
    /\ UNCHANGED <<config, forbidden, store>>

\* A read tool's request makes its business the one in use.
Read(business) ==
    /\ Selected(business) # None
    /\ active' = Selected(business)
    /\ UNCHANGED <<config, forbidden, store, sent>>

\* The auth tools set, remove and forget it.
Select ==
    /\ active' \in Business \cup {None}
    /\ UNCHANGED <<config, forbidden, store, sent>>

\* The server starts again, in an environment that may have changed.
Restart ==
    /\ \E start \in Starts : config' = start.config /\ forbidden' = start.forbidden
    /\ active' \in Business \cup {None}
    /\ UNCHANGED <<store, sent>>

ToolsNext ==
    \/ \E business \in Business \cup {None} :
        \/ \E o \in Operation :
            \/ PrepareRaw(o, business) \/ PrepareEntity(o, business)
            \/ PrepareNamed(o, business) \/ PrepareAttachment(o, business)
        \/ Read(business)
    \/ \E o \in Operation : Commit(o)
    \/ Select \/ Restart

ToolsSpec == ToolsInit /\ [][ToolsNext]_toolsVars

-----------------------------------------------------------------------------
(* Properties.                                                             *)

\* What MYOB gets is what the person who approved it was shown, the business
\* included where one was: the calls and restarts between preparing and
\* committing, which change the business in use, do not redirect it.
SentAsPrepared ==
    sent # NothingSent =>
        /\ sent.got.method = sent.shown.method
        /\ sent.got.path = sent.shown.path
        /\ sent.shown.business # None => sent.got.business = sent.shown.business

\* A server that was told that nothing may be written prepares nothing, however
\* the environment and the files of a start disagree (config.py 165-168).
WritesOffHonoured == [][forbidden => store' = store]_toolsVars

Documented(intent) ==
    LET does == IF intent.does = "get" /\ intent.layout # NotGiven THEN "update" ELSE intent.does
    IN  Filled(Template(intent.entity, does), intent.layout, intent.uid)

\* docs/approval-model.md, Risk Levels.
DocumentedRisk(entity, method) ==
    IF method = "DELETE" THEN "critical"
    ELSE IF entity \in Transactions THEN "high"
    ELSE IF entity \in HaveLayouts THEN "medium"
    ELSE "low"

RegisteredFor(entity, path) ==
    \E does \in {"create", "update"}, layout \in Layout \ {NotGiven}, uid \in Uid :
        entity \in Supporting[does] /\ path = Documented(Intent(entity, does, layout, uid))

\* Whoever prepares a request for a registered path, with the raw tool too, it
\* has the risk the documentation gives it, unless the caller chose another.
RiskAsDocumented(op) ==
    \A entity \in Transactions \cup HaveLayouts \cup {"customer", "supplier"} :
        RegisteredFor(entity, op.path) /\ ~op.chosen => op.risk = DocumentedRisk(entity, op.method)

ReadsAsDocumented ==
    /\ \A entity \in DOMAIN ListTools : ListTools[entity] = Documented(Intent(entity, "list", NotGiven, NotGiven))
    /\ \A entity \in DOMAIN GetTools, layout \in Layout, uid \in Uid :
          LET given == IF entity \in HaveLayouts THEN layout ELSE NotGiven
          IN  LayoutPath(GetTools[entity], given, uid) = Documented(Intent(entity, "get", given, uid))

\* The caller gave a layout, and the record where one is changed or deleted.
Complete(intent) ==
    /\ intent # NoIntent /\ intent.layout # NotGiven
    /\ intent.does \in {"update", "delete"} => intent.uid # NotGiven

\* The paths are written down twice, in the registry, which
\* myob_metadata_get_entity_schema shows, and in the tools; the risks follow
\* from rules that look for words in them.  A tool named for an entity requests
\* what the registry shows if it is given all that fills the registered path: a
\* layout where there are layouts, and the record where one is meant.  Nothing
\* is said of the path where the caller leaves one of them empty, which the
\* tools for invoices and bills accept: then a PUT or DELETE of
\* /Sale/Invoice/Service, without a record, is prepared and shown (write_tools.py
\* 71-76, 192-199, 212-214).  The risk is the documented one for every request
\* of a registered path, that one included (registry.py 18-100, policies.py 8-20).
AsDocumented ==
    /\ \A o \in Operation : store[o] # NotPrepared =>
          /\ Complete(store[o].intent) => store[o].path = Documented(store[o].intent)
          /\ RiskAsDocumented(store[o])
    /\ ReadsAsDocumented

=============================================================================
