---------------------------- MODULE RequestProofs ----------------------------
(***************************************************************************)
(* Proofs about the requests that MYOB gets, in two parts.  What a request *)
(* asks for is the subject of ToolRequests: for any operations,            *)
(* businesses, layouts, uids, raw paths and any number of configuration    *)
(* files, what is sent is what was prepared and shown, a server that was   *)
(* told to write nothing prepares nothing, and paths and risks are the     *)
(* documented ones.  How often MYOB applies a request, and how many steps  *)
(* one call takes, is that of MyobClient, for every number of retries.     *)
(***************************************************************************)
EXTENDS ToolRequests, MyobClient, SequenceTheorems, TLAPS

-----------------------------------------------------------------------------
(* Paths.                                                                  *)

\* The words of a path or of a type.
Words(s) == {s[i] : i \in DOMAIN s}

\* Whatever an entity is listed by has two segments, and neither of them is a
\* field to be filled.
LEMMA TwoSegments ==
  ASSUME NEW e \in Entity
  PROVE  \E a, b : list_path[e] = <<a, b>> /\ {a, b} \cap {LayoutField, UidField} = {}
  BY DEF Entity, list_path, LayoutField, UidField

\* The second segment tells the entities apart.
LEMMA SecondSegment ==
  ASSUME NEW e \in Entity, NEW f \in Entity, list_path[e][2] = list_path[f][2]
  PROVE  e = f
  BY DEF Entity, list_path

\* Segments are added to a path one by one.
LEMMA AppendedSecond == ASSUME NEW a, NEW b PROVE Append(<<a>>, b) = <<a, b>>
<1> DEFINE S == {a, b}
<1>1. /\ <<a>> \in Seq(S) /\ Len(<<a>>) = 1 /\ b \in S
      /\ <<a, b>> \in Seq(S) /\ Len(<<a, b>>) = 2
  OBVIOUS
<1> HIDE DEF S
<1>2. /\ Append(<<a>>, b) \in Seq(S)
      /\ Len(Append(<<a>>, b)) = 2
      /\ Append(<<a>>, b)[1] = a
      /\ Append(<<a>>, b)[2] = b
  BY <1>1, AppendProperties
<1>3. \A i \in 1 .. 2 : Append(<<a>>, b)[i] = <<a, b>>[i]
  BY <1>2
<1> QED
  BY <1>1, <1>2, <1>3, SeqEqual

\* A third one.
LEMMA AppendedThird == ASSUME NEW a, NEW b, NEW c PROVE Append(<<a, b>>, c) = <<a, b, c>>
<1> DEFINE S == {a, b, c}
<1>1. /\ <<a, b>> \in Seq(S) /\ Len(<<a, b>>) = 2 /\ c \in S
      /\ <<a, b, c>> \in Seq(S) /\ Len(<<a, b, c>>) = 3
  OBVIOUS
<1> HIDE DEF S
<1>2. /\ Append(<<a, b>>, c) \in Seq(S)
      /\ Len(Append(<<a, b>>, c)) = 3
      /\ \A i \in 1 .. 2 : Append(<<a, b>>, c)[i] = <<a, b>>[i]
      /\ Append(<<a, b>>, c)[3] = c
  BY <1>1, AppendProperties
<1>3. \A i \in 1 .. 3 : Append(<<a, b>>, c)[i] = <<a, b, c>>[i]
  BY <1>2
<1> QED
  BY <1>1, <1>2, <1>3, SeqEqual

\* And a fourth.
LEMMA AppendedFourth ==
  ASSUME NEW a, NEW b, NEW c, NEW d
  PROVE  Append(<<a, b, c>>, d) = <<a, b, c, d>>
<1> DEFINE S == {a, b, c, d}
<1>1. /\ <<a, b, c>> \in Seq(S) /\ Len(<<a, b, c>>) = 3 /\ d \in S
      /\ <<a, b, c, d>> \in Seq(S) /\ Len(<<a, b, c, d>>) = 4
  OBVIOUS
<1> HIDE DEF S
<1>2. /\ Append(<<a, b, c>>, d) \in Seq(S)
      /\ Len(Append(<<a, b, c>>, d)) = 4
      /\ \A i \in 1 .. 3 : Append(<<a, b, c>>, d)[i] = <<a, b, c>>[i]
      /\ Append(<<a, b, c>>, d)[4] = d
  BY <1>1, AppendProperties
<1>3. \A i \in 1 .. 4 : Append(<<a, b, c>>, d)[i] = <<a, b, c, d>>[i]
  BY <1>2
<1> QED
  BY <1>1, <1>2, <1>3, SeqEqual

\* replace fills the fields of a template and leaves the rest alone.
LEMMA FilledFields ==
  ASSUME NEW a, NEW b, NEW layout, NEW uid, {a, b} \cap {LayoutField, UidField} = {}
  PROVE  /\ Filled(<<a, b>>, layout, uid) = <<a, b>>
         /\ Filled(<<a, b, LayoutField>>, layout, uid) = <<a, b, layout>>
         /\ Filled(<<a, b, UidField>>, layout, uid) = <<a, b, uid>>
         /\ Filled(<<a, b, LayoutField, UidField>>, layout, uid) = <<a, b, layout, uid>>
<1>1. /\ LayoutField # UidField
      /\ a # LayoutField /\ a # UidField /\ b # LayoutField /\ b # UidField
  BY DEF LayoutField, UidField
<1>2. Filled(<<a, b>>, layout, uid) = <<a, b>>
  BY <1>1 DEF Filled
<1>3. Filled(<<a, b, LayoutField>>, layout, uid) = <<a, b, layout>>
  <2> DEFINE f == Filled(<<a, b, LayoutField>>, layout, uid)
  <2>1. f = [i \in 1 .. 3 |-> f[i]]
    BY DEF Filled
  <2>2. f[1] = a /\ f[2] = b /\ f[3] = layout
    BY <1>1 DEF Filled
  <2> HIDE DEF f
  <2>3. f = <<a, b, layout>>
    BY <2>1, <2>2
  <2> QED
    BY <2>3 DEF f
<1>4. Filled(<<a, b, UidField>>, layout, uid) = <<a, b, uid>>
  BY <1>1 DEF Filled
<1>5. Filled(<<a, b, LayoutField, UidField>>, layout, uid) = <<a, b, layout, uid>>
  BY <1>1 DEF Filled
<1> QED
  BY <1>2, <1>3, <1>4, <1>5

\* The path that the registry gives for a call.
LEMMA RegisteredPath ==
  ASSUME NEW e \in Entity, NEW a, NEW b, list_path[e] = <<a, b>>, NEW layout, NEW uid
  PROVE  LET given(does) == Filled(Template(e, does), layout, uid) IN
         /\ given("list") = <<a, b>>
         /\ given("create") = IF e \in HaveLayouts THEN <<a, b, layout>> ELSE <<a, b>>
         /\ \A does \in {"update", "delete"} :
               given(does) = IF e \in HaveLayouts THEN <<a, b, layout, uid>> ELSE <<a, b, uid>>
         /\ given("get") = IF e \in Contacts THEN <<"Contact", uid>> ELSE <<a, b, uid>>
<1>1. {a, b} \cap {LayoutField, UidField} = {}
  <2>1. PICK x, y : list_path[e] = <<x, y>> /\ {x, y} \cap {LayoutField, UidField} = {}
    BY TwoSegments
  <2>2. x = a /\ y = b
    BY <2>1
  <2> QED
    BY <2>1, <2>2
<1>2. /\ Append(<<a, b>>, LayoutField) = <<a, b, LayoutField>>
      /\ Append(<<a, b>>, UidField) = <<a, b, UidField>>
      /\ Append(<<a, b, LayoutField>>, UidField) = <<a, b, LayoutField, UidField>>
  BY AppendedThird, AppendedFourth
<1>3. /\ Filled(<<a, b>>, layout, uid) = <<a, b>>
      /\ Filled(<<a, b, LayoutField>>, layout, uid) = <<a, b, layout>>
      /\ Filled(<<a, b, UidField>>, layout, uid) = <<a, b, uid>>
      /\ Filled(<<a, b, LayoutField, UidField>>, layout, uid) = <<a, b, layout, uid>>
  BY <1>1, FilledFields
<1>4. Filled(<<"Contact", UidField>>, layout, uid) = <<"Contact", uid>>
  <2>1. LayoutField # UidField /\ "Contact" # LayoutField /\ "Contact" # UidField
    BY DEF LayoutField, UidField
  <2> QED
    BY <2>1 DEF Filled
<1>5. /\ Template(e, "list") = <<a, b>>
      /\ Template(e, "create") = IF e \in HaveLayouts THEN <<a, b, LayoutField>> ELSE <<a, b>>
      /\ \A does \in {"update", "delete"} :
            Template(e, does) = IF e \in HaveLayouts THEN <<a, b, LayoutField, UidField>>
                                ELSE <<a, b, UidField>>
      /\ Template(e, "get") = IF e \in Contacts THEN <<"Contact", UidField>> ELSE <<a, b, UidField>>
  <2> DEFINE layouts == IF e \in HaveLayouts THEN <<a, b, LayoutField>> ELSE <<a, b>>
  <2>1. \A does : Template(e, does) =
          [list   |-> <<a, b>>,
           get    |-> IF e \in Contacts THEN <<"Contact", UidField>> ELSE <<a, b, UidField>>,
           create |-> layouts,
           update |-> Append(layouts, UidField),
           delete |-> Append(layouts, UidField)][does]
    BY <1>2 DEF Template
  <2>2. Append(layouts, UidField) = IF e \in HaveLayouts THEN <<a, b, LayoutField, UidField>>
                                    ELSE <<a, b, UidField>>
    BY <1>2
  <2> HIDE DEF layouts
  <2>3. /\ Template(e, "create") = layouts
        /\ \A does \in {"update", "delete"} : Template(e, does) = Append(layouts, UidField)
    BY <2>1
  <2> QED
    BY <2>1, <2>2, <2>3 DEF layouts
<1> QED
  BY <1>3, <1>4, <1>5

\* _layout_path adds the layout and the uid that are given.
LEMMA LaidOut ==
  ASSUME NEW a, NEW b, NEW layout, NEW uid
  PROVE  LayoutPath(<<a, b>>, layout, uid) =
           IF layout = NotGiven THEN IF uid = NotGiven THEN <<a, b>> ELSE <<a, b, uid>>
           ELSE IF uid = NotGiven THEN <<a, b, layout>> ELSE <<a, b, layout, uid>>
<1>1. /\ Append(<<a, b>>, layout) = <<a, b, layout>>
      /\ Append(<<a, b>>, uid) = <<a, b, uid>>
      /\ Append(<<a, b, layout>>, uid) = <<a, b, layout, uid>>
  BY AppendedThird, AppendedFourth
<1> QED
  BY <1>1 DEF LayoutPath

\* The words of a registered path that a write tool asks for: those of the list
\* of the entity, the second of them where it stands there, too, and besides
\* them a uid, and a layout where there are layouts.
LEMMA RegisteredWords ==
  ASSUME NEW e \in Entity, NEW does \in {"create", "update"}, NEW layout, NEW uid
  PROVE  LET path == Filled(Template(e, does), layout, uid)
             base == list_path[e]
         IN  /\ path[2] = base[2] /\ 2 \in DOMAIN path
             /\ Words(path) \subseteq {base[1], base[2], uid} \cup
                                      (IF e \in HaveLayouts THEN {layout} ELSE {})
<1> DEFINE path == Filled(Template(e, does), layout, uid)
<1>1. PICK a, b : list_path[e] = <<a, b>>
  BY TwoSegments
<1>2. /\ e \notin HaveLayouts => path \in {<<a, b>>, <<a, b, uid>>}
      /\ e \in HaveLayouts => path \in {<<a, b, layout>>, <<a, b, layout, uid>>}
  BY <1>1, RegisteredPath
<1> HIDE DEF path
<1>3. CASE path = <<a, b>>
  BY <1>1, <1>3 DEF Words, path
<1>4. CASE path = <<a, b, uid>>
  BY <1>1, <1>4 DEF Words, path
<1>5. CASE path = <<a, b, layout>> /\ e \in HaveLayouts
  BY <1>1, <1>5 DEF Words, path
<1>6. CASE path = <<a, b, layout, uid>> /\ e \in HaveLayouts
  BY <1>1, <1>6 DEF Words, path
<1> QED
  BY <1>2, <1>3, <1>4, <1>5, <1>6

\* What a tool that is named for what it does has to do with the registry.
LEMMA NamedTool ==
  ASSUME NEW tool \in WriteTools
  PROVE  LET e == AsEntity(tool.type[1]) IN
         /\ e \in Entity /\ tool.path = list_path[e]
         /\ tool.type[1] \in HaveLayouts <=> e \in HaveLayouts
         /\ Words(tool.type) \subseteq {e, "inventory_item", "create", "update", "record", "delete"}
         /\ tool.method \in {"POST", "PUT", "DELETE"}
         /\ tool.method = "POST" => AsOperation(tool.type[2]) = "create"
         /\ tool.method # "POST" => AsOperation(tool.type[2]) \in {"update", "delete"}
         /\ "inventory_item" \in Words(tool.type) => e = "item"
         /\ "delete" \in Words(tool.type) => tool.method = "DELETE"
         /\ tool.risk # None => tool.risk = DocumentedRisk(e, tool.method)
<1>1. /\ AsEntity(tool.type[1]) \in Entity
      /\ tool.path = list_path[AsEntity(tool.type[1])]
      /\ tool.method \in {"POST", "PUT", "DELETE"}
  BY DEF WriteTools, Tool, Entity, list_path, AsEntity
<1>2. /\ tool.type[1] \in HaveLayouts <=> AsEntity(tool.type[1]) \in HaveLayouts
      /\ tool.method = "POST" => AsOperation(tool.type[2]) = "create"
      /\ tool.method # "POST" => AsOperation(tool.type[2]) \in {"update", "delete"}
  BY DEF WriteTools, Tool, AsEntity, AsOperation, HaveLayouts
<1>3. Words(tool.type) = {tool.type[1], tool.type[2]}
  BY DEF WriteTools, Tool, Words
<1>4. /\ tool.type[1] \in {AsEntity(tool.type[1]), "inventory_item"}
      /\ tool.type[1] # "delete"
      /\ tool.type[2] \in {"create", "update", "record", "delete"}
      /\ tool.type[2] = "delete" => tool.method = "DELETE"
      /\ tool.type[1] = "inventory_item" => AsEntity(tool.type[1]) = "item"
  BY DEF WriteTools, Tool, AsEntity
<1>5. tool.risk # None => tool.risk = DocumentedRisk(AsEntity(tool.type[1]), tool.method)
  BY DEF WriteTools, Tool, AsEntity, DocumentedRisk, None, Transactions
<1> QED
  BY <1>1, <1>2, <1>3, <1>4, <1>5

\* The path of a tool that is named for what it does begins with the list path
\* of its entity, whatever is left out; where the caller gave all that fills the
\* registered path, it is that one.
LEMMA NamedPath ==
  ASSUME NEW tool \in WriteTools, NEW layout, NEW uid
  PROVE  LET intent == Intent(AsEntity(tool.type[1]), AsOperation(tool.type[2]), layout, uid) IN
         /\ PathOf(tool, layout, uid)[2] = list_path[AsEntity(tool.type[1])][2]
         /\ Complete(intent) => PathOf(tool, layout, uid) = Documented(intent)
<1> DEFINE e == AsEntity(tool.type[1])
           does == AsOperation(tool.type[2])
           path == PathOf(tool, layout, uid)
<1>1. /\ e \in Entity /\ tool.path = list_path[e]
      /\ tool.type[1] \in HaveLayouts <=> e \in HaveLayouts
      /\ tool.method = "POST" => does = "create"
      /\ tool.method # "POST" => does \in {"update", "delete"}
  BY NamedTool
<1>2. Complete(Intent(e, does, layout, uid)) =>
        layout # NotGiven /\ (tool.method # "POST" => uid # NotGiven)
  <2>1. \/ tool.method = "POST" \/ does \in {"update", "delete"}
    BY <1>1
  <2> HIDE DEF e, does
  <2> QED
    BY <2>1 DEF Complete, Intent
<1> HIDE DEF e, does
<1>3. PICK a, b : list_path[e] = <<a, b>>
  BY <1>1, TwoSegments
<1>4. path = LayoutPath(<<a, b>>, IF e \in HaveLayouts THEN layout ELSE NotGiven,
                        IF tool.method = "POST" THEN NotGiven ELSE uid)
  BY <1>1, <1>3 DEF PathOf
<1> HIDE DEF path
<1>5. \E l \in {layout, NotGiven}, u \in {uid, NotGiven} : path = LayoutPath(<<a, b>>, l, u)
  BY <1>4
<1>6. path[2] = b
  <2>1. PICK l, u : path = LayoutPath(<<a, b>>, l, u)
    BY <1>5
  <2>2. \/ path = <<a, b>> \/ path = <<a, b, u>> \/ path = <<a, b, l>> \/ path = <<a, b, l, u>>
    BY <2>1, LaidOut
  <2> QED
    BY <2>2
<1>7. Documented(Intent(e, does, layout, uid)) = Filled(Template(e, does), layout, uid)
  BY <1>1 DEF Documented, Intent
<1>8. Filled(Template(e, does), layout, uid) =
        IF e \in HaveLayouts
        THEN IF tool.method = "POST" THEN <<a, b, layout>> ELSE <<a, b, layout, uid>>
        ELSE IF tool.method = "POST" THEN <<a, b>> ELSE <<a, b, uid>>
  BY <1>1, <1>3, RegisteredPath
<1>9. ASSUME layout # NotGiven, tool.method # "POST" => uid # NotGiven
      PROVE  path = Documented(Intent(e, does, layout, uid))
  <2>1. CASE e \in HaveLayouts /\ tool.method = "POST"
    BY <1>4, <1>7, <1>8, <1>9, <2>1, LaidOut
  <2>2. CASE e \in HaveLayouts /\ tool.method # "POST"
    BY <1>4, <1>7, <1>8, <1>9, <2>2, LaidOut
  <2>3. CASE e \notin HaveLayouts /\ tool.method = "POST"
    BY <1>4, <1>7, <1>8, <2>3, LaidOut
  <2>4. CASE e \notin HaveLayouts /\ tool.method # "POST"
    BY <1>4, <1>7, <1>8, <1>9, <2>4, LaidOut
  <2> QED
    BY <2>1, <2>2, <2>3, <2>4
<1>10. path[2] = list_path[e][2]
  BY <1>3, <1>6
<1> QED
  BY <1>2, <1>9, <1>10 DEF e, does, path

\* A list has the path without fields.
LEMMA ListPath ==
  ASSUME NEW e \in Entity
  PROVE  Documented(Intent(e, "list", NotGiven, NotGiven)) = list_path[e]
<1>1. PICK a, b : list_path[e] = <<a, b>>
  BY TwoSegments
<1>2. Filled(Template(e, "list"), NotGiven, NotGiven) = <<a, b>>
  BY <1>1, RegisteredPath
<1> QED
  BY <1>1, <1>2 DEF Documented, Intent

\* A record is read by the path of the list, and a contact, of whatever kind, by
\* that of the contacts, with the layout, if one is given, and the uid.
LEMMA GetPath ==
  ASSUME NEW e \in Entity, NEW layout, NEW uid, uid # NotGiven, layout # NotGiven => e \in HaveLayouts
  PROVE  Documented(Intent(e, "get", layout, uid)) =
           LayoutPath(IF e \in Contacts THEN <<"Contact">> ELSE list_path[e], layout, uid)
<1>1. PICK a, b : list_path[e] = <<a, b>>
  BY TwoSegments
<1>2. e \in Contacts => e \notin HaveLayouts
  BY DEF Contacts, HaveLayouts
<1>3. Documented(Intent(e, "get", layout, uid)) =
        Filled(Template(e, IF layout # NotGiven THEN "update" ELSE "get"), layout, uid)
  BY DEF Documented, Intent
<1>4. CASE layout # NotGiven
  <2>1. Filled(Template(e, "update"), layout, uid) = <<a, b, layout, uid>>
    BY <1>1, <1>4, RegisteredPath
  <2>2. LayoutPath(<<a, b>>, layout, uid) = <<a, b, layout, uid>>
    BY <1>4, LaidOut
  <2> QED
    BY <1>1, <1>2, <1>3, <1>4, <2>1, <2>2
<1>5. CASE layout = NotGiven /\ e \notin Contacts
  <2>1. Filled(Template(e, "get"), layout, uid) = <<a, b, uid>>
    BY <1>1, <1>5, RegisteredPath
  <2>2. LayoutPath(<<a, b>>, layout, uid) = <<a, b, uid>>
    BY <1>5, LaidOut
  <2> QED
    BY <1>1, <1>3, <1>5, <2>1, <2>2
<1>6. CASE layout = NotGiven /\ e \in Contacts
  <2>1. Append(<<"Contact">>, uid) = <<"Contact", uid>>
    BY AppendedSecond
  <2>2. LayoutPath(<<"Contact">>, layout, uid) = <<"Contact", uid>>
    BY <1>6, <2>1 DEF LayoutPath
  <2>3. Filled(Template(e, "get"), layout, uid) = <<"Contact", uid>>
    BY <1>1, <1>6, RegisteredPath
  <2> QED
    BY <1>3, <1>6, <2>2, <2>3
<1> QED
  BY <1>4, <1>5, <1>6

\* The read tools ask for what the registry says.
LEMMA ReadPaths == PlainWords => ReadsAsDocumented
<1> SUFFICES ASSUME PlainWords PROVE ReadsAsDocumented
  OBVIOUS
<1>1. ASSUME NEW e \in DOMAIN ListTools PROVE ListTools[e] = Documented(Intent(e, "list", NotGiven, NotGiven))
  <2>1. e \in Entity /\ ListTools[e] = list_path[e]
    BY DEF ListTools, Entity, list_path
  <2> QED
    BY <2>1, ListPath
<1>2. ASSUME NEW e \in DOMAIN GetTools, NEW layout \in Layout, NEW uid \in Uid
      PROVE  LET given == IF e \in HaveLayouts THEN layout ELSE NotGiven
             IN  LayoutPath(GetTools[e], given, uid) = Documented(Intent(e, "get", given, uid))
  <2> DEFINE given == IF e \in HaveLayouts THEN layout ELSE NotGiven
  <2>1. e \in Entity /\ GetTools[e] = IF e \in Contacts THEN <<"Contact">> ELSE list_path[e]
    BY DEF GetTools, Entity, list_path, Contacts
  <2>2. uid # NotGiven /\ (given # NotGiven => e \in HaveLayouts)
    BY DEF PlainWords
  <2> HIDE DEF given
  <2>3. LayoutPath(GetTools[e], given, uid) = Documented(Intent(e, "get", given, uid))
    BY <2>1, <2>2, GetPath
  <2> QED
    BY <2>3 DEF given
<1> QED
  BY <1>1, <1>2 DEF ReadsAsDocumented

-----------------------------------------------------------------------------
(* Risks.                                                                  *)

\* The entities whose risk the documentation gives.
Rated == Transactions \cup HaveLayouts \cup {"customer", "supplier"}

\* The terms of the rules for critical, high, medium and low risk.
Critical == {"delete", "void"}
High == {"payment", "spendmoney", "receivemoney", "journal"}
Medium == {"invoice", "bill", "order", "attachment"}
Low == {"customer", "supplier", "contact"}

\* The words in which a request for an entity, other than to delete one, is
\* prepared, but for its layout and uid.
Fixed(e) == {"raw", "mutation", "create", "update", "record", "POST", "PUT", "PATCH",
             e, list_path[e][1], list_path[e][2]}

\* More words mention more.
LEMMA MentionsMore ==
  ASSUME NEW V, NEW W, V \subseteq W, NEW terms, Mentions(V, terms)
  PROVE  Mentions(W, terms)
  BY DEF Mentions

\* What two sets of words mention, one of them does.
LEMMA MentionsEither ==
  ASSUME NEW V, NEW W, NEW terms, Mentions(V \cup W, terms)
  PROVE  Mentions(V, terms) \/ Mentions(W, terms)
  BY DEF Mentions

\* The second segment of a path has the term of its risk, and no other word of
\* the entity's own has one of a rule that comes before.
LEMMA FixedWords ==
  ASSUME NEW e \in Rated
  PROVE  LET second == {list_path[e][2]} IN
         /\ ~Mentions(Fixed(e), Critical)
         /\ e \in Transactions => Mentions(second, High)
         /\ e \in HaveLayouts => ~Mentions(Fixed(e), High) /\ Mentions(second, Medium)
         /\ e \in {"customer", "supplier"} =>
               /\ ~Mentions(Fixed(e), High) /\ ~Mentions(Fixed(e), Medium)
               /\ Mentions(second, Low)
<1>1. ~Mentions(Fixed(e), Critical)
  BY DEF Rated, Transactions, HaveLayouts, Fixed, list_path, Mentions, Spelled, Critical
\* Each rule has a term that the second segment contains.
<1>2. ASSUME NEW terms, NEW term \in terms, list_path[e][2] \in Spelled[term]
      PROVE  Mentions({list_path[e][2]}, terms)
  BY <1>2 DEF Mentions
<1>3. ASSUME e \in Transactions PROVE Mentions({list_path[e][2]}, High)
  <2>1. \/ list_path[e][2] \in Spelled["payment"]
        \/ list_path[e][2] \in Spelled["spendmoney"]
        \/ list_path[e][2] \in Spelled["receivemoney"]
        \/ list_path[e][2] \in Spelled["journal"]
    BY <1>3 DEF Transactions, list_path, Spelled
  <2> QED
    BY <1>2, <2>1 DEF High
<1>4. ASSUME e \in HaveLayouts PROVE Mentions({list_path[e][2]}, Medium)
  <2>1. \/ list_path[e][2] \in Spelled["invoice"]
        \/ list_path[e][2] \in Spelled["bill"]
        \/ list_path[e][2] \in Spelled["order"]
    BY <1>4 DEF HaveLayouts, list_path, Spelled
  <2> QED
    BY <1>2, <2>1 DEF Medium
<1>7. ASSUME e \in {"customer", "supplier"} PROVE Mentions({list_path[e][2]}, Low)
  <2>1. list_path[e][2] \in Spelled["customer"] \/ list_path[e][2] \in Spelled["supplier"]
    BY <1>7 DEF list_path, Spelled
  <2> QED
    BY <1>2, <2>1 DEF Low
<1>5. e \in HaveLayouts => ~Mentions(Fixed(e), High)
  BY DEF HaveLayouts, Fixed, list_path, Mentions, Spelled, High
<1>6. e \in {"customer", "supplier"} => ~Mentions(Fixed(e), High) /\ ~Mentions(Fixed(e), Medium)
  BY DEF Fixed, list_path, Mentions, Spelled, High, Medium
<1> QED
  BY <1>1, <1>3, <1>4, <1>5, <1>6, <1>7

\* The rules make of a request for an entity the risk that the documentation
\* gives it, if no other word in it leads to an earlier rule.
LEMMA RiskOfWords ==
  ASSUME NEW e \in Rated, NEW type, NEW method, NEW path, NEW body, NEW others,
         Words(type) \cup {method} \cup Words(path) \subseteq Fixed(e) \cup others,
         list_path[e][2] \in Words(path),
         ~Mentions(others, Critical), ~Mentions(others, High),
         e \in {"customer", "supplier"} => ~Mentions(others, Medium),
         method # "DELETE"
  PROVE  classify_operation(type, method, path, body) = DocumentedRisk(e, method)
<1> DEFINE words == Words(type) \cup {method} \cup Words(path)
<1>1. classify_operation(type, method, path, body) =
        IF Mentions(words, Critical) THEN "critical"
        ELSE IF Mentions(words, High) THEN "high"
        ELSE IF Mentions(words, Medium) THEN "medium"
        ELSE IF Mentions(words, Low) THEN "low"
        ELSE IF body THEN "medium"
        ELSE "low"
  BY DEF classify_operation, Words, Critical, High, Medium, Low
<1>2. words \subseteq Fixed(e) \cup others /\ {list_path[e][2]} \subseteq words
  OBVIOUS
<1> HIDE DEF words
<1>3. ~Mentions(words, Critical)
  BY <1>2, FixedWords, MentionsMore, MentionsEither
<1>4. CASE e \in Transactions
  <2>1. Mentions(words, High)
    BY <1>2, <1>4, FixedWords, MentionsMore
  <2> QED
    BY <1>1, <1>3, <1>4, <2>1 DEF DocumentedRisk
<1>5. CASE e \in HaveLayouts
  <2>1. ~Mentions(words, High) /\ Mentions(words, Medium)
    BY <1>2, <1>5, FixedWords, MentionsMore, MentionsEither
  <2>2. e \notin Transactions
    BY <1>5 DEF HaveLayouts, Transactions
  <2> QED
    BY <1>1, <1>3, <1>5, <2>1, <2>2 DEF DocumentedRisk
<1>6. CASE e \in {"customer", "supplier"}
  <2>1. ~Mentions(words, High) /\ ~Mentions(words, Medium) /\ Mentions(words, Low)
    BY <1>2, <1>6, FixedWords, MentionsMore, MentionsEither
  <2>2. e \notin Transactions /\ e \notin HaveLayouts
    BY <1>6 DEF HaveLayouts, Transactions
  <2> QED
    BY <1>1, <1>3, <1>6, <2>1, <2>2 DEF DocumentedRisk
<1> QED
  BY <1>4, <1>5, <1>6 DEF Rated

\* What deletes is critical.
LEMMA DeletingIsCritical ==
  ASSUME NEW type, NEW path, NEW body
  PROVE  classify_operation(type, "DELETE", path, body) = "critical"
<1>1. "DELETE" \in Spelled["delete"]
  BY DEF Spelled
<1> QED
  BY <1>1 DEF classify_operation, Mentions

\* A request for a registered path has the risk of its entity, whatever tool
\* prepares it: the words of its type are the raw tool's or the entity's own.
LEMMA RegisteredRisk ==
  ASSUME PlainWords, NEW e \in Rated, NEW type, NEW method \in Mutating, NEW path, NEW body,
         RegisteredFor(e, path),
         method # "DELETE" => Words(type) \subseteq Fixed(e)
  PROVE  classify_operation(type, method, path, body) = DocumentedRisk(e, method)
<1>1. CASE method = "DELETE"
  BY <1>1, DeletingIsCritical DEF DocumentedRisk
<1>2. CASE method # "DELETE"
  <2>1. PICK does \in {"create", "update"}, layout \in Layout, uid \in Uid :
          e \in Supporting[does] /\ path = Documented(Intent(e, does, layout, uid))
    BY DEF RegisteredFor
  <2>2. path = Filled(Template(e, does), layout, uid)
    BY <2>1 DEF Documented, Intent
  <2>3. e \in Entity
    BY DEF Rated, Transactions, HaveLayouts, Entity, list_path
  <2> DEFINE others == {uid} \cup (IF e \in HaveLayouts THEN {layout} ELSE {})
  <2>4. /\ path[2] = list_path[e][2] /\ 2 \in DOMAIN path
        /\ Words(path) \subseteq {list_path[e][1], list_path[e][2]} \cup others
    BY <2>2, <2>3, RegisteredWords
  <2>5. list_path[e][2] \in Words(path)
    BY <2>4 DEF Words
  <2>6. method \in {"POST", "PUT", "PATCH"}
    BY <1>2 DEF Mutating
  <2>7. \A term \in DOMAIN Spelled : uid \notin Spelled[term]
    BY DEF PlainWords
  <2>8. Critical \cup High \cup Medium \subseteq DOMAIN Spelled
    BY DEF Spelled, Critical, High, Medium
  <2>9. /\ ~Mentions({uid}, Critical) /\ ~Mentions({uid}, High) /\ ~Mentions({uid}, Medium)
        /\ ~Mentions({layout}, Critical) /\ ~Mentions({layout}, High)
    BY <2>7, <2>8 DEF Mentions, PlainWords, Critical, High
  <2>10. /\ ~Mentions(others, Critical) /\ ~Mentions(others, High)
         /\ e \in {"customer", "supplier"} => ~Mentions(others, Medium)
    BY <2>9 DEF Mentions, HaveLayouts
  <2> HIDE DEF others
  <2>11. Words(type) \cup {method} \cup Words(path) \subseteq Fixed(e) \cup others
    BY <1>2, <2>4, <2>6 DEF Fixed
  <2> QED
    BY <1>2, <2>5, <2>10, <2>11, RiskOfWords
<1> QED
  BY <1>1, <1>2

-----------------------------------------------------------------------------
(* What is prepared and what is sent.                                      *)

\* AsDocumented of one prepared operation.
OpAsDocumented(op) ==
    /\ Complete(op.intent) => op.path = Documented(op.intent)
    /\ RiskAsDocumented(op)

\* What is shown before it is approved is as documented, because an operation
\* changes no more once it is prepared.
StoreInv ==
    /\ store = [o \in Operation |-> store[o]]
    /\ \A o \in Operation : store[o] # NotPrepared => OpAsDocumented(store[o])

\* A prepared operation is as documented if its path is the documented one of
\* its intent, if that is complete, and, where its path is registered, its type has no words but those
\* of the entity or of the raw tool, and its risk, if it is not left to the rules,
\* is that of the entity or the caller's choice.
LEMMA PreparesAsDocumented ==
  ASSUME PlainWords, StoreInv, NEW o \in Operation, NEW type, NEW method, NEW path, NEW business,
         NEW risk, NEW body, NEW intent,
         Prepares(o, type, method, path, business, risk, body, intent),
         Complete(intent) => path = Documented(intent),
         \A e \in Rated : RegisteredFor(e, path) =>
            /\ method # "DELETE" => Words(type) \subseteq Fixed(e)
            /\ risk # None => intent = NoIntent \/ risk = DocumentedRisk(e, method)
  PROVE  StoreInv'
<1> DEFINE op == [method |-> method, path |-> path, business |-> Shown(business),
                  intent |-> intent,
                  risk |-> Or(risk, classify_operation(type, method, path, body)),
                  chosen |-> risk # None /\ intent = NoIntent]
<1>1. store' = [store EXCEPT ![o] = op] /\ method \in Mutating
  BY DEF Prepares, ValidMethod
<1>2. /\ op.method = method /\ op.path = path /\ op.intent = intent
      /\ op.risk = Or(risk, classify_operation(type, method, path, body))
      /\ op.chosen = (risk # None /\ intent = NoIntent)
  OBVIOUS
<1> HIDE DEF op
<1>3. ASSUME NEW e \in Rated, RegisteredFor(e, path), ~(risk # None /\ intent = NoIntent)
      PROVE  op.risk = DocumentedRisk(e, method)
  <2>1. CASE risk = None
    <3>1. op.risk = classify_operation(type, method, path, body)
      BY <1>2, <2>1 DEF Or
    <3> QED
      BY <1>1, <1>3, <3>1, RegisteredRisk
  <2>2. CASE risk # None
    BY <1>2, <1>3, <2>2 DEF Or
  <2> QED
    BY <2>1, <2>2
<1>4. RiskAsDocumented(op)
  BY <1>2, <1>3 DEF RiskAsDocumented, Rated
<1>5. OpAsDocumented(op)
  BY <1>2, <1>4 DEF OpAsDocumented
<1> QED
  BY <1>1, <1>5 DEF StoreInv

\* A registered path is that of one entity.
LEMMA OneEntity ==
  ASSUME NEW e \in Rated, NEW f \in Entity, NEW path, RegisteredFor(e, path),
         path[2] = list_path[f][2]
  PROVE  e = f
<1>1. PICK does \in {"create", "update"}, layout \in Layout, uid \in Uid :
        path = Documented(Intent(e, does, layout, uid))
  BY DEF RegisteredFor
<1>2. path = Filled(Template(e, does), layout, uid)
  BY <1>1 DEF Documented, Intent
<1>3. e \in Entity
  BY DEF Rated, Transactions, HaveLayouts, Entity, list_path
<1>4. path[2] = list_path[e][2]
  BY <1>2, <1>3, RegisteredWords
<1> QED
  BY <1>3, <1>4, SecondSegment

\* Each of the tools prepares what is documented.
LEMMA RawAsDocumented ==
  ASSUME PlainWords, StoreInv, NEW o \in Operation, NEW business, PrepareRaw(o, business)
  PROVE  StoreInv'
<1>1. PICK method, path, body, risk :
        Prepares(o, <<"raw", "mutation">>, method, path, business, risk, body, NoIntent)
  BY DEF PrepareRaw
<1>2. \A e \in Rated : Words(<<"raw", "mutation">>) \subseteq Fixed(e)
  BY DEF Words, Fixed
<1>3. ~Complete(NoIntent)
  BY DEF Complete
<1> QED
  BY <1>1, <1>2, <1>3, PreparesAsDocumented

\* So does the entity tool for any entity of the registry.
LEMMA EntityAsDocumented ==
  ASSUME PlainWords, StoreInv, NEW o \in Operation, NEW business, PrepareEntity(o, business)
  PROVE  StoreInv'
<1>1. PICK does \in {"create", "update"}, layout \in Layout, uid \in Uid, body \in BOOLEAN :
        \E entity \in Supporting[does] :
            Prepares(o, <<entity, does>>, IF does = "create" THEN "POST" ELSE "PUT",
                     Filled(Template(entity, does), layout, uid), business, None, body,
                     Intent(entity, does, layout, uid))
  BY DEF PrepareEntity
<1>2. PICK entity \in Supporting[does] :
        Prepares(o, <<entity, does>>, IF does = "create" THEN "POST" ELSE "PUT",
                 Filled(Template(entity, does), layout, uid), business, None, body,
                 Intent(entity, does, layout, uid))
  BY <1>1
<1> DEFINE path == Filled(Template(entity, does), layout, uid)
           intent == Intent(entity, does, layout, uid)
           method == IF does = "create" THEN "POST" ELSE "PUT"
<1>3. entity \in Entity
  BY DEF Supporting, Maintained, HaveLayouts, Transactions, Entity, list_path
<1>4. path = Documented(intent)
  BY DEF Documented, Intent
<1>5. path[2] = list_path[entity][2]
  BY <1>3, RegisteredWords
<1>6. Words(<<entity, does>>) \subseteq Fixed(entity)
  BY DEF Words, Fixed
<1>7. Prepares(o, <<entity, does>>, method, path, business, None, body, intent)
  BY <1>2
<1> HIDE DEF path, intent, method
<1>8. ASSUME NEW e \in Rated, RegisteredFor(e, path)
      PROVE  Words(<<entity, does>>) \subseteq Fixed(e)
  <2>1. e = entity
    BY <1>3, <1>5, <1>8, OneEntity
  <2> QED
    BY <1>6, <2>1
<1> QED
  BY <1>4, <1>7, <1>8, PreparesAsDocumented

\* And each tool that is named for what it does; where it names the risk itself,
\* it is the documented one.
LEMMA NamedAsDocumented ==
  ASSUME PlainWords, StoreInv, NEW o \in Operation, NEW business, PrepareNamed(o, business)
  PROVE  StoreInv'
<1>1. PICK tool \in WriteTools, layout \in Layout, uid \in Uid \cup {NotGiven}, body \in BOOLEAN :
        Prepares(o, tool.type, tool.method, PathOf(tool, layout, uid), business, tool.risk, body,
                 Intent(AsEntity(tool.type[1]), AsOperation(tool.type[2]), layout, uid))
  BY DEF PrepareNamed
<1> DEFINE entity == AsEntity(tool.type[1])
           path == PathOf(tool, layout, uid)
           intent == Intent(entity, AsOperation(tool.type[2]), layout, uid)
<1>2. /\ entity \in Entity
      /\ Words(tool.type) \subseteq {entity, "inventory_item", "create", "update", "record", "delete"}
      /\ "inventory_item" \in Words(tool.type) => entity = "item"
      /\ "delete" \in Words(tool.type) => tool.method = "DELETE"
      /\ tool.risk # None => tool.risk = DocumentedRisk(entity, tool.method)
  BY NamedTool
<1>3. path[2] = list_path[entity][2] /\ (Complete(intent) => path = Documented(intent))
  BY NamedPath
<1>5. Prepares(o, tool.type, tool.method, path, business, tool.risk, body, intent)
  BY <1>1
<1> HIDE DEF entity, path, intent
<1>6. ASSUME NEW e \in Rated, RegisteredFor(e, path)
      PROVE  /\ tool.method # "DELETE" => Words(tool.type) \subseteq Fixed(e)
             /\ tool.risk # None => tool.risk = DocumentedRisk(e, tool.method)
  <2>1. e = entity
    BY <1>2, <1>3, <1>6, OneEntity
  <2>2. e # "item"
    BY DEF Rated, Transactions, HaveLayouts
  <2>3. tool.method # "DELETE" => Words(tool.type) \subseteq {e, "create", "update", "record"}
    BY <1>2, <2>1, <2>2
  <2>4. {e, "create", "update", "record"} \subseteq Fixed(e)
    BY DEF Fixed
  <2> QED
    BY <1>2, <2>1, <2>3, <2>4
<1> QED
  BY <1>3, <1>5, <1>6, PreparesAsDocumented

\* An attachment is of medium risk because its tool says so.
LEMMA AttachmentAsDocumented ==
  ASSUME PlainWords, StoreInv, NEW o \in Operation, NEW business, PrepareAttachment(o, business)
  PROVE  StoreInv'
<1>1. PICK parent \in RawPath :
        Prepares(o, <<"attachment", "upload">>, "POST", Append(parent, "Attachment"),
                 business, "medium", TRUE, NoIntent)
  BY DEF PrepareAttachment
<1> DEFINE path == Append(parent, "Attachment")
<1>2. Prepares(o, <<"attachment", "upload">>, "POST", path, business, "medium", TRUE, NoIntent)
  BY <1>1
<1> HIDE DEF path
<1> DEFINE op == [method |-> "POST", path |-> path, business |-> Shown(business),
                  intent |-> NoIntent, risk |-> "medium", chosen |-> TRUE]
<1>3. store' = [store EXCEPT ![o] = op]
  <2>1. "medium" # None
    BY DEF None
  <2> QED
    BY <1>2, <2>1 DEF Prepares, Or
<1>4. OpAsDocumented(op)
  BY DEF OpAsDocumented, RiskAsDocumented, Complete
<1> QED
  BY <1>3, <1>4 DEF StoreInv

\* What can be said of the store is kept by every step.
LEMMA StoreStep ==
  ASSUME PlainWords, StoreInv, [ToolsNext]_toolsVars
  PROVE  StoreInv'
<1>1. CASE UNCHANGED store
  BY <1>1 DEF StoreInv
<1>2. ASSUME NEW business, NEW o \in Operation,
             \/ PrepareRaw(o, business) \/ PrepareEntity(o, business)
             \/ PrepareNamed(o, business) \/ PrepareAttachment(o, business)
      PROVE  StoreInv'
  BY <1>2, RawAsDocumented, EntityAsDocumented, NamedAsDocumented, AttachmentAsDocumented
<1>3. ASSUME NEW business, Read(business) PROVE UNCHANGED store
  BY <1>3 DEF Read
<1>4. ASSUME NEW o \in Operation, Commit(o) PROVE UNCHANGED store
  BY <1>4 DEF Commit
<1>5. ASSUME Select \/ Restart \/ UNCHANGED toolsVars PROVE UNCHANGED store
  BY <1>5 DEF Select, Restart, toolsVars
<1> QED
  BY <1>1, <1>2, <1>3, <1>4, <1>5 DEF ToolsNext

\* Whatever tool prepares a request, for any layouts, uids and raw paths, prepares
\* it at the risk that the documentation gives to its path; and a tool that is
\* given a layout, and a record where it changes one, asks for the path that the
\* registry shows (AsDocumented).  An empty uid, which the tools for invoices and
\* bills accept, makes a path without a record; only its risk is spoken of.
THEOREM AllAsDocumented == ToolsSpec => []AsDocumented
<1>1. ToolsInit => StoreInv
  BY DEF ToolsInit, StoreInv
<1>2. StoreInv /\ [ToolsNext]_toolsVars => StoreInv'
  BY WordsArePlain, StoreStep
<1>3. StoreInv => AsDocumented
  BY WordsArePlain, ReadPaths DEF StoreInv, OpAsDocumented, AsDocumented
<1> QED
  BY <1>1, <1>2, <1>3, PTL DEF ToolsSpec

\* Preparing leaves everything but the store alone, and is done only if writes
\* are allowed.
LEMMA PreparingChanges ==
  ASSUME NEW business, NEW o,
         \/ PrepareRaw(o, business) \/ PrepareEntity(o, business)
         \/ PrepareNamed(o, business) \/ PrepareAttachment(o, business)
  PROVE  UNCHANGED <<config, forbidden, sent>> /\ config.allow_writes
<1>1. ASSUME NEW type, NEW method, NEW path, NEW risk, NEW body, NEW intent,
             Prepares(o, type, method, path, business, risk, body, intent)
      PROVE  UNCHANGED <<config, forbidden, sent>> /\ config.allow_writes
  BY <1>1 DEF Prepares
<1>2. CASE PrepareRaw(o, business)
  BY <1>1, <1>2 DEF PrepareRaw
<1>3. CASE PrepareEntity(o, business)
  <2>1. \E type, method, path, risk, body, intent :
          Prepares(o, type, method, path, business, risk, body, intent)
    BY <1>3 DEF PrepareEntity
  <2> QED
    BY <1>1, <2>1
<1>4. CASE PrepareNamed(o, business)
  <2>1. \E type, method, path, risk, body, intent :
          Prepares(o, type, method, path, business, risk, body, intent)
    BY <1>4 DEF PrepareNamed
  <2> QED
    BY <1>1, <2>1
<1>5. CASE PrepareAttachment(o, business)
  BY <1>1, <1>5 DEF PrepareAttachment
<1> QED
  BY <1>2, <1>3, <1>4, <1>5

\* What MYOB gets is what was shown to the person who approved it, the business
\* included, whatever was selected since and whatever the server found when it
\* started again (SentAsPrepared).
THEOREM SentAsShown == ToolsSpec => []SentAsPrepared
<1>1. ToolsInit => SentAsPrepared
  BY DEF ToolsInit, SentAsPrepared
<1>2. SentAsPrepared /\ [ToolsNext]_toolsVars => SentAsPrepared'
  <2> SUFFICES ASSUME SentAsPrepared, [ToolsNext]_toolsVars PROVE SentAsPrepared'
    OBVIOUS
  <2>1. CASE UNCHANGED sent
    BY <2>1 DEF SentAsPrepared
  <2>2. ASSUME NEW o \in Operation, Commit(o) PROVE SentAsPrepared'
    BY <2>2 DEF Commit, Selected, Or, SentAsPrepared
  <2>3. ASSUME NEW business, NEW o, PrepareRaw(o, business) \/ PrepareEntity(o, business)
                     \/ PrepareNamed(o, business) \/ PrepareAttachment(o, business)
        PROVE  UNCHANGED sent
    BY <2>3, PreparingChanges
  <2>4. ASSUME NEW business, Read(business) PROVE UNCHANGED sent
    BY <2>4 DEF Read
  <2>5. ASSUME Select \/ Restart \/ UNCHANGED toolsVars PROVE UNCHANGED sent
    BY <2>5 DEF Select, Restart, toolsVars
  <2> QED
    BY <2>1, <2>2, <2>3, <2>4, <2>5 DEF ToolsNext
<1> QED
  BY <1>1, <1>2, PTL DEF ToolsSpec

\* The word for "no" in the environment, or a boolean in the file in force where
\* the environment says nothing, turns writes off.
LEMMA ForbiddenIsOff ==
  ASSUME NEW files, NEW env \in Environment, WritesForbidden(files, env)
  PROVE  ~load_config(files, env).allow_writes
  BY DEF WritesForbidden, load_config, BoolFromEnv, Truth, Environment, Unset

\* A server that was told that nothing may be written prepares nothing, however
\* the files and the environment it started with disagree (WritesOffHonoured).
THEOREM WritesOff == ToolsSpec => WritesOffHonoured
<1> DEFINE OffInv == forbidden => ~config.allow_writes
<1>1. ASSUME NEW start \in Starts PROVE start.forbidden => ~start.config.allow_writes
  BY ForbiddenIsOff DEF Starts
<1>2. ToolsInit => OffInv
  BY <1>1 DEF ToolsInit
<1>3. OffInv /\ [ToolsNext]_toolsVars => OffInv' /\ (forbidden => store' = store)
  <2> SUFFICES ASSUME OffInv, [ToolsNext]_toolsVars PROVE OffInv' /\ (forbidden => store' = store)
    OBVIOUS
  <2>1. ASSUME NEW business, NEW o, PrepareRaw(o, business) \/ PrepareEntity(o, business)
                     \/ PrepareNamed(o, business) \/ PrepareAttachment(o, business)
        PROVE  UNCHANGED <<config, forbidden>> /\ config.allow_writes
    BY <2>1, PreparingChanges
  <2>2. ASSUME Restart PROVE OffInv' /\ UNCHANGED store
    BY <1>1, <2>2 DEF Restart
  <2>3. ASSUME NEW business, Read(business) PROVE UNCHANGED <<config, forbidden, store>>
    BY <2>3 DEF Read
  <2>4. ASSUME NEW o \in Operation, Commit(o) PROVE UNCHANGED <<config, forbidden, store>>
    BY <2>4 DEF Commit
  <2>5. ASSUME Select \/ UNCHANGED toolsVars PROVE UNCHANGED <<config, forbidden, store>>
    BY <2>5 DEF Select, toolsVars
  <2> QED
    BY <2>1, <2>2, <2>3, <2>4, <2>5 DEF ToolsNext
<1>4. [ToolsNext]_toolsVars /\ (forbidden => store' = store) => [forbidden => store' = store]_toolsVars
  OBVIOUS
<1> QED
  BY <1>2, <1>3, <1>4, PTL DEF ToolsSpec, WritesOffHonoured

-----------------------------------------------------------------------------
(* One call of MyobClient.request.                                         *)

\* A mutation without a key: at most one copy was ever made of it that MYOB
\* may have applied, and another is sent only after a refusal.
UnkeyedInv ==
    (~safe /\ ~keyed) =>
        /\ applied \in {0, 1}
        /\ applied = 1 => wire = {}
        /\ \A m, n \in wire : m = n
        /\ pc \in {"new", "sending", "refreshing", "sleeping"} => wire = {} /\ applied = 0
        /\ pc = "waiting" /\ answer \in {Unauthorized, RateLimited}
             => wire = {} /\ applied = 0

\* A request with a key: every copy carries it, and MYOB remembers it once it
\* has applied one.
KeyedInv ==
    keyed =>
        /\ pc \in {"sending", "waiting", "sleeping"} => keyHeader = TRUE
        /\ \A m \in wire : m.keyed = TRUE
        /\ honoursKey => applied \in {0, 1} /\ (applied = 1 => keySeen = TRUE)

-----------------------------------------------------------------------------
\* Every variable of the client stays in its range, and the loop within its
\* iterations, so that its last line is never reached (client.py 156).
THEOREM ClientTypeCorrect == Spec => []TypeOK
<1>1. Init => TypeOK
  <2> SUFFICES ASSUME Init PROVE TypeOK
    OBVIOUS
  <2>1. attempt \in 0 .. MaxRetries /\ applied \in Nat
    BY RetriesAreNumbers DEF Init
  <2>2. /\ safe \in BOOLEAN /\ keyed \in BOOLEAN /\ honoursKey \in BOOLEAN
        /\ keyHeader \in BOOLEAN /\ keySeen \in BOOLEAN
    BY DEF Init
  <2>3. /\ pc \in Place /\ wire \subseteq Copy
        /\ answer \in HttpStatus \cup {NoAnswer}
    BY DEF Init, Place
  <2> QED
    BY <2>1, <2>2, <2>3 DEF TypeOK
<1>2. TypeOK /\ [Next]_vars => TypeOK'
  <2> SUFFICES ASSUME TypeOK, [Next]_vars PROVE TypeOK'
    OBVIOUS
  <2> USE RetriesAreNumbers DEF TypeOK, Place, Ended
  <2>1. ASSUME NEW m \in wire, NEW status \in HttpStatus, NEW applies \in BOOLEAN,
               MyobReceives(m, status, applies)
        PROVE  TypeOK'
    BY <2>1 DEF MyobReceives
  <2>2. CASE Send
    BY <2>2 DEF Send, ThisCopy, Copy
  <2>3. CASE Timeout \/ RequestError
    BY <2>3 DEF Timeout, RequestError, NextAttempt, Raise, service
  <2>4. CASE \/ Unauthorised \/ Limited \/ RetryServerError
             \/ ErrorAnswer \/ Returns
    BY <2>4 DEF Unauthorised, Limited, RetryServerError, ErrorAnswer,
       Returns, Answered, NextAttempt, Raise, service
  <2>5. CASE \/ HeadersReady \/ HeadersFail \/ Refreshed
             \/ RefreshFails \/ Wakes \/ Cancelled
    BY <2>5 DEF HeadersReady, HeadersFail, Refreshed,
       RefreshFails, Wakes, Cancelled, Raise, service
  <2>6. CASE UNCHANGED vars
    BY <2>6 DEF vars
  <2> QED
    BY <2>1, <2>2, <2>3, <2>4, <2>5, <2>6 DEF Next, ClientStep, ServiceStep
<1> QED
  BY <1>1, <1>2, PTL DEF Spec

\* A mutation without a key is applied at most once.
THEOREM UnkeyedOnce == Spec => []UnkeyedAppliedOnce
<1>1. Init => UnkeyedInv
  BY DEF Init, UnkeyedInv, NoAnswer
<1>2. UnkeyedInv /\ [Next]_vars => UnkeyedInv'
  <2> SUFFICES ASSUME UnkeyedInv, [Next]_vars PROVE UnkeyedInv'
    OBVIOUS
  <2> USE DEF UnkeyedInv, Unauthorized, RateLimited, service
  <2>1. ASSUME NEW m \in wire, NEW status \in HttpStatus, NEW applies \in BOOLEAN,
               MyobReceives(m, status, applies)
        PROVE  UnkeyedInv'
    <3>1. CASE applies = TRUE
      BY <2>1, <3>1 DEF MyobReceives, Success, ServerError
    <3>2. CASE applies = FALSE
      BY <2>1, <3>2 DEF MyobReceives
    <3> QED
      BY <3>1, <3>2
  <2>2. CASE Send
    BY <2>2 DEF Send, NoAnswer
  <2>3. CASE Timeout \/ RequestError
    BY <2>3 DEF Timeout, RequestError, NextAttempt, Raise, Repeatable
  <2>4. CASE \/ Unauthorised \/ Limited \/ RetryServerError
             \/ ErrorAnswer \/ Returns
    BY <2>4 DEF Unauthorised, Limited, RetryServerError,
       ErrorAnswer, Returns, Answered, NextAttempt, Raise, RetriesServerError
  <2>5. CASE \/ HeadersReady \/ HeadersFail \/ Refreshed
             \/ RefreshFails \/ Wakes \/ Cancelled
    BY <2>5 DEF HeadersReady, HeadersFail, Refreshed,
       RefreshFails, Wakes, Cancelled, Raise
  <2>6. CASE UNCHANGED vars
    BY <2>6 DEF vars
  <2> QED
    BY <2>1, <2>2, <2>3, <2>4, <2>5, <2>6 DEF Next, ClientStep, ServiceStep
<1>3. UnkeyedInv => UnkeyedAppliedOnce
  BY DEF UnkeyedInv, UnkeyedAppliedOnce
<1> QED
  BY <1>1, <1>2, <1>3, PTL DEF Spec

\* A mutation with a key is applied at most once by a MYOB that honours keys.
THEOREM KeyedOnce == Spec => []KeyedAppliedOnce
<1>1. Init => KeyedInv
  BY DEF Init, KeyedInv
<1>2. KeyedInv /\ [Next]_vars => KeyedInv'
  <2> SUFFICES ASSUME KeyedInv, [Next]_vars PROVE KeyedInv'
    OBVIOUS
  <2> USE DEF KeyedInv, service
  <2>1. ASSUME NEW m \in wire, NEW status \in HttpStatus, NEW applies \in BOOLEAN,
               MyobReceives(m, status, applies)
        PROVE  KeyedInv'
    <3>1. /\ wire' \subseteq wire /\ UNCHANGED <<keyed, honoursKey, pc, keyHeader>>
          /\ \/ UNCHANGED <<applied, keySeen>>
             \/ /\ ~(honoursKey /\ m.keyed /\ keySeen)
                /\ applied' = applied + 1 /\ keySeen' = (keySeen \/ m.keyed)
      BY <2>1 DEF MyobReceives
    <3>2. CASE UNCHANGED <<applied, keySeen>>
      BY <3>1, <3>2
    <3>3. CASE keyed /\ applied' = applied + 1 /\ ~(honoursKey /\ m.keyed /\ keySeen)
               /\ keySeen' = (keySeen \/ m.keyed)
      <4>1. m.keyed = TRUE
        BY <3>3
      <4>2. keySeen' = TRUE
        BY <3>3, <4>1
      <4>3. honoursKey => keySeen # TRUE
        BY <3>3, <4>1
      <4> QED
        <5>1. honoursKey => applied # 1
          BY <3>3, <4>3
        <5>2. honoursKey => applied' = 1
          BY <3>3, <5>1
        <5>3. /\ keyed /\ keyed' = keyed /\ honoursKey' = honoursKey
              /\ pc' = pc /\ keyHeader' = keyHeader /\ wire' \subseteq wire
          BY <3>1, <3>3
        <5> QED
          BY <5>2, <5>3, <4>2
    <3> QED
      BY <3>1, <3>2, <3>3
  <2>2. CASE Send
    <3>1. keyed => ThisCopy.keyed = TRUE
      BY <2>2 DEF Send, ThisCopy
    <3> QED
      BY <2>2, <3>1 DEF Send
  <2>3. CASE Timeout \/ RequestError
    BY <2>3 DEF Timeout, RequestError, NextAttempt, Raise
  <2>4. CASE \/ Unauthorised \/ Limited \/ RetryServerError
             \/ ErrorAnswer \/ Returns
    BY <2>4 DEF Unauthorised, Limited, RetryServerError,
       ErrorAnswer, Returns, Answered, NextAttempt, Raise
  <2>5. CASE \/ HeadersReady \/ HeadersFail \/ Refreshed
             \/ RefreshFails \/ Wakes \/ Cancelled
    BY <2>5 DEF HeadersReady, HeadersFail, Refreshed,
       RefreshFails, Wakes, Cancelled, Raise
  <2>6. CASE UNCHANGED vars
    BY <2>6 DEF vars
  <2> QED
    BY <2>1, <2>2, <2>3, <2>4, <2>5, <2>6 DEF Next, ClientStep, ServiceStep
<1>3. KeyedInv => KeyedAppliedOnce
  BY DEF KeyedInv, KeyedAppliedOnce
<1> QED
  BY <1>1, <1>2, <1>3, PTL DEF Spec

-----------------------------------------------------------------------------
(* How long one call of MyobClient.request can go on.                      *)

\* What is left of an iteration of the loop: an await before the request is
\* sent, the sending, and the exchange.
LeftOfIteration ==
    IF pc \in {"new", "refreshing", "sleeping"} THEN 3
    ELSE IF pc = "sending" THEN 2
    ELSE IF pc = "waiting" THEN 1 ELSE 0

\* A bound on the steps the call can still make.
StepsLeft == 3 * (MaxRetries - attempt) + LeftOfIteration

StepsBounded == StepsLeft \in 0 .. 3 * MaxRetries + 3

\* A step of the call uses up some of the bound, and nothing gives it back:
\* neither MYOB, nor the network, nor a cancellation.
StepsRunOut ==
    /\ ClientStep => StepsLeft' < StepsLeft
    /\ StepsLeft' <= StepsLeft

\* The bound drops when an iteration is used up, or a part of one.
LEMMA BoundDrops ==
    ASSUME NEW m \in Nat, NEW a \in Nat, NEW b \in Nat, NEW x \in 0 .. 3, NEW y \in 0 .. 3,
           (b = a /\ y < x) \/ (b = a + 1 /\ x = 1)
    PROVE  3 * (m - b) + y < 3 * (m - a) + x
  OBVIOUS

\* A call of request makes at most 3 * max_retries + 3 steps, whatever MYOB
\* answers and however often it asks for a refresh or a pause (client.py,
\* 75-156): no answer sends the loop back without using up an iteration.
THEOREM CallRunsOut == Spec => []StepsBounded /\ [][StepsRunOut]_vars
<1>1. TypeOK => StepsBounded
  <2> SUFFICES ASSUME TypeOK PROVE StepsBounded
    OBVIOUS
  <2>1. LeftOfIteration \in 0 .. 3
    BY DEF LeftOfIteration
  <2>2. attempt \in 0 .. MaxRetries
    BY DEF TypeOK
  <2> QED
    BY <2>1, <2>2, RetriesAreNumbers DEF StepsBounded, StepsLeft
<1>2. TypeOK /\ TypeOK' /\ [Next]_vars => [StepsRunOut]_vars
  <2> SUFFICES ASSUME TypeOK, TypeOK', Next PROVE StepsRunOut
    OBVIOUS
  <2>1. MaxRetries \in Nat /\ attempt \in Nat /\ attempt' \in Nat
    BY RetriesAreNumbers DEF TypeOK
  <2>2. LeftOfIteration \in 0 .. 3 /\ LeftOfIteration' \in 0 .. 3
    BY DEF LeftOfIteration
  <2>3. ASSUME \/ attempt' = attempt /\ LeftOfIteration' < LeftOfIteration
               \/ attempt' = attempt + 1 /\ LeftOfIteration = 1
        PROVE  StepsLeft' < StepsLeft
    BY <2>1, <2>2, <2>3, BoundDrops DEF StepsLeft
  <2>4. ASSUME ClientStep
        PROVE  \/ attempt' = attempt /\ LeftOfIteration' < LeftOfIteration
               \/ attempt' = attempt + 1 /\ LeftOfIteration = 1
    <3> USE DEF LeftOfIteration
    <3>1. CASE HeadersReady \/ Send \/ Refreshed \/ Wakes
      BY <3>1 DEF HeadersReady, Send, Refreshed, Wakes
    <3>2. CASE HeadersFail \/ RefreshFails
      BY <3>2 DEF HeadersFail, RefreshFails, Raise
    <3>3. CASE Timeout \/ RequestError
      BY <3>3 DEF Timeout, RequestError, NextAttempt, Raise
    <3>4. CASE \/ Unauthorised \/ Limited \/ RetryServerError
               \/ ErrorAnswer \/ Returns
      BY <3>4 DEF Unauthorised, Limited, RetryServerError,
         ErrorAnswer, Returns, Answered, NextAttempt, Raise
    <3> QED
      BY <2>4, <3>1, <3>2, <3>3, <3>4 DEF ClientStep
  <2>5. ASSUME Cancelled
        PROVE  attempt' = attempt /\ LeftOfIteration' < LeftOfIteration
    BY <2>5 DEF Cancelled, LeftOfIteration
  <2>6. ASSUME ServiceStep
        PROVE  attempt' = attempt /\ LeftOfIteration' = LeftOfIteration
    BY <2>6 DEF ServiceStep, MyobReceives, LeftOfIteration
  <2>7. StepsLeft \in Int /\ StepsLeft' \in Int
    BY <2>1, <2>2 DEF StepsLeft
  <2>8. CASE ClientStep \/ Cancelled
    <3>1. StepsLeft' < StepsLeft
      BY <2>3, <2>4, <2>5, <2>8
    <3> QED
      BY <2>7, <3>1 DEF StepsRunOut
  <2>9. CASE ServiceStep
    <3>1. StepsLeft' = StepsLeft
      BY <2>6, <2>9 DEF StepsLeft
    <3>2. ~ClientStep
      <4>1. ASSUME ClientStep PROVE StepsLeft' < StepsLeft
        BY <2>3, <2>4, <4>1
      <4> QED
        BY <2>7, <3>1, <4>1
    <3> QED
      BY <2>7, <3>1, <3>2 DEF StepsRunOut
  <2> QED
    BY <2>8, <2>9 DEF Next
<1> QED
  BY <1>1, <1>2, ClientTypeCorrect, PTL DEF Spec

=============================================================================
